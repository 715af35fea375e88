SPECIFICATION FairSpec
CONSTANTS
    Background = {b}
    Awaited = {}
    Hive = {h}
    Streams = {l}
    None = None
    Handlers = {b, h, l}
    LinkKinds = {"native", "keeping", "clearing"}
    Refusing = {"clearing"}
    MaxSessions = 2
    MaxRegistrations = 5
INVARIANTS NothingLeft EachCalledOnce
PROPERTIES LinkRespected Settles
CHECK_DEADLOCK FALSE
