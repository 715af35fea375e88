SPECIFICATION Spec
CONSTANTS
    Background = {}
    Awaited = {a}
    Hive = {}
    Streams = {}
    None = None
    Handlers = {a}
    LinkKinds = {"mqtt"}
    Refusing = {}
    MaxSessions = 2
    MaxRegistrations = 3
INVARIANT AtMostOnce
CHECK_DEADLOCK FALSE
