SPECIFICATION Spec
CONSTANTS
    Programs = {p1, p2}
    HubKeys = {k1, k2}
    Passwords = {w1, w2}
    None = none
    Patterns = {"KK", "XX"}
    FirstKey = k1
    NextKey = k2
    FirstPassword = w1
    NextPassword = w2
    MaxFaults = 1
    Devices = {d1, d2}
    Names = {"unnamed", "kitchen"}
    Unnamed = "unnamed"
    LateNames = {"unnamed"}
    Missing = "missing"
    MaxCrashes = 2
    short = short
    full = full
    long = long
    Senders = {short, full, long}
    SizeOf <- MCSize
    IsJson <- MCJson
    ChunkSize = 2
    ReassemblyCap = 6
    Nobody = nobody
    MaxNetworkFaults = 1
INVARIANTS KeysAgree MessagesAreWhole
PROPERTIES EveryoneIsTold
CHECK_DEADLOCK FALSE
