SPECIFICATION Spec
CONSTANTS
    Callers = {a, b}
    Events = {e}
    MaxClients = 3
    MaxCloseFailures = 1
    Warm = warm
    Closer = closer
    Free = free
    Asking = {c}
    Run = run
    Shutter = shutter
    Handlers = {h}
    MaxLinks = 2
    MaxMoods = 2
    Ceiling = 2
    Grace = 3
    CloseMayFail = TRUE
    Requests = {p, q, r}
    Plain = {p, q}
    Slots = 1
    Timeout = 1
    Bound = 2
    Preferences = {lan, shed}
    Nowhere = nowhere
    MaxAttempts = 4
    MaxRetireFailures = 2
INVARIANTS OneOfEach HandlersAreCarried StuckHandlersAreBounded
PROPERTIES NothingActsLate EverythingEnds
CHECK_DEADLOCK FALSE
