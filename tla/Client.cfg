SPECIFICATION EitherSpec
CONSTANTS
    Callers = {a, b}
    Closers = {k1, k2}
    Redial = redial
    Supervisor = supervisor
    None = none
    Native = TRUE
    AutoReconnect = TRUE
    SyncCloses = 1
    RetireMayFail = TRUE
SYMMETRY Interchangeable
INVARIANTS OneOwner ClosedIsQuiet
PROPERTIES NoDialOverFailedCleanup CleanupStaysWithOwner
CHECK_DEADLOCK FALSE
