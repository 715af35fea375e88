SPECIFICATION EitherFair
CONSTANTS
    Callers = {a}
    Closers = {k1}
    Redial = redial
    Supervisor = supervisor
    None = none
    Native = TRUE
    AutoReconnect = TRUE
    SyncCloses = 0
    RetireMayFail = FALSE
PROPERTIES CallsEnd DropIsRedialled NoReadyAfterClose
CHECK_DEADLOCK FALSE
