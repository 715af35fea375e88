SPECIFICATION FairSpec
CONSTANTS
    MaxAttempts = 3
    Connectors = {p}
    Disconnectors = {d1, d2}
    CleanupMayFail = TRUE
    KKMayFail = FALSE
    SameTurn = TRUE
PROPERTIES DisconnectIsFinal CallsEnd
CHECK_DEADLOCK FALSE
