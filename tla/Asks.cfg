SPECIFICATION AsksFair
CONSTANTS
    Asks = {a, b}
    Queries = {q}
    Sends = {s}
    MaxTries = 2
    MaxCalls = 2
    AppCloses = TRUE
    Nobody = Nobody
INVARIANTS VerdictIsItsOwn OnceAndOver
PROPERTIES EveryCallEnds
CHECK_DEADLOCK FALSE
