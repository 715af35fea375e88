SPECIFICATION AllSpec
CONSTANTS
    MaxAttempts = 3
    Connectors = {p, q}
    Disconnectors = {d1, d2}
    CleanupMayFail = FALSE
    KKMayFail = TRUE
    SameTurn = FALSE
    Dialers = {a, b}
    MaxClients = 2
    QueueSize = 1
    MaxFrames = 2
    Replicas = {r1, r2}
    MaxCarriers = 2
    MaxQueued = 3
    MaxRestarts = 1
SYMMETRY Interchangeable
INVARIANTS OpenIsAccounted FramesInOrder
PROPERTIES LinksEndForAReason
CHECK_DEADLOCK FALSE
