SPECIFICATION Spec
CONSTANTS
    i1 = i1
    i2 = i2
    i3 = i3
    h1 = h1
    h2 = h2
    h3 = h3
    g2 = g2
    Steady = {c2, c3}
    c1 = c1
    c2 = c2
    c3 = c3
    Turns = {t1, t2, t3}
    Ids <- MCIds
    Conversations = {c1, c2, c3}
    ConversationOf <- MCConversationOf
    OwnIds = {i1, i2, i3}
    MaxAliases = 3
    MaxRemembered = 2
    Nothing = Nothing
    MaxHeard = 4
    MaxBuffered = 2
    Wanted = {2, 5}
    Timeouts = {TRUE, FALSE}
SYMMETRY Interchangeable
INVARIANTS MemoryIsTrue StreamIsTrue
PROPERTIES TimedStreamMoves
CHECK_DEADLOCK FALSE
