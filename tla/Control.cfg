SPECIFICATION ControlSpec
CONSTANTS
    Passwords = {p}
    Polls = {poll}
    Loops = {loop}
    Revokes = {s}
    Named = {named}
    Codes = {grant}
    CodeOf <- MCCodeOf
    NamedToken <- MCNamedToken
    MaxSlow = 2
    None = None
    poll = poll
    loop = loop
    grant = grant
    named = named
    setter = setter
    merger = merger
    replacer = replacer
    settingsKey = settingsKey
    langKey = langKey
    hostKey = hostKey
    oldValue = oldValue
    newValue = newValue
    Writers = {setter, merger, replacer}
    Replacers = {replacer}
    Keys = {settingsKey, langKey}
    SubKeys = {hostKey, port}
    Values = {oldValue, newValue}
    Delta <- MCDelta
    Starts <- MCStarts
    Attempts = 2
    Absent = Absent
    Timeout = 7
    PollInterval = 2
    HttpTimeout = 3
    RetryAfters = {0, 1, 4}
    Kinds = {"operation", "admission", "skill"}
    maker = maker
    Calls = {maker, z}
    Typed = {maker}
    Deletes = {d}
    Of <- MCOf
    MaxVersion = 3
    Editors = {h, j}
    MaxBridgeEdits = 3
    CreateCalls <- MCCreates
    Changes <- MCChanges
    Rotations <- MCRotations
INVARIANTS TokensAreRight CallsAreTrue EditsAreKept
PROPERTIES WaitsEnd ImplementsAtomic KeepsTheRest
CHECK_DEADLOCK FALSE
