SPECIFICATION HubSpec
CONSTANTS
    enUS = enUS
    enus = enus
    enCA = enCA
    frFR = frFR
    de = de
    NoTag = NoTag
    Tags <- MCTags
    LanguageOf <- MCLanguage
    BaseOf <- MCBase
    UsualOf <- MCUsual
    Asked <- MCAsked
    Contents <- MCContents
    SessionTag = frFR
    Queries <- MCQueries
    Batch = 2
    Knows <- MCKnows
    MaxFrames = 5
    MaxThreads = 3
    Callers = {c1, c2, c3, own}
    OnLoop = {own}
    MaxLoops = 3
    FAIL = FAIL
    Objects <- MCObjects
    Inflated <- MCInflated
    Aliases <- MCAliases
    Scripts <- MCScripts
    Regions <- MCRegions
    DefaultScript <- MCDefault
    Macro <- MCMacro
    Likely <- MCLikely
    Distances <- MCDistances
    Groups <- MCGroups
    Slots = {"{city}", "{x}"}
    SlotWord <- MCSlotWord
    Trailing = {"in"}
    Openers = {"what"}
    Marks = {"!", "?", "."}
    Carried = {"converse_handlers"}
INVARIANTS SaidIsRead ListingIsTrue AnswersAreKept WorkIsDone
CHECK_DEADLOCK FALSE
