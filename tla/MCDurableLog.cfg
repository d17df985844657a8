SPECIFICATION FairSpec
CONSTANTS
    I64Texts <- Texts
    Width = 24
    DayMs = 86400
    SecondMs = 1
    Environments <- Operators
    Databases <- FreshOrLegacy
    MaxPosts = 3
    MaxCrashes = 2
INVARIANTS
    TypeOK
    PromisesKept
    CountersMatchLog
    ServesCurrentSchema
PROPERTIES
    ComesUp
CHECK_DEADLOCK FALSE
