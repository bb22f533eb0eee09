SPECIFICATION Spec
CONSTANTS
    t1 = t1
    t2 = t2
    Tabs = {t1, t2}
    Sessions = {1, 2, 3}
    Keys = {k}
    Codes = {1}
    IdleTime = 2
    AbsoluteTime = 3
    TouchInterval = 1
    ShortTime = 1
    Window = 2
    Limit = 2
    MaxPasskeys = 1
    OldHash = TRUE
    MaxClock = 3
    MaxOps = 5
    MaxFaults = 1
INVARIANTS
    TypeOK
    EachCodeCountsOnce
    RetryAfterIsHonest
PROPERTIES
    RemovedPasskeyIsRefused
    SessionsEndForGood
SYMMETRY Symmetry
CHECK_DEADLOCK FALSE
