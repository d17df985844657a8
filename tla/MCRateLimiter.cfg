SPECIFICATION Spec
CONSTANTS
    k1 = k1
    k2 = k2
    t1 = t1
    t2 = t2
    Keys = {k1, k2}
    Threads = {t1, t2}
    MayCall <- Shared
    Unit = 2
    Rate = 1
    Burst = 1
    IdleTtl = 3
    MaxClock = 5
INVARIANTS
    TypeOK
    WithinRate
    NothingForfeited
CHECK_DEADLOCK FALSE
