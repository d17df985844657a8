SPECIFICATION FairSpec
CONSTANTS
    a = a
    r1 = r1
    r2 = r2
    g1 = g1
    p1 = p1
    p2 = p2
    t1 = t1
    t2 = t2
    Targets = {a}
    Refs = {r1, r2}
    Groups = {g1}
    Requesters = {p1, p2}
    Packages <- OneEach
    Threads = {t1, t2}
    MaxPending = 1
    MaxAge = 1
    SameMillisecond = FALSE
    MaxClock = 3
    MaxStores = 3
INVARIANTS
    TypeOK
    AckedStaysGone
    JoinQueueBounded
    JoinRequestVouched
PROPERTIES
    WelcomeNotLost
    JoinRequestNotLost
    ExpiredGone
CHECK_DEADLOCK FALSE
