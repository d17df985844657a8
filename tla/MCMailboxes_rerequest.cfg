SPECIFICATION Spec
CONSTANTS
    a = a
    r1 = r1
    r2 = r2
    g1 = g1
    p1 = p1
    p2 = p2
    t1 = t1
    t2 = t2
    Targets = {}
    Refs = {r1}
    Groups = {g1}
    Requesters = {p1}
    Packages <- OfFirst
    Threads = {t1}
    MaxPending = 2
    MaxAge = 2
    SameMillisecond = TRUE
    MaxClock = 3
    MaxStores = 3
PROPERTIES
    JoinRequestNotLost
CHECK_DEADLOCK FALSE
