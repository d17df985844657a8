SPECIFICATION Spec
CONSTANTS
    i1 = i1
    i2 = i2
    t1 = t1
    t2 = t2
    r1 = r1
    r2 = r2
    l1 = l1
    l2 = l2
    l3 = l3
    s1 = s1
    Identities = {i1, i2}
    Refs = {r1, r2, l1, l2, l3, s1}
    Threads = {t1, t2}
    MayPublish <- OneThreadEach
    MayRemove <- RemoveAny
    Backends = {"memory", "sqlite"}
    Persisted <- FilesOutgrown
    MaxPerIdentity = 2
    MaxLastResort = 2
    MaxPublishes = 5
INVARIANTS
    TypeOK
    HandedOnce
PROPERTIES
    QuotaRespected
    LastResortKept
    EvictsToMakeRoom
CHECK_DEADLOCK FALSE
