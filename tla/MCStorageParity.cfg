SPECIFICATION Spec
CONSTANTS
    i1 = i1
    i2 = i2
    r1 = r1
    r2 = r2
    r3 = r3
    r4 = r4
    Identities = {i1, i2}
    Refs = {r1, r2, r3, r4}
    ReuseRefs = FALSE
    MaxStored = 4
INVARIANTS
    SameReplies
    SameRecords
