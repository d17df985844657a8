SPECIFICATION Spec
CONSTANTS
    g1 = g1
    g2 = g2
    p1 = p1
    p2 = p2
    m1 = m1
    m2 = m2
    Groups = {g1, g2}
    Messages = {m1}
    Posters = {p1, p2}
    MayPost <- Shared
    Requests <- WithRepeats
    LiveTailGroups = {g1}
    MaxLog = 3
    MaxSubscribers = 1
INVARIANTS
    StreamFaithful
    StreamOrdered
    BacklogBeforeLive
CHECK_DEADLOCK FALSE
