SPECIFICATION Spec
CONSTANTS
    g1 = g1
    g2 = g2
    p1 = p1
    p2 = p2
    m1 = m1
    m2 = m2
    Groups = {g1}
    Messages = {m1}
    Posters = {p1, p2}
    MayPost <- SameGroup
    Requests <- OneGroup
    LiveTailGroups = {}
    MaxLog = 2
    MaxSubscribers = 1
INVARIANTS
    DeliversEveryMessage
CHECK_DEADLOCK FALSE
