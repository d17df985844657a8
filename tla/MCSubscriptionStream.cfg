SPECIFICATION FairStreamSpec
CONSTANTS
    g1 = g1
    p1 = p1
    m1 = m1
    m2 = m2
    c1 = c1
    Groups = {g1}
    Messages = {m1}
    Posters = {p1}
    MayPost <- OneWriter
    Requests <- Resumes
    LiveTailGroups = {}
    MaxLog = 2
    MaxSubscribers = 2
    Clients = {c1}
    Nobody = Nobody
    Wanted <- OnlyGroup
INVARIANTS
    StreamTypeOK
    ResumeGapFree
PROPERTIES
    SubscribeReturns
    GoneStreamsEnd
    EventuallyReceivedByClient
CHECK_DEADLOCK FALSE
