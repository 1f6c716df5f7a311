SPECIFICATION FairSpec
CONSTANTS
    c1 = c1
    c2 = c2
    t1 = t1
    t2 = t2
    Client = {c1, c2}
    Tag = {t1, t2}
    InitialTag = t1
    MaxRequests = 2
    MaxCrashes = 1
    Faults = {"sed", "pull", "stop", "rm", "up"}
INVARIANTS
    TypeOK
    AtMostOnce
    CompleteIsComplete
PROPERTIES
    RequestTaken
    StatusRests
    KeepsProtocol
CHECK_DEADLOCK FALSE
