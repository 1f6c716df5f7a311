SPECIFICATION FairSpec
CONSTANTS
    s1 = s1
    j1 = j1
    j2 = j2
    c1 = c1
    Service = {s1}
    Release <- MCRelease
    First <- MCFirst
    Supported <- MCRelease
    Check = {j1, j2}
    Client = {c1}
    MaxArchChecks = 1
    MaxFailures = 1
    MaxStalls = 1
    MaxUpdates = 2
INVARIANTS
    TypeOK
PROPERTIES
    MajorKept
    OffersSettle
CHECK_DEADLOCK FALSE
