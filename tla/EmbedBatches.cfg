SPECIFICATION Spec
CONSTANTS
    u1 = u1
    z1 = z1
    d1 = d1
    Upload = {}
    Zim = {z1}
    Doc = {}
    Articles <- MCArticles
    BatchSize = 1
    Concurrency = 1
    MaxAttempts = 2
    MaxStalled = 1
    AgainLimit = 1
    TroubledLimit = 1
    Happens = {}
INVARIANTS
    ZimIsEmbedded
CHECK_DEADLOCK FALSE
