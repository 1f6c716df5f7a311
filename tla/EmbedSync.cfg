SPECIFICATION Spec
CONSTANTS
    u1 = u1
    z1 = z1
    d1 = d1
    Upload = {u1}
    Zim = {}
    Doc = {}
    Articles <- MCArticles
    BatchSize = 1
    Concurrency = 1
    MaxAttempts = 2
    MaxStalled = 1
    AgainLimit = 1
    TroubledLimit = 1
    Happens = {"missing", "sync"}
PROPERTIES
    SyncQueuesMissing
CHECK_DEADLOCK FALSE
