SPECIFICATION FairSpec
CONSTANTS
    u1 = u1
    z1 = z1
    d1 = d1
    Upload = {u1}
    Zim = {z1}
    Doc = {}
    Articles <- MCArticles
    BatchSize = 1
    Concurrency = 1
    MaxAttempts = 2
    MaxStalled = 1
    AgainLimit = 1
    TroubledLimit = 1
    Happens = {"missing", "not ready", "embed error", "redis error", "crash", "delete", "sync", "evict"}
INVARIANTS
    TypeOK
    StoredOnce
    CompletedIsStored
PROPERTIES
    JobsEnd
    KeepsStore
CHECK_DEADLOCK FALSE
