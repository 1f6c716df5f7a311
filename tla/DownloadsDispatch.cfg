SPECIFICATION Spec
CONSTANTS
    a1 = a1
    a2 = a2
    b1 = b1
    w1 = w1
    w2 = w2
    ra = ra
    rb = rb
    rw1 = rw1
    rw2 = rw2
    None = None
    Url = {w1, w2}
    WikiUrl = {w1, w2}
    Named = {}
    NoLength = {}
    Preinstalled = {}
    Concurrency = 2
    MaxAttempts = 2
    MaxStalled = 1
    FailLimit = 2
    StallLimit = 2
    Happens = {"delete", "dismiss", "dispatch error", "listener error", "callback error"}
    Resource <- MCResource
    ResourceOf <- MCResourceOf
    Tiers <- MCTiers
INVARIANTS
    DownloadingIsPending
CHECK_DEADLOCK FALSE
VIEW JobsAndSelection
