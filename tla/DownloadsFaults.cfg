SPECIFICATION FairSpec
CONSTANTS
    a1 = a1
    a2 = a2
    b1 = b1
    w1 = w1
    w2 = w2
    ra = ra
    rb = rb
    rw1 = rw1
    rw2 = rw2
    None = None
    Url = {a1, a2}
    WikiUrl = {}
    Named = {a1, a2}
    NoLength = {}
    Preinstalled = {}
    Concurrency = 1
    MaxAttempts = 1
    MaxStalled = 1
    FailLimit = 1
    StallLimit = 2
    Happens = {"delete", "dismiss", "callback error", "docker error"}
    Resource <- MCResource
    ResourceOf <- MCResourceOf
    Tiers <- MCTiers
PROPERTIES
    JobsSettle
CHECK_DEADLOCK FALSE
