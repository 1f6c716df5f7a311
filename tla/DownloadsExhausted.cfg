SPECIFICATION Spec
CONSTANTS
    a1 = a1
    a2 = a2
    b1 = b1
    w1 = w1
    w2 = w2
    ra = ra
    rb = rb
    rw1 = rw1
    rw2 = rw2
    None = None
    Url = {w1, a1}
    WikiUrl = {w1}
    Named = {a1, w1}
    NoLength = {}
    Preinstalled = {}
    Concurrency = 2
    MaxAttempts = 2
    MaxStalled = 1
    FailLimit = 2
    StallLimit = 0
    Happens = {}
    Resource <- MCResource
    ResourceOf <- MCResourceOf
    Tiers <- MCTiers
INVARIANTS
    ServedWhenDrained
CHECK_DEADLOCK FALSE
