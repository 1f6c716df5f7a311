SPECIFICATION Spec
CONSTANTS
    a1 = a1
    a2 = a2
    b1 = b1
    w1 = w1
    w2 = w2
    ra = ra
    rb = rb
    rw1 = rw1
    rw2 = rw2
    None = None
    Url = {a1, b1}
    WikiUrl = {}
    Named = {a1}
    NoLength = {a1}
    Preinstalled = {}
    Concurrency = 2
    MaxAttempts = 2
    MaxStalled = 1
    FailLimit = 1
    StallLimit = 1
    Happens = {"reboot"}
    Resource <- MCResource
    ResourceOf <- MCResourceOf
    Tiers <- MCTiers
INVARIANTS
    TypeOK
    RestartDuty
    ServedWhenDrained
    FinishedIsRecorded
CHECK_DEADLOCK FALSE
