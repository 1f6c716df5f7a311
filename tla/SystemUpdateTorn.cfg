SPECIFICATION Spec
CONSTANTS
    c1 = c1
    c2 = c2
    t1 = t1
    t2 = t2
    Client = {c1}
    Tag = {t1, t2}
    InitialTag = t1
    MaxRequests = 1
    MaxCrashes = 0
    Faults = {}
INVARIANTS
    ComposeHasTag
CHECK_DEADLOCK FALSE
