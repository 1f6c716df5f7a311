SPECIFICATION FairSpec
CONSTANTS
    r1 = r1
    r2 = r2
    Request = {r1, r2}
    MaxAttempts = 2
    MaxErrors = 1
    MaxCrashes = 0
PROPERTIES
    TryAgainHelps
CHECK_DEADLOCK FALSE
