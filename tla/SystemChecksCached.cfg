SPECIFICATION FairSpec
CONSTANTS
    f1 = f1
    Force = {f1}
    Release <- MCRelease
    First <- MCFirst
    MaxInstalls = 1
PROPERTIES
    ReleaseNoticed
CHECK_DEADLOCK FALSE
