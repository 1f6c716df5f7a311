SPECIFICATION FairSpec
CONSTANTS
    r1 = r1
    r2 = r2
    s1 = s1
    g1 = g1
    s2 = s2
    llama = llama
    Model = {llama}
    AIModel = llama
    Run = {r1}
    Submission = {s1, s2}
    Tagging = {g1}
    MaxAttempts = 2
    MaxStalls = 1
    MaxOutages = 1
    MaxRemovals = 1
    MaxRestarts = 1
INVARIANTS
    TypeOK
    CompletedIsInstalled
    NoContainerForgotten
    RecordedIsAccepted
PROPERTIES
    ModelJobsEnd
    RecordedStays
    RunsEnd
CHECK_DEADLOCK FALSE
