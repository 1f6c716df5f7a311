SPECIFICATION Spec
CONSTANTS
    MaxSessions = 1
    MaxSends = 1
    MaxSelects = 2
    MaxDeletes = 0
    MaxRestarts = 0
INVARIANTS
    ShowsSavedAnswers
CHECK_DEADLOCK FALSE
