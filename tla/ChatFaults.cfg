SPECIFICATION FairSpec
CONSTANTS
    MaxSessions = 2
    MaxSends = 2
    MaxSelects = 1
    MaxDeletes = 1
    MaxRestarts = 1
INVARIANTS
    TypeOK
    AnswersInPlace
    TitleOfFirst
PROPERTIES
    InputFrees
    KeepsConversations
CHECK_DEADLOCK FALSE
