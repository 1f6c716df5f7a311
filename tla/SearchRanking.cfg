SPECIFICATION Spec
CONSTANTS
    d1 = d1
    d2 = d2
    Hit <- MCHit
    MaxHits = 5
    Limit = 3
    Penalty <- MCPenalty
    MessageLength = {1, 8, 9, 10, 11, 12, 40}
    MaxSafeTokens = 8
    PrefixLength = 14
    ContextLimits <- MCContextLimits
    ModelParams = {1, 70}
INVARIANTS
    TypeOK
    TruncationSuffices
    DiversityIsGreedy
    PoorNotPromoted
    ContextIsBest
CHECK_DEADLOCK FALSE
