SPECIFICATION FairSpec
CONSTANTS
    AppTypes <- OneType
    Reentrant = TRUE
    MaxVer = 2
    MaxCalls = 3
    MaxFaults = 1
    MaxDepth = 4
PROPERTIES
    CallsReturn
    RetryReconnects
    IndicationSettles
INVARIANTS
    IndicationsConserved
    AnswerMatches
    Resubscribed
CHECK_DEADLOCK FALSE
