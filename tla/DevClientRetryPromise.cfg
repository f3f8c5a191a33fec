SPECIFICATION FairSpec
CONSTANTS
    AppTypes <- OneType
    Reentrant = FALSE
    MaxVer = 0
    MaxCalls = 2
    MaxFaults = 1
    MaxDepth = 3
PROPERTIES
    KeepsRetrying
CHECK_DEADLOCK FALSE
