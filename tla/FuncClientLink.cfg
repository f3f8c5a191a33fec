SPECIFICATION FairSpec
CONSTANTS
    Kinds <- TwoKinds
    Nested = TRUE
    MaxCalls = 5
    MaxFaults = 2
INVARIANTS
    FuncTypeOK
    FuncRetryDiscipline
    FuncOwnAnswer
    FuncHeard
PROPERTIES
    FuncCallsReturn
    FuncKeepsRetrying
CHECK_DEADLOCK FALSE
