SPECIFICATION FairSpec
CONSTANTS
    Kinds <- TwoKinds
    Nested = TRUE
    MaxCalls = 3
    MaxFaults = 0
PROPERTIES
    FuncTimeoutEnds
CHECK_DEADLOCK FALSE
