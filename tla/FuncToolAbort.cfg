SPECIFICATION FairSpec
CONSTANTS
    Callers = {ui}
    Controllers = {ctl}
    W = worker
    Kinds <- OneKind
    MaxCalls = 2
    MaxControls = 1
    MaxInds = 0
    MaxFaults = 0
PROPERTIES
    TimeoutEndsFlash
CHECK_DEADLOCK FALSE
