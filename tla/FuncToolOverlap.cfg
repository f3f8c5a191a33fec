SPECIFICATION FairSpec
CONSTANTS
    Callers = {ui, svc}
    Controllers = {}
    W = worker
    Kinds <- OneKind
    MaxCalls = 3
    MaxControls = 0
    MaxInds = 0
    MaxFaults = 0
PROPERTIES
    TimeoutEndsRequest
CHECK_DEADLOCK FALSE
