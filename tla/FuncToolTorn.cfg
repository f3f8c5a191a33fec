SPECIFICATION Spec
CONSTANTS
    Callers = {ui}
    Controllers = {}
    W = worker
    Kinds <- OneKind
    MaxCalls = 2
    MaxControls = 0
    MaxInds = 0
    MaxFaults = 1
INVARIANTS
    ToolStreamAligned
CHECK_DEADLOCK FALSE
