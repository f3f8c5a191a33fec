SPECIFICATION FairSpec
CONSTANTS
    Callers = {ui}
    Controllers = {}
    W = worker
    Kinds <- TwoKinds
    MaxCalls = 3
    MaxControls = 0
    MaxInds = 2
    MaxFaults = 2
INVARIANTS
    OwnAnswer
    ToolRetryDiscipline
    ToolResubscribed
PROPERTIES
    ToolCallsReturn
    ToolKeepsRetrying
CHECK_DEADLOCK FALSE
