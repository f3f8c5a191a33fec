SPECIFICATION Spec
CONSTANTS
    Callers = {ui, svc}
    Controllers = {ctl}
    W = worker
    Kinds <- OneKind
    MaxCalls = 3
    MaxControls = 2
    MaxInds = 1
    MaxFaults = 0
INVARIANTS
    FlashWakeup
    FirstVerdictWins
    LoopAlive
CHECK_DEADLOCK FALSE
