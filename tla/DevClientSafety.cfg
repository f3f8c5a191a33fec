SPECIFICATION Spec
CONSTANTS
    AppTypes <- OneType
    Reentrant = FALSE
    MaxVer = 2
    MaxCalls = 4
    MaxFaults = 1
    MaxDepth = 3
INVARIANTS
    TypeOK
    RetryDiscipline
    StreamAligned
PROPERTIES
    ChannelSpec
CHECK_DEADLOCK FALSE
