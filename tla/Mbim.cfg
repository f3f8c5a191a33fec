SPECIFICATION FairSpec
CONSTANTS
    Kinds = {"sim", "net", "radioset", "slot", "slotset", "traceset", "at", "atnoresp"}
    MaxCalls = 2
    MaxInits = 2
    IndKinds = {"sim", "net", "slot", "radio"}
    MaxInds = 2
    MaxEvents = 2
CHECK_DEADLOCK FALSE
INVARIANTS AnswersConserved WaiterHasWaker OkMeansDone
    SimFlagAgrees IndicationAccounted
PROPERTY MbimCallReturns
