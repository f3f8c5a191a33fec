SPECIFICATION AdaptersSpec
CONSTANTS
    MaxStarts = 2
    MaxStops = 2
    MaxEvents = 2
    Events <- SomeEvents
    MaxResets = 2
    MaxCalls = 3
    MaxRestarts = 1
    RetryTimes = 2
CHECK_DEADLOCK FALSE
INVARIANTS
    AdaptersTypeOK
    OnePoller
    ToldPerStart
    FreedUnused
    ResetReleases
    SwitchVerdict
    FlashVerdict
PROPERTIES
    StopEnds
    EventTold
    FlashReturns
