SPECIFICATION Spec
CONSTANTS
    Jobs = {1, 2}
    OneShots = {1}
    DeleteAfterRun = {1}
    Services = {1, 2}
    MaxRetries = 1
    MaxMissed = 1
    StuckAfter = 0
    MaxTime = 2
    MaxEvents = 2
    ReloadWeight = 2
    BusyReloads = FALSE
INVARIANTS OneRunPerJob MarkersHaveRuns 
PROPERTIES  SlotsNotSkipped
CHECK_DEADLOCK FALSE
