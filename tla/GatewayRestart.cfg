SPECIFICATION FairGatewaySpec
CONSTANTS
    StartMayFail = TRUE
    EventsOutsideWait = FALSE
INVARIANTS DrainWindowCloses 
PROPERTIES RestartHonoured
