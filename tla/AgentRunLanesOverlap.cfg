SPECIFICATION Spec
CONSTANTS
    r1 = r1
    r2 = r2
    r3 = r3
    sA = sA
    sB = sB
    Runs <- MCRuns
    Sessions <- MCSessions
    SessionOf <- MCSessionOf
    LaneArg <- MainLaneArg
    Requested = {2}
    Restarts = {w1}
    NoCmd = NoCmd
INVARIANTS OneRunPerSession
