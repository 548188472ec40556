SPECIFICATION FairSpec
CONSTANTS
    r1 = r1
    r2 = r2
    r3 = r3
    sA = sA
    sB = sB
    Runs <- PairRuns
    Sessions <- MCSessions
    SessionOf <- PairSessionOf
    LaneArg <- PairLaneArg
    Requested = {2}
    Restarts = {w1}
    NoCmd = NoCmd
INVARIANTS OverlapOnlyAfterTimeout NoOrphanRun
PROPERTIES EveryRunSettles
