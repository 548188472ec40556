SPECIFICATION FairSpec
CONSTANTS
    c1 = c1
    c2 = c2
    c3 = c3
    pA = pA
    pB = pB
    Procs <- MCProcs
    Callers <- MCCallers
    ProcOf <- MCProcOf
    Exclusive <- MCExclusive
    Platforms = {TRUE, FALSE}
    StaleAfter = 0
    MaxHold = 0
    MaxFailures = 1
INVARIANTS HoldersHaveFile WritersExclude 
PROPERTIES EveryCallerGetsIn
CHECK_DEADLOCK FALSE
