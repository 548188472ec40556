SPECIFICATION MCSpec
CONSTANTS
    c1 = c1
    c2 = c2
    c3 = c3
    l1 = l1
    l2 = l2
    Lanes <- MCLanes
    Cmds <- MCCmds
    Waiters = {w1}
    Requested = {0, 2}
    MaxGen = 1
    NoCmd = NoCmd
INVARIANTS TypeOK NoStrandedWork ActiveExact NoForgottenWaiter
PROPERTIES EveryCommandSettles ImplementsContract
