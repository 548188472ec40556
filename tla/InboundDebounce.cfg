SPECIFICATION FairSpec
CONSTANTS
    Keys = {k1, k2, k3}
    MaxTrackedKeys = 2
    MaxItems = 5
INVARIANTS NoStuckSlot ChainInOrder
PROPERTIES KeepsContract
CHECK_DEADLOCK FALSE
