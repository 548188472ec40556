SPECIFICATION Spec
CONSTANTS
    Entries = {e1}
    BestEffort = {}
    MaxRetries = 2
    LiveDuringRecovery = TRUE
    BudgetMayExpire = TRUE
    MirrorMayFail = TRUE
    MaxReconnects = 2
    MaxCrashes = 2
INVARIANTS WrittenNotLost
CHECK_DEADLOCK FALSE
