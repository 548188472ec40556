SPECIFICATION Spec
CONSTANTS
    Entries = {e1, e2}
    BestEffort = {e2}
    MaxRetries = 2
    LiveDuringRecovery = FALSE
    BudgetMayExpire = FALSE
    MirrorMayFail = FALSE
    MaxReconnects = 2
    MaxCrashes = 1
INVARIANTS ClaimsExact DuplicatesOnlyByCrash RetriesBounded
PROPERTIES NoReplayAfterAck
CHECK_DEADLOCK FALSE
