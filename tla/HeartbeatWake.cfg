SPECIFICATION FairSpec
CONSTANTS
    Sessions = {s1}
    RequestPriorities = {3}
    Configs = {TRUE}
    MaxRunners = 2
    MaxRequests = 1
    Coalesce = 0
    Retry = 1
INVARIANTS WakesNotLost OverlapOnlyByReplacement NewestHandlerStays HeartbeatsGoOn RetryCooldownKept
PROPERTIES EveryWakeAnswered
