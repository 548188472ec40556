SPECIFICATION FairSpec
CONSTANTS
    m1 = m1
    m2 = m2
    m3 = m3
    m4 = m4
    Msgs <- MCMsgs
    Channel <- MCChannel
    Authorization <- MCAuthorization
    Settings <- PolicyNew
    Cap = 2
    Objs = {1}
    None = None
    MaxFailures = 1
    MaxReplies = 2
    MaxClears = 0
INVARIANTS NothingLost DeliveredInOrder
 
