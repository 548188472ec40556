SPECIFICATION Spec
CONSTANTS
    m1 = m1
    m2 = m2
    m3 = m3
    m4 = m4
    Msgs <- MCFourMsgs
    Channel <- MCChannel
    Authorization <- MCAuthorization
    Settings <- Dropping
    Cap = 2
    Objs = {1, 2, 3}
    None = None
    MaxFailures = 1
    MaxReplies = 0
    MaxClears = 1
INVARIANTS DeliveredOnce 
