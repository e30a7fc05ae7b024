CONSTANTS
    t1 = t1
    t2 = t2
    Threads <- TwoThreads
    MaxPacket = 1
    MaxDelay = 1
    IdleTime = 1
SPECIFICATION FairSpec
PROPERTIES
    FinishReturns
CHECK_DEADLOCK FALSE
