CONSTANTS
    t1 = t1
    t2 = t2
    SEQ_SPACE = 8
    MaxPacket = 4
    MaxLag = 4
    Threads <- TwoThreads
    BufferSize = 2
    MaxDelay = 1
    TakeAnyTime = 2
SPECIFICATION FairSpec
CHECK_DEADLOCK FALSE
INVARIANTS
    BufferSound
    BufferBound
    EventsBounded
PROPERTIES
    ForwardsInOrder
    AllForwarded
    
