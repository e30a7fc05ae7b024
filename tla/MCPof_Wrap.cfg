CONSTANTS
    t1 = t1
    t2 = t2
    SEQ_SPACE = 4
    MaxPacket = 6
    MaxLag = 2
    Threads <- OneThread
    BufferSize = 2
    MaxDelay = 1
    TakeAnyTime = 2
SPECIFICATION Spec
PROPERTIES
    ForwardsInOrder
CHECK_DEADLOCK FALSE
