CONSTANTS
    t1 = t1
    t2 = t2
    Threads <- TwoThreads
    MaxPacket = 3
    MaxDelay = 2
    IdleTime = 1
SPECIFICATION FairSpec
CHECK_DEADLOCK FALSE
INVARIANTS
    QueueSound
    TimerIsDeadline
    MailboxServed
PROPERTIES
    AllSent
