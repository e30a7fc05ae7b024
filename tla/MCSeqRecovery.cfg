SPECIFICATION FairSpec
CONSTANTS
    SEQ_SPACE = 8
    HistoryLength = 2
    Algorithm = "SeamlessVector"
    UseResetFlag = TRUE
    UseInitFlag = TRUE
    ResetTicks = 2
    t1 = t1
    t2 = t2
    Threads <- TwoThreads
    NoThread = NoThread
    Traffic <- MixedTraffic
INVARIANTS
    TimerArmed
PROPERTIES
    StalledWindowResets
