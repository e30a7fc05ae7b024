SPECIFICATION Spec
CONSTANTS
    SEQ_SPACE = 14
    HistoryLength = 2
    UseResetFlag = TRUE
    UseInitFlag = TRUE
    InitSeqStart = 6
    RESET_FLAG_COUNT = 2
    MaxLag = 3
    MinRun = 6
    MaxRestarts = 2
    MaxSent = 23
    p1 = p1
    p2 = p2
    Paths <- TwoPaths
SYMMETRY PathSymmetry
CHECK_DEADLOCK FALSE
INVARIANTS
    ResetFlagExact
    PassesOnce
    RestartSeamless
PROPERTIES
    Gapless
