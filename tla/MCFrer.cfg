SPECIFICATION Spec
CONSTANTS
    SEQ_SPACE = 8
    HistoryLength = 2
    MaxLag = 2
    MaxSent = 11
    p1 = p1
    p2 = p2
    Paths <- TwoPaths
SYMMETRY PathSymmetry
INVARIANTS
    NoDuplicate
    NoFalseDiscard
