SPECIFICATION Spec
CONSTANTS
  Lines <- MCLines
  MaxStages = 4
  MaxBranches = 2
  MaxDepth = 1
  MaxHeaders = 5
  ScratchLen = 60
  PayloadLen = 100
INVARIANT OamRecognised
