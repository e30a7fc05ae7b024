SPECIFICATION Spec
CONSTANTS
  Paths = {"p1", "p2"}
  Post = "post"
  Start <- MCStart
  Requests <- MCRequests
  Scenes <- MCScenes
  Timeout = 3
  Unset = Unset
CHECK_DEADLOCK FALSE
INVARIANTS
    MaskingSound
    RepliesSound
PROPERTIES
    NoSpuriousTimeout
    UnmaskReaches
    MaskReaches
