SPECIFICATION Spec
CONSTANTS
  c1 = c1
  c2 = c2
  r1 = r1
  r2 = r2
  r3 = r3
  Conns = {c1, c2}
  Reqs = {r1, r2, r3}
  None = None
  NSessions = 2
  BackgroundLimit = 1
  ReturnIfs = {"oam"}
  Scenes <- AllScenes
  Commands <- AllCommands
SYMMETRY Symmetry
CHECK_DEADLOCK FALSE
INVARIANTS
    ConnectionsSound
    AllocSound
    SessionOwned
    FreedNotRunning
