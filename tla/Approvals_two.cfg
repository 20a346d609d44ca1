SPECIFICATION Spec
CONSTANTS
  Turns = {t1, t2}
  EventLoop = loop
  NoTurn = none
  MaxCalls = 2
  MaxClicks = 1
  MaxCrashes = 1
SYMMETRY TurnSymmetry
INVARIANTS
  FileIsCurrent
CHECK_DEADLOCK FALSE
