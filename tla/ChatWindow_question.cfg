SPECIFICATION Spec
CONSTANTS
  Sessions = {s1}
  NoSession = none
  MaxTurns = 3
  MaxDeltas = 0
  MaxClicks = 2
INVARIANT
  UnderItsQuestion
CHECK_DEADLOCK FALSE
