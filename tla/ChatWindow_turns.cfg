SPECIFICATION Spec
CONSTANTS
  Sessions = {s1, s2}
  NoSession = none
  MaxTurns = 2
  MaxDeltas = 1
  MaxClicks = 2
INVARIANTS
  TypeOK
  AnswersInPlace
PROPERTIES
  ResultIsShown
  SendContinuesFromLive
CHECK_DEADLOCK FALSE
