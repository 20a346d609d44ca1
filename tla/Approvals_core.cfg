SPECIFICATION Spec
CONSTANTS
  Turns = {t1}
  EventLoop = loop
  NoTurn = none
  MaxCalls = 2
  MaxClicks = 2
  MaxCrashes = 1
INVARIANTS
  TypeOK
  AtMostOnce
  RunsAreApproved
PROPERTIES
  ImplementsPromise
CHECK_DEADLOCK FALSE
