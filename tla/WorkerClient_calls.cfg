SPECIFICATION FairSpec
CONSTANTS
  Callers = {c1, c2}
  Traces = {t1, t2}
  NoCaller = none
  MaxCalls = 2
  MaxProcs = 2
  MaxDeltas = 1
INVARIANTS
  TypeOK
  LiveWorkerIsCurrent
  OwnFramesInOrder
PROPERTIES
  ImplementsService
  EveryCallReturns
CHECK_DEADLOCK FALSE
