SPECIFICATION FairSpec
CONSTANTS
  MaxLoops = 2
  MaxRequests = 4
INVARIANTS
  TypeOK
  StopQuiets
PROPERTIES
  ListenIsServed
  CommandsTakeEffect
CHECK_DEADLOCK FALSE
