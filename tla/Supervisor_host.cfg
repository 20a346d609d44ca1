SPECIFICATION FairSpec
CONSTANTS
  Services = {core}
  Wheels = {w1, w2}
  NoWheel = none
  MaxControllers = 2
  MaxHosts = 2
INVARIANTS
  TypeOK
  OneThreadPerService
PROPERTIES
  RunsWhole
  ComesBack
CHECK_DEADLOCK FALSE
