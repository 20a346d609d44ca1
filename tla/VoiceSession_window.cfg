SPECIFICATION FairSpec
CONSTANTS
  MaxClicks = 3
  MaxUtterances = 1
  MaxPolls = 3
  MaxLines = 2
INVARIANTS
  TypeOK
PROPERTIES
  UsedOnce
  QuietAfterStop
  ButtonsComeBack
CHECK_DEADLOCK FALSE
