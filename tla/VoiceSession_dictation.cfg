SPECIFICATION Spec
CONSTANTS
  MaxClicks = 1
  MaxUtterances = 1
  MaxPolls = 1
  MaxLines = 1
INVARIANTS
  DictationStays
CHECK_DEADLOCK FALSE
