SPECIFICATION FairSpec
CONSTANTS
  Publishers = {p1, p2}
  Streams = {s1, s2}
  MaxSubscribers = 1
  QueueSize = 1
  WireSize = 1
  MaxEvents = 3
  MaxCrashes = 1
  MaxBreaks = 2
INVARIANTS
  CallsStreams
PROPERTIES
  ShownFollows
CHECK_DEADLOCK FALSE
