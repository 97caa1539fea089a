CONSTANTS
  Calls = {c1, c2}
  Stops = {s1, s2}
  MessageSize = 1
  StopsOverlap = FALSE
  Faults = {}
SPECIFICATION FairSpec
CHECK_DEADLOCK FALSE
INVARIANTS StopIsSeen StopNeverStuck
PROPERTIES StopsReturn CallsReturn
