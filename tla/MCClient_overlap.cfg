CONSTANTS
  Calls = {c1, c2}
  Stops = {s1, s2}
  MessageSize = 1
  StopsOverlap = TRUE
  Faults = {}
SPECIFICATION Spec
SYMMETRY Symmetry
CHECK_DEADLOCK FALSE
INVARIANT StopIsSeen
