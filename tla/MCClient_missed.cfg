CONSTANTS
  Calls = {c1, c2}
  Stops = {s1}
  MessageSize = 2
  StopsOverlap = FALSE
  Faults = {}
SPECIFICATION Spec
SYMMETRY Symmetry
CHECK_DEADLOCK FALSE
INVARIANT StopQuitsPendingCalls
