CONSTANTS
  Calls = {c1, c2}
  Stops = {s1, s2}
  MessageSize = 2
  StopsOverlap = TRUE
  Faults = {"pipe", "socket", "connect", "select"}
SPECIFICATION Spec
SYMMETRY Symmetry
CHECK_DEADLOCK FALSE
INVARIANTS
  TypeOK
  CountExact
  NoLostWakeup
  NoByteWithoutStop
  CountedCallsQuit
PROPERTIES ImplementsQuits CallsRunOut StopsRunOut
