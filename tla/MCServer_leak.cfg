CONSTANTS
  Conns = {c1, c2}
  NoConn = NoConn
  MaxNumberClients = 1
  MessageSize = 2
  MaxStarts = 1
  Faults = {}
SPECIFICATION Spec
SYMMETRY Symmetry
CHECK_DEADLOCK FALSE
INVARIANT StopClosesEveryConnection
