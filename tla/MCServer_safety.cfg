CONSTANTS
  Conns = {c1, c2}
  NoConn = NoConn
  MaxNumberClients = 1
  MessageSize = 2
  MaxStarts = 2
  Faults = {"start", "loop", "select", "accept", "emfile"}
SPECIFICATION Spec
SYMMETRY Symmetry
CHECK_DEADLOCK FALSE
INVARIANTS
  TypeOK
  CountExact
  AdmissionBound
  NoLostWakeup
  QuitStaysVisible
  StopIsComplete
  StopNeverStuck
  OneDropPerStart
PROPERTIES ImplementsPool ThreadsRunOut ShutdownRunsOut
