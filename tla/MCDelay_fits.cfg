CONSTANTS
  Delays <- AllDelays
  MaxInt = 127
  Factor = 10
SPECIFICATION Spec
CHECK_DEADLOCK FALSE
INVARIANTS
  FittingDelaysAreSlept
  AnswerIsIncrement
