SPECIFICATION Spec
CONSTANTS
  Scenarios <- OwnInput
  MaxTemps = 2
INVARIANT FailureReported
CHECK_DEADLOCK FALSE
