SPECIFICATION Spec
CONSTANTS
  Scenarios <- FewDescriptors
  MaxTemps = 8
INVARIANT BlamesOnlyFailed
CHECK_DEADLOCK FALSE
