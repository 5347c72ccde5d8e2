SPECIFICATION Spec
CONSTANTS
  Scenarios <- Everyday
  MaxTemps = 12
INVARIANTS
  TypeInvariant
  NoTempLeft
  UnreadKept
  OutputComplete
  FailureReported
  BlamesJustly
  ProcessesLimited
PROPERTY SortEnds
CHECK_DEADLOCK FALSE
