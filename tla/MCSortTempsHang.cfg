SPECIFICATION Spec
CONSTANTS
  Scenarios <- TwiceOwnInput
  MaxTemps = 2
PROPERTY SortEnds
CHECK_DEADLOCK FALSE
