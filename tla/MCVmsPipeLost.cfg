SPECIFICATION Spec
CONSTANTS
  Directions = {0}
  NMessages = 3
  BoxSize = 2
INVARIANT
  DrainedAtEnd
CHECK_DEADLOCK FALSE
