SPECIFICATION Spec
CONSTANTS
  Directions = {0, 1}
  NMessages = 3
  BoxSize = 2
INVARIANTS
  NothingLost
  ChildGetsAll
  NoUseAfterFree
PROPERTIES
  WriterNotBlocked
  ReaderEnds
CHECK_DEADLOCK FALSE
