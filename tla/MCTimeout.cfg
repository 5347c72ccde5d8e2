SPECIFICATION Spec
CONSTANTS
  Options <- Modes
  MaxSignals = 2
INVARIANTS
  NoSignalAfterReap
  StatusTells
PROPERTIES
  TimedOutEnds
  EndNoticed
CHECK_DEADLOCK FALSE
