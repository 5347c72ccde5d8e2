SPECIFICATION Spec
CONSTANTS
  Options <- AlarmSignal
  MaxSignals = 2
PROPERTY TimedOutEnds
CHECK_DEADLOCK FALSE
