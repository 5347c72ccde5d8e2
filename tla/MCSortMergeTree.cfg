SPECIFICATION Spec
CONSTANTS
  NThreads = 3
  NLines = 7
  SubthreadLines = 4
  SizeMax = 1000
  Inputs <- Thirds
  Unique = TRUE
  End = End
  NoThread = NoThread
INVARIANT LinesConserved
INVARIANT NoStrandedWork
INVARIANT HandOver
INVARIANT EndAfterOutput
