SPECIFICATION FairSpec
CONSTANTS
  NThreads = 2
  NLines = 4
  SubthreadLines = 4
  SizeMax = 1000
  Inputs <- TwoKeys
  Unique = FALSE
  End = End
  NoThread = NoThread
INVARIANT TypeOK
INVARIANT NodeHandedOnce
INVARIANT DestroyedUnused
PROPERTY ImplementsStableSort
PROPERTY SortlinesReturns
