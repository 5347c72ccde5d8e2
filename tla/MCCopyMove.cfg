SPECIFICATION FairSpec
CONSTANTS
  Procs = {1, 2}
  Inodes <- MCInodes
  Device <- MCDevice
  Cwd = "."
  Cases <- MCCases
  Faults <- MCFaults
  MaxFaults = 1
  Killable = TRUE
INVARIANTS
  NothingLost
  OldKept
  SuccessTells
  LinksKept
  NeverMissing
  Restored
PROPERTIES
  NoClobber
