SPECIFICATION FairSpec
CONSTANTS
  Procs = {1, 2}
  Inodes <- MCInodes
  Device <- MCDevice
  Cwd = "."
  Cases <- Relinked
  Faults = {}
  MaxFaults = 0
  Killable = FALSE
INVARIANT SuccessTells
