SPECIFICATION FairSpec
CONSTANTS
  Procs = {1, 2}
  Inodes <- MCInodes
  Device <- MCDevice
  Cwd = "."
  Cases <- SetAside
  Faults = {}
  MaxFaults = 0
  Killable = FALSE
INVARIANT BystandersKept
