SPECIFICATION Spec
CONSTANTS
  a = a
  log1 = log1
  b = b
  i1 = i1
  i2 = i2
  i3 = i3
  Names = {a, b, log1}
  Files <- TwoFiles
  Inodes = {i1, i2, i3}
  Special = {"symlink", "directory", "unreadable"}
  Options <- FollowName
  MaxUnchanged = 1
  MaxOps = 3
  Moves <- Rotation
  Starts <- StartDirs
  Enough = {TRUE, FALSE}
CHECK_DEADLOCK FALSE
INVARIANT DescriptorIsOpen
