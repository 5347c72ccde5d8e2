SPECIFICATION PartsSpec
CONSTANTS
  End = End
  Root = Root
  Lo = Lo
  Hi = Hi
  LoLo = LoLo
  LoHi = LoHi
  HiLo = HiLo
  HiHi = HiHi
  Items = {End, Lo, LoLo, LoHi, HiHi}
  Level <- Levels
  Lines <- TenLines
  MaxLines = 8
  Keys = {1, 2, 3}
PROPERTY ImplementsQueue
INVARIANT SortsStably
CHECK_DEADLOCK FALSE
