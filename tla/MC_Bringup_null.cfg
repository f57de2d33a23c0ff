SPECIFICATION Spec
CONSTANTS
  Size <- Sizes
  MaxSize = 2
  MaxFaults = 0
  PhySize = 8
  PtctSize = 1
  LogSize = 16
  RfeOffset = 10
  Maps <- AllMaps
  Channels = {1}
  MaxOps = 1
  MaxTunes = 1
INVARIANT NoNullPage
