SPECIFICATION Spec
CONSTANTS
  Size <- Sizes
  MaxSize = 2
  MaxFaults = 1
  PhySize = 8
  PtctSize = 1
  LogSize = 16
  RfeOffset = 10
  Maps <- AllMaps
  Channels = {1, 14, 36}
  MaxOps = 2
  MaxTunes = 2
INVARIANTS PowerOnIsFresh RunningIsWhole RegistersRestored EfuseDecodes TablesOneVersion FilterIsTable PacketsIntact MailboxWhole
PROPERTY GrantStays
