CONSTANTS
  Ops = {"connect", "begin", "chunk", "disconnect", "stop", "poweron"}
  Faults = {"stage", "alloc", "datastart", "hang", "dead"}
  MaxInst = 2
  MaxHung = 1
SPECIFICATION FairSpec
INVARIANTS
  TypeOK
  NoUseAfterFree
  ScanExcludesConnection
  ConnectedIsLive
  ChipIsQuiet
PROPERTIES
  FreeOnlyWhenQuiet
  OpsFinish
CHECK_DEADLOCK FALSE
