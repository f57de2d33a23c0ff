CONSTANTS
  Ssids = {home, cafe}
  NoSsid = none
  MaxNets = 1
  NChunks = 2
  MaxCmds = 3
  MaxCrashes = 1
  MaxFaults = 2
SPECIFICATION FairSpec
INVARIANTS
  RadioSwitch
  ScanQuiesced
PROPERTIES
  PausedComesToRest
  ArmedConnects
CHECK_DEADLOCK FALSE
