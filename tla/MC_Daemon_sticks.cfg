CONSTANTS
  Ssids = {home}
  NoSsid = none
  MaxNets = 1
  NChunks = 2
  MaxCmds = 1
  MaxCrashes = 0
  MaxFaults = 0
SPECIFICATION Spec
INVARIANT
  DisconnectSticks
CHECK_DEADLOCK FALSE
