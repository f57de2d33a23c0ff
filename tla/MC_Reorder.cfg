CONSTANTS
  SNSize = 16
  WinMax = 4
  Requests = {0, 3, 6}
  FirstFrame = 12
  LastFrame = 19
  Faults = {"alloc", "respLost"}
SPECIFICATION FairSpec
INVARIANTS
  BufferInWindow
PROPERTIES
  DeliversInOrder
  NothingIsLost
  SlideKeepsInFlight
  HolesTimeOut
CHECK_DEADLOCK FALSE
