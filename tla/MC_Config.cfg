SPECIFICATION Spec
CONSTANTS
  Ssids <- Names
  Passwords <- Keys
  NoPass = NoPass
  Trim <- StripEnd
  MaxNets = 2
  MaxLines = 3
  MaxOps = 3
INVARIANTS FileIsWhole RoundTrip
CHECK_DEADLOCK FALSE
