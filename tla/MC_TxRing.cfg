CONSTANTS
  BeLen = 3
  MaxPn = 5
SPECIFICATION FairSpec
INVARIANTS
  TypeOK
  QueuedIsWhole
PROPERTIES
  ImplementsQueue
  LockIsReleased
