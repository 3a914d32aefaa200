SPECIFICATION Spec
CONSTANTS
  N = 6
  Cap = 2
  SockCap = 3
  MaxRequests = 3
  MaxFaults = 1
  Users = 2
  MaxTime = 3
  MaxLives = 2
INVARIANTS
  CleanIsWhole
  OwnEntriesOnly
  LossIsNoticed
  NoPhantomSpeed
CHECK_DEADLOCK FALSE
