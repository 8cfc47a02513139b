SPECIFICATION Spec
CONSTANTS
  NumWorkers = 2
  Pids <- FourPids
  Adopted <- Strangers
  MaxRespawns = 1
  RapidLimit = 2
  MaxFaults = 0
  MaxReloads = 0
  MaxOrders = 0
  None = None
CHECK_DEADLOCK FALSE
INVARIANT NoOrphan
