SPECIFICATION FairSpec
CONSTANTS
  NumWorkers = 2
  Pids <- TwoPids
  Adopted = {}
  MaxRespawns = 1
  RapidLimit = 2
  MaxFaults = 2
  MaxReloads = 1
  MaxOrders = 1
  None = None
CHECK_DEADLOCK FALSE
INVARIANTS GoodEnd OneHolder EveryoneTold
PROPERTY StopEnds
