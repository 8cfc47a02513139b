SPECIFICATION Spec
CONSTANTS
  Workers = {w1, w2}
  Conns = {c1, c2}
  None = None
  ChannelCap = 2
  MaxDeaths = 1
  MaxRespawns = 1
  MaxReloads = 1
  Stoppable = {w1, w2}
  Budgets = "any"
CHECK_DEADLOCK FALSE
SYMMETRY Symmetry
INVARIANTS PendingCovers NothingStranded PendingExact LeaverIsMarked OneHome MovesBounded
