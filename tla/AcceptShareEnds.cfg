SPECIFICATION FairSpec
CONSTANTS
  Workers = {w1, w2}
  Conns = {c1, c2}
  None = None
  ChannelCap = 2
  MaxDeaths = 1
  MaxRespawns = 1
  MaxReloads = 0
  Stoppable = {}
  Budgets = "stuck"
CHECK_DEADLOCK FALSE
INVARIANT BudgetUnspent
PROPERTIES Answered StopEnds
