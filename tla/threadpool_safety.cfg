CONSTANTS
  None = None
  Root = Root
  Workers = {w1, w2, w3}
  Clients = {c1, c2}
  Tasks = {k1, k2, k3}
  ExitTasks = {k3}
  CreateMayFail = TRUE
  AllocMayFail = TRUE
  ReadyLimit = 3
SPECIFICATION ListSpec
SYMMETRY PoolSymmetry
INVARIANTS TypeOK MutualExclusion ReadyCountsQueue TaskInOnePlace NoLostWakeup ListIsQueue
PROPERTY PoolSpec
