CONSTANTS
  Root = Root
  None = None
  Workers = {w1, w2, w3}
  Clients = {c1}
  Tasks = {k1, k2, k3, k4}
  ExitTasks = {}
  CreateMayFail = FALSE
  AllocMayFail = FALSE
  ReadyLimit = 256
SPECIFICATION FairListSpec
PROPERTIES TaskTaken DrainedAtJoin
