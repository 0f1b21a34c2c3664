CONSTANTS
  Root = Root
  None = None
  Workers = {w1}
  Clients = {c1}
  Tasks = {k1, k2}
  ExitTasks = {}
  CreateMayFail = FALSE
  AllocMayFail = FALSE
  ReadyLimit = 2
SPECIFICATION FairListSpec
PROPERTY TaskTaken
