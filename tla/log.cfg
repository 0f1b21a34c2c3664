CONSTANTS
  NULL = NULL
  Threads = {t1, t2}
  Handlers = {h1, h2, h3, h4}
  Levels = {0, 1}
  MaxCalls = 2
  MallocMayFail = TRUE
SPECIFICATION Spec
SYMMETRY LogSymmetry
INVARIANTS PartsInOrder FirstUse RedirectionKept
CHECK_DEADLOCK FALSE
