CONSTANTS
  NULL = NULL
  Listeners = {l1}
  Buffers = {b1, b2}
  Acts = {"use", "mod", "rm", "listen", "close", "modother", "discard"}
  MaxBatch = 1
SPECIFICATION FairSpec
PROPERTIES Called CloseCalled
CHECK_DEADLOCK FALSE
