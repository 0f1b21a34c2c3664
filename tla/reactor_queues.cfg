CONSTANTS
  NULL = NULL
  Listeners = {l1}
  Buffers = {b1, b2}
  Acts = {"use", "mod", "rm", "listen", "close", "error", "closemod", "modother", "errother", "discard"}
  MaxBatch = 2
SPECIFICATION Spec
SYMMETRY BufferSymmetry
CONSTRAINT RoundOfApart
INVARIANTS TypeOK QueuesAgree CallsReported NoneStray
CHECK_DEADLOCK FALSE
