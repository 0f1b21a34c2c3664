CONSTANTS
  NULL = NULL
  Listeners = {l1}
  Buffers = {b1, b2}
  Acts = {"use", "listen", "close"}
  MaxBatch = 2
SPECIFICATION Spec
SYMMETRY BufferSymmetry
INVARIANT MovedBack
CHECK_DEADLOCK FALSE
