CONSTANTS
  NULL = NULL
  Nodes = {0, 1, 2, 3, 4, 5, 6, 7, 8, 9, 10}
  Few = {0, 1, 2, 3, 4, 5}
  Key <- MCKey
SPECIFICATION MCSpec
INVARIANTS Linked Ordered Balanced Found WalksInOrder Iterates
PROPERTIES SetSpec CallEnds
VIEW InTheTree
