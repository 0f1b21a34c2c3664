CONSTANTS
  NULL = NULL
  NoName = NoName
  Nodes = {n1, n2}
  Links = {k1, k2, k3}
  Names = {x, y}
  Calls = {"create", "build_double", "destory_double"}
SPECIFICATION Spec
INVARIANT ListsAllocated
CHECK_DEADLOCK FALSE
