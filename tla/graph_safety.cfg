CONSTANTS
  NULL = NULL
  NoName = NoName
  Nodes = {n1, n2}
  Links = {k1, k2, k3, k4}
  Names = {x, y}
  Calls = {"create", "delete", "add", "rm", "free", "build", "build_double", "destory", "destory_double", "iterate"}
SPECIFICATION Spec
SYMMETRY Symmetry
INVARIANTS TypeOK CountsList TreesListed OneForAName
PROPERTY DigraphSpec
CHECK_DEADLOCK FALSE
