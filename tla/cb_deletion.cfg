CONSTANTS
  root = root sub = sub o1 = o1 o2 = o2 o3 = o3
  Graph = {root}
  Root = root
  Obj = {o1, o2}
  Edges = {}
  Ends <- EndsOf
  Id = {i1}
  Sym = {a}
  NULL = NULL
  Reuses = TRUE
  InCallback = {}
  UsesInEdges = FALSE
SPECIFICATION Spec
INVARIANTS LiveWhenDelivered NoAbort
CHECK_DEADLOCK FALSE
