CONSTANTS
  root = root sub = sub o1 = o1 o2 = o2 o3 = o3
  Graph = {root}
  Root = root
  Obj = {o1, o2, o3}
  Edges = {o3}
  Ends <- EndsOf
  Id = {i1, i2}
  Sym = {a}
  NULL = NULL
  Reuses = FALSE
  InCallback = {"create", "update"}
  UsesInEdges = FALSE
SPECIFICATION Spec
INVARIANTS InOrder AllTold LiveUntilDeleted NoAbort
PROPERTY ReleaseEnds
