\* Any one of these changes to what a careful client may do is enough:
\*   Sym = {a, b}
\*   Graph = {root, sub}
\*   Obj = {o3}, Edges = {o3} and UsesInEdges = TRUE
CONSTANTS
  root = root sub = sub o1 = o1 o2 = o2 o3 = o3
  Graph = {root}
  Root = root
  Obj = {o1}
  Edges = {}
  Ends <- EndsOf
  Id = {i1}
  Sym = {a, b}
  NULL = NULL
  Reuses = FALSE
  InCallback = {}
  UsesInEdges = FALSE
SPECIFICATION Spec
INVARIANT AllTold
