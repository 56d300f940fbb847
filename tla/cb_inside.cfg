\* What a method may do while a release runs decides what it breaks.  As below,
\* with "delete": LiveUntilDeleted is violated.
\* With InCallback = {"hold", "create"}:   INVARIANT AllTold is violated.
\* With InCallback = {"create", "update"}: INVARIANT HeardAsHappened is violated.
CONSTANTS
  root = root sub = sub o1 = o1 o2 = o2 o3 = o3
  Graph = {root}
  Root = root
  Obj = {o1, o2, o3}
  Edges = {o3}
  Ends <- EndsOf
  Id = {i1, i2}
  Sym = {a}
  NULL = NULL
  Reuses = FALSE
  InCallback = {"delete"}
  UsesInEdges = FALSE
SPECIFICATION Spec
INVARIANT LiveUntilDeleted
