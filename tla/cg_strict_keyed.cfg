CONSTANTS
  root = root g1 = g1 g2 = g2 g3 = g3 k1 = k1 k2 = k2
  Graph = {root, g1, g2}
  Node = {n1, n2}
  Edge = {e1, e2}
  Root = root
  Name = {k1, k2}
  RootName = k1
  NodeNames = {k1, k2}
  EdgeNames = {k1, k2}
  SubgNames = {NULL}
  NULL = NULL
  Directed = TRUE
  Strict = TRUE
  NoLoop = FALSE
  SeqMod = 8
  MaxSeq = 2
  MaxAnon = 2
  ClientDetaches = FALSE
SYMMETRY Interchangeable
SPECIFICATION Spec
INVARIANTS StrictNoMultiEdges StrictNoSelfArcs
