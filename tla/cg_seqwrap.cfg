CONSTANTS
  root = root g1 = g1 g2 = g2 g3 = g3 k1 = k1 k2 = k2
  Graph = {root, g1, g2}
  Node = {n1, n2, n3}
  Edge = {e1, e2}
  Root = root
  Name = {k1}
  RootName = k1
  NodeNames = {k1, NULL}
  EdgeNames = {k1, NULL}
  SubgNames = {k1, NULL}
  NULL = NULL
  Directed = TRUE
  Strict = FALSE
  NoLoop = FALSE
  SeqMod = 2
  MaxSeq = 3
  MaxAnon = 3
  ClientDetaches = FALSE
SYMMETRY Interchangeable
SPECIFICATION Spec
INVARIANT IndexesAgree
