CONSTANTS
  root = root proto = proto g1 = g1 g2 = g2 t1 = t1 t2 = t2
  Graph = {root, proto, g1, g2}
  Root = root
  Proto = proto
  Parent <- Nested
  Node = {n1}
  Name = {a, b}
  Text = {t1, t2}
  NULL = NULL
  MinAttr = 1
  MaxEdits = 4
  PassesOwn = FALSE
  Forgets = FALSE
SYMMETRY Interchangeable
SPECIFICATION Spec
INVARIANTS Complete CountsExact LocalDefaultIsValue NoAbort
