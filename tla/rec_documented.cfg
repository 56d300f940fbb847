CONSTANTS
  node = node out = out in = in r1 = r1 r2 = r2 r3 = r3 r4 = r4
  Hdr = {node, out, in}
  Opp <- Halves
  Rec = {r1, r2, r3, r4}
  Name = {n1, n2, n3}
  NULL = NULL
SPECIFICATION Spec
SYMMETRY Interchangeable
INVARIANTS LockReleased LockObtained
