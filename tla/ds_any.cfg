CONSTANTS
  e1 = e1 e2 = e2 e3 = e3
  d1 = d1 d2 = d2
  Entry = {e1, e2, e3}
  Disc = {d1, d2}
  NIL = NIL
  PopsAny = TRUE
  MethodsAct = TRUE
  MaxNested = 2
SPECIFICATION StackSpec
CONSTRAINT NotReused
SYMMETRY Interchangeable
INVARIANTS ListAsInstalled SoundWhenOrderly
CHECK_DEADLOCK FALSE
