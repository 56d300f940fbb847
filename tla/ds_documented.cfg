\* As below: methods pop any entry, and the list links a freed one.
\* With PopsAny = FALSE and MaxNested = 1 (a method pops only the top entry):
\* INVARIANT NeverCrashes is violated.
CONSTANTS
  e1 = e1 e2 = e2 e3 = e3
  d1 = d1 d2 = d2
  Entry = {e1, e2, e3}
  Disc = {d1, d2}
  NIL = NIL
  PopsAny = TRUE
  MethodsAct = TRUE
  MaxNested = 2
SPECIFICATION StackSpec
SYMMETRY Interchangeable
INVARIANTS EntriesAllocated CalledTopDown
CHECK_DEADLOCK FALSE
