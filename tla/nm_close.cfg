CONSTANTS
  Type = {"graph", "node"}
  Place = {p}
  Main = p
  Addr = {2, 4, 6}
  Name = {a, x}
  Local = {x}
  Text = {}
  Markup = {}
  NULL = NULL
  MaxCtr = 5
  MaxHeld = 1
  ClosesAny = TRUE
SPECIFICATION Spec
INVARIANT NamesKept
