CONSTANTS
  Type = {"node"}
  Place = {p}
  Main = p
  Addr = {2, 4, 6}
  Name <- Clash
  Local <- Clash
  Text = {}
  Markup = {}
  NULL = NULL
  MaxCtr = 5
  MaxHeld = 1
  ClosesAny = FALSE
SPECIFICATION Spec
INVARIANT NamesUnique
