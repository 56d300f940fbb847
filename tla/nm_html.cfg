CONSTANTS
  Type = {"node"}
  Place = {p}
  Main = p
  Addr = {2, 4, 6}
  Name = {a}
  Local = {}
  Text = {a}
  Markup = {a, m}
  NULL = NULL
  MaxCtr = 5
  MaxHeld = 1
  ClosesAny = FALSE
SPECIFICATION Spec
INVARIANTS StringsFreed HtmlHonoured
