CONSTANTS
  Type = {"graph", "node", "edge"}
  Place = {p, q}
  Main = p
  Addr = {2, 4, 6}
  Name = {a, x}
  Local = {x}
  Text = {a}
  Markup = {m}
  NULL = NULL
  MaxCtr = 3
  MaxHeld = 1
  ClosesAny = FALSE
SPECIFICATION Spec
INVARIANTS StringsCounted NamesKept NamesUnique HtmlHonoured
