CONSTANTS
  Shapes <- AllShapes
  Kinds <- ShortOrLong
  Balances = {0}
  Maxiters = {99}
  Starts = {"line"}
  Jobs <- LooseJobs
  SearchSize = 2
  NULL = NULL
SPECIFICATION Spec
INVARIANTS FailsIfApart
CHECK_DEADLOCK FALSE
