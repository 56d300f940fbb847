CONSTANTS
  Shapes <- AllShapes
  Kinds <- ShortOrLong
  Balances = {0, 1, 2}
  Maxiters = {1, 99}
  Starts = {"level"}
  Jobs <- SmallJobs
  SearchSize = 2
  NULL = NULL
SPECIFICATION Spec
PROPERTY TailSideMoves
CHECK_DEADLOCK FALSE
