CONSTANTS
  Shapes <- AllShapes
  Kinds <- ShortOrLong
  Balances = {0, 1, 2}
  Maxiters = {1, 99}
  Starts = {"level", "line"}
  Jobs <- SmallJobs
  SearchSize = 2
  NULL = NULL
SPECIFICATION Spec
INVARIANTS TreeSound  AnswerRight NoCycling
PROPERTIES NoCostlier KeepsPromise
CHECK_DEADLOCK FALSE
