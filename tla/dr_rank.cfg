CONSTANTS
  N = 4
  Patterns <- SomePatterns
  RankSets <- SomeSets
  Jobs <- SmallJobs
  Marks = {0}
  Extra = 1
SPECIFICATION Spec
INVARIANTS FastGraphSound Represented AcyclicGiven Divided RanksAsAsked LongEnough
CHECK_DEADLOCK FALSE
