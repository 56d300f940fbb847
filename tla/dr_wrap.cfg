CONSTANTS
  N = 4
  Patterns <- SomePatterns
  RankSets <- SomeSets
  Jobs <- SmallJobs
  Marks = {254}
  Extra = 1
SPECIFICATION Spec
INVARIANT Divided
CHECK_DEADLOCK FALSE
