CONSTANTS
  N = 4
  Patterns <- SomePatterns
  RankSets <- SomeSets
  Jobs <- SmallJobs
  Marks = {0}
  Extra = 1
SPECIFICATION Spec
INVARIANT SourceStrict
CHECK_DEADLOCK FALSE
