SPECIFICATION Spec
CONSTANTS
  Buckets <- MCBuckets
  Edges = 2
  Eligible <- MCEligible
  Draws = 2
  Scenarios <- MCScenarios
INVARIANTS
  PointsCoupled
  ExactFailures
CHECK_DEADLOCK FALSE
