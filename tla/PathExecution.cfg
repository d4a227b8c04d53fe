SPECIFICATION FairSpec
CONSTANTS
  N = 3
  Draws = 2
  Plans <- MCPlans
INVARIANTS
  TypeOK
  CoupledOutcome
  StaticPredictsExecution
  CallsBounded
  AmplificationBoundsCalls
PROPERTY
  Terminates
CHECK_DEADLOCK FALSE
