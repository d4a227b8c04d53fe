SPECIFICATION Spec
CONSTANTS
  Nil = Nil
  Plans <- MCPlans
  Stored <- MCStored
INVARIANT OverrideMeansSet
CHECK_DEADLOCK FALSE
