SPECIFICATION Spec
CONSTANTS
  Nil = Nil
  Plans <- MCPlans
  Stored <- MCStored
INVARIANTS
  ExitTellsOutputs
  OutputsInOrder
  PassMeansCompared
  RerunComparable
  NeverRejectedLate
  EffectiveParameters
  DefaultMeansUnset
CHECK_DEADLOCK FALSE
