SPECIFICATION FaultSpec
CONSTANTS
  NumServices = 4
  Plans <- MCFaultPlans
  Labels = {"red", "a", "b"}
  Refs = {"db"}
INVARIANTS
  PathsMeanReachability
  NeverNonMonotonic
  OthersStaySampled
  IgnoredEdgesNeverPivotal
  BlastRadiusCoversDamage
  ProfileBoundCoversAll
CHECK_DEADLOCK FALSE
