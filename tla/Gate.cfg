SPECIFICATION Spec
CONSTANTS
  NPoints = 3
  Trials = 3
  Lower <- MCLower
  Upper <- MCUpper
  NProfiles = 2
  Endpoints = {"e1", "e2"}
  Levels = {0, 1}
  Cases <- MCCases
  Overrides = {"", "fail", "bogus"}
INVARIANTS
  TypeOK
  DecisionSound
  FailClosed
  ReplayAgrees
  WhyConsistent
CHECK_DEADLOCK FALSE
