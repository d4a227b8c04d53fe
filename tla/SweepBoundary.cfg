SPECIFICATION Spec
CONSTANTS
  NPoints = 4
  Trials = 4
  Lower <- MCLower
  Upper <- MCUpper
INVARIANTS
  TypeOK
  ToleranceExact
  CrossingSeparates
  VerdictsAgree
CHECK_DEADLOCK FALSE
