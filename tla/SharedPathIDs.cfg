SPECIFICATION FaultSpec
CONSTANTS
  NumServices = 4
  Plans <- MCSharedPlans
  Labels = {"red", "a", "b"}
  Refs = {"db"}
INVARIANTS
  MissingMetadataIsUnavailable
CHECK_DEADLOCK FALSE
