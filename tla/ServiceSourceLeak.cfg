SPECIFICATION Spec
CONSTANTS
  Paths = {1}
  FilePath = 1
  Good = {g1, g2}
  Refused = {r1}
  Rejected = {x1}
  Broken = {b1}
  Annotated = {g2, x1}
  Mode = "file"
  WatchFS = FALSE
  WatchPolling = TRUE
  MaxItems = 2
  EventCap = 1
  ErrorCap = 1
  MaxWrites = 1
  MaxTime = 0
  MaxRestarts = 0
  Absent = Absent
  None = None
  Baselines = FALSE
INVARIANT
  SourceDependsOnArtifact
CHECK_DEADLOCK FALSE
