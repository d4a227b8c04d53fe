SPECIFICATION FairSpec
CONSTANTS
  Paths = {1}
  FilePath = 1
  Good = {g1, g2}
  Refused = {r1}
  Rejected = {x1}
  Broken = {b1}
  Annotated = {g2, x1}
  Mode = "auto"
  WatchFS = TRUE
  WatchPolling = TRUE
  MaxItems = 2
  EventCap = 1
  ErrorCap = 1
  MaxWrites = 2
  MaxTime = 0
  MaxRestarts = 1
  Absent = Absent
  None = None
  Baselines = FALSE
INVARIANTS
  TypeOK
  FailedRefreshVisible
PROPERTIES
  PollingConverges
  BadArtifactReported
  CancelledLoopStops
CHECK_DEADLOCK FALSE
