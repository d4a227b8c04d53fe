SPECIFICATION FairSpec
CONSTANTS
  Paths = {1, 2}
  FilePath = 1
  Good = {g1, g2}
  Refused = {}
  Rejected = {}
  Broken = {}
  Annotated = {g2}
  Mode = "directory"
  WatchFS = TRUE
  WatchPolling = FALSE
  MaxItems = 2
  EventCap = 1
  ErrorCap = 1
  MaxWrites = 2
  MaxTime = 1
  MaxRestarts = 1
  Absent = Absent
  None = None
  Baselines = TRUE
INVARIANTS
  PostureConsistent
  GaugesTrackReport
PROPERTIES
  ImplementsBoard
  NotifiedChangeServed
CHECK_DEADLOCK FALSE
