SPECIFICATION ProgressSpec
CONSTANTS
  ActRequests = {q1, q2}
  ActVersions = {v1}
  Bodies = {0, 1, 2}
  MaxBody = 1
  WaitMax = 2
  VersionWaitMax = 2
  BytesMax = 1
  VersionBytesMax = 1
  FlightMax = 1
  VersionFlightMax = 1
  MaxGen = 1
  SnVersions = {"f", "l"}
  SnElastic = {"f"}
  Fresh = "f"
  Pollers = {"tick", "deploy"}
  Waiter = "deploy"
  EndpointTtl = 2
  MaxClock = 3
  MaxRev = 2
  PollErrors = 1
  Lives = {1, 2}
  NodeTtl = 1
  ScopeTtl = 1
  LifeCommands = 1
  LifeFaults = 0
  LifeTime = 2
  Cellpds = {1}
  NoCellpd = 0
  GuardTries = 2
  CellpdFaults = 1
INVARIANTS AdmissionSound CopyCurrent
PROPERTIES EveryAskAnswered HolderCatchesUp SupersededEnds CleanupEnds
CHECK_DEADLOCK FALSE
