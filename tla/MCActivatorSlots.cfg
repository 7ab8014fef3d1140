SPECIFICATION ActSpec
CONSTANTS
  ActRequests = {q1, q2}
  ActVersions = {v1}
  Bodies = {2}
  MaxBody = 1
  WaitMax = 2
  VersionWaitMax = 2
  BytesMax = 1
  VersionBytesMax = 1
  FlightMax = 2
  VersionFlightMax = 2
  MaxGen = 1
INVARIANT SlotsComeBack
CHECK_DEADLOCK FALSE
