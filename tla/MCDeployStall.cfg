CONSTANTS
  j1 = j1
  j2 = j2
  v1 = v1
  Jobs = {j1}
  Versions = {v1}
  VersionOf <- SoloVersionOf
  Elastic = {v1}
  Workers = {w1, w2}
  NoJob = NoJob
  NoWorker = NoWorker
  NoVersion = NoVersion
  LeaseTicks = 1
  MaxEpoch = 3
  MaxFaults = 0
  MaxStalls = 1
SPECIFICATION Spec
SYMMETRY WorkerSymmetry
INVARIANTS
  ClaimsSound
  FenceExclusive
  FailedDeployUndone
PROPERTIES
  ImplementsLock
CHECK_DEADLOCK FALSE
