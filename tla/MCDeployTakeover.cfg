CONSTANTS
  j1 = j1
  j2 = j2
  v1 = v1
  Jobs = {j1, j2}
  Versions = {v1}
  VersionOf <- PairVersionOf
  Elastic = {}
  Workers = {w1, w2}
  NoJob = NoJob
  NoWorker = NoWorker
  NoVersion = NoVersion
  LeaseTicks = 1
  MaxEpoch = 2
  MaxFaults = 0
  MaxStalls = 1
SPECIFICATION Spec
SYMMETRY WorkerSymmetry
CONSTRAINT SecondAfterStall
INVARIANTS
  FailedHoldsNothing
  FailedDeployUndone
CHECK_DEADLOCK FALSE
