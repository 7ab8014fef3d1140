SPECIFICATION ProcessesSpec
CONSTANTS
  v1 = v1
  v2 = v2
  v3 = v3
  Versions = {v1, v2, v3}
  ParentOf <- TrioParentOf
  Elastic = {}
  Slots = {s1}
  Reaper = reaper
  NoVersion = NoVersion
  Blank = Blank
  Ops = {"promote", "archive", "wake", "destroy", "reap"}
  MaxCalls = 1
  MaxFaults = 0
  MaxCuts = 1
  Lives = {1, 2}
  NodeTtl = 1
  ScopeTtl = 2
  LifeCommands = 1
  LifeFaults = 1
  LifeTime = 2
  Cellpds = {1, 2, 3}
  NoCellpd = 0
  GuardTries = 2
  CellpdFaults = 1
INVARIANTS OnlyProdArmed ArchivedIsOff ServedHasData NodesFenced GuardSound
PROPERTIES ReleasedIdle LeaseReleasedQuiet
CHECK_DEADLOCK FALSE
