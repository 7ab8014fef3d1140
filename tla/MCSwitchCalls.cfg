SPECIFICATION Spec
CONSTANTS
  v1 = v1
  v2 = v2
  v3 = v3
  Versions = {v1, v2}
  ParentOf <- PairParentOf
  Elastic = {v2}
  Slots = {s1}
  Reaper = reaper
  NoVersion = NoVersion
  Blank = Blank
  Ops = {"promote", "archive", "wake", "destroy", "pin", "reap", "move"}
  MaxCalls = 1
  MaxFaults = 2
  MaxCuts = 1
INVARIANTS RowsKept ProdServes
PROPERTY LifeKept
CHECK_DEADLOCK FALSE
