SPECIFICATION RacesSpec
CONSTANTS
  v1 = v1
  v2 = v2
  v3 = v3
  Versions = {v1, v2, v3}
  ParentOf <- RootsParentOf
  Elastic = {v1, v2, v3}
  Slots = {s1, s2}
  Reaper = reaper
  NoVersion = NoVersion
  Blank = Blank
  Ops = {"promote"}
  MaxCalls = 2
  MaxFaults = 0
  MaxCuts = 0
  VrVersions = {"a", "b"}
  NoVr = "null"
  VrParentOf <- RowsParentOf
  Callers = {r1, r2}
  QueueMax = 1
  VrCrashes = 1
INVARIANTS ProdServes 
SYMMETRY RaceSymmetry
CHECK_DEADLOCK FALSE
