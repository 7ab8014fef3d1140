SPECIFICATION RecordsSpec
CONSTANTS
  g1 = g1
  g2 = g2
  Projects = {p1, p2}
  PortMin = 1
  PortMax = 2
  MaxRows = 3
  MaxMishaps = 1
  Operators = {"o1", "o2"}
  Flights = {"f1"}
  Deploys = {"d1"}
  Promotes = {"p1"}
  Crons = {"c1"}
  Wakes = {"w1"}
  SdCasts <- RecordsCasts
  CasAttempts = 2
  ProdScaleToZero = FALSE
  GwVersions = {g1, g2}
  GwRequests = {q1}
  GwElastic = {g2}
  GwPorts = FALSE
  GwProd = g1
  GwCap = 1
  MaxGwMoves = 2
INVARIANTS  PinsHold RoutesExcused
PROPERTIES  CooledUnwanted
SYMMETRY RecordsSymmetry
CHECK_DEADLOCK FALSE
