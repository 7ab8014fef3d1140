SPECIFICATION Spec
CONSTANTS
  Nodes = {n1}
  Replicas = {r1, r2}
  Handlers = {h1}
  Capacity = 2
  MaxWant = 1
  LeaseTicks = 2
  RenewWindow = 2
  CommandTicks = 1
  NoReplica = NoReplica
  NoNode = NoNode
  MaxTime = 2
  MaxWishes = 0
  MaxFaults = 0
SYMMETRY Symmetric
INVARIANTS LeaseWithinNode
PROPERTIES  ClaimsWithinDesire
CHECK_DEADLOCK FALSE
