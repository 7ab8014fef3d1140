SPECIFICATION LiveSpec
CONSTANTS
  Nodes = {n1}
  Replicas = {r1}
  Handlers = {h1}
  Capacity = 1
  MaxWant = 1
  LeaseTicks = 1
  RenewWindow = 1
  CommandTicks = 1
  NoReplica = NoReplica
  NoNode = NoNode
  MaxTime = 1
  MaxWishes = 1
  MaxFaults = 1
PROPERTY DeadEndpointLeaves
CHECK_DEADLOCK FALSE
