SPECIFICATION Spec
CONSTANTS
  Nodes = {n1}
  Replicas = {r1}
  Handlers = {h1, h2}
  Capacity = 1
  MaxWant = 1
  LeaseTicks = 1
  RenewWindow = 1
  CommandTicks = 1
  NoReplica = NoReplica
  NoNode = NoNode
  MaxTime = 2
  MaxWishes = 1
  MaxFaults = 1
INVARIANTS AgentsSound EndpointFollowsRow
PROPERTIES FencedNotPublished
CHECK_DEADLOCK FALSE
