------------------------------- MODULE Replicas -------------------------------
(***************************************************************************)
(* The replicas of an elastic version: node leases and assignments in the    *)
(* registry, the scheduler's pass and its renewal lane (elastic/scheduler),  *)
(* and the node agents that start, probe, drain and stop processes and       *)
(* reconcile them with the registry (elastic/agent, elastic/nodereg,         *)
(* runtime/replica_manager.go).                                              *)
(*                                                                         *)
(* Each call of the registry is a transaction, hence an action; the          *)
(* scheduler's command to an agent runs in a handler of its own there, which *)
(* goes on when the scheduler has given up waiting, beside the loop that     *)
(* reconciles the node.  The agent is the one of serve, with heartbeat and   *)
(* reconciliation in goroutines of their own; it may take the scheduler's    *)
(* pass with it when it ends, or not.                                        *)
(*                                                                         *)
(* Time is absolute, up to MaxTime: leases are the times they end, as in    *)
(* the tables.  A replica id is used once.  One version is modelled: others *)
(* only take capacity.  Its status and the controller guard are not.         *)
(***************************************************************************)
EXTENDS Integers, FiniteSets

CONSTANTS
  Nodes, Replicas,
  Handlers,      \* requests an agent may be serving at one time
  Capacity,      \* capacity_units of each node
  MaxWant,       \* the policy's max_replicas
  LeaseTicks,    \* NodeHeartbeatTTL
  RenewWindow,   \* defaultAssignmentRenewWindow
  CommandTicks,  \* agentCommandLease
  NoReplica, NoNode,
  MaxTime,       \* bound: the time the instance ends
  MaxWishes,     \* bound: changes of the desire
  MaxFaults      \* bound: crashes, failing starts and calls, cordons

ASSUME SetsAssumption ==
  NoReplica \notin Replicas /\ NoNode \notin Nodes /\ IsFiniteSet(Replicas)
ASSUME BoundsAssumption ==
  /\ Capacity \in Nat \ {0} /\ MaxWant \in Nat \ {0} /\ MaxTime \in Nat \ {0}
  /\ LeaseTicks \in Nat \ {0} /\ RenewWindow \in Nat /\ CommandTicks \in Nat \ {0}
  /\ MaxWishes \in Nat /\ MaxFaults \in Nat

VARIABLES
  now,
  nodes,    \* runtime_nodes
  reps,     \* runtime_replicas
  eps,      \* runtime_replica_endpoints
  cmds,     \* runtime_agent_commands: the start command of a replica
  procs,    \* the processes the agents keep track of
  agents,   \* the agents' loops
  hs,       \* the agents' handlers
  pass,     \* the scheduler's pass
  want,     \* serving_desires
  faults

registry == <<nodes, reps, eps, cmds, want>>
vars == <<now, registry, procs, agents, hs, pass, faults>>

-----------------------------------------------------------------------------
Time == 0 .. MaxTime + LeaseTicks + CommandTicks
States == {"absent", "pending", "starting", "ready", "draining", "failed", "stopped"}
Terminal == {"failed", "stopped"}
Active == States \ (Terminal \cup {"absent"})

NodeRow  == [gen : Nat, lease : Time, cordoned : BOOLEAN]
Row      == [state : States, node : Nodes \cup {NoNode}, gen : Nat, until : Time]
Endpoint == [state : {"none", "ready", "draining"}, until : Time]
Command  == [status : {"none", "running", "succeeded", "failed"}, token : Nat, lease : Time,
             reason : {"ok", "stale", "error"}]

StartPCs == {"enter", "read", "claim", "verify", "diagnose", "record", "boot", "gate", "probe",
             "reread", "commit", "fail", "cleanup", "recordfailed", "complete"}
StopPCs  == {"advise", "withdraw", "halt", "terminalize"}
Handler ==
  [pc : {"idle"} \cup StartPCs \cup StopPCs, op : {"none", "start", "probe", "drain", "stop"},
   r     : Replicas \cup {NoReplica},
   lease : Time,      \* LeaseExpiry of the command's scope
   state : States,    \* the replica's row as the handler read it
   until : Time,
   fresh : Time,      \* the assignment lease a commit carries
   token : Nat, tries : 0 .. 2,
   clean : BOOLEAN, result : {"ok", "stale", "error"},  \* how a failing start ends
   live  : BOOLEAN]   \* the scheduler still waits: the request's context is alive

(* A process an agent keeps track of: it lives, or it is healthy as well. *)
ProcStates == {"none", "sick", "up"}

AgentPCs == {"down", "on", "list", "lock", "visit", "terminalize", "stop", "stopdead",
             "recordstopped", "starting", "ready", "withdraw", "withdrawbad", "stopbad", "restart", "boot", "gate",
             "giveup", "offline"}
Agent ==
  [pc    : AgentPCs,
   boots : BOOLEAN,   \* the first reconciliation is not done: no request is accepted
   open  : Time,      \* the lease of the node when it was read, unless it was cordoned
   err   : BOOLEAN,   \* some replica could not be reconciled
   facts : [Replicas -> Row], inv : [Replicas -> ProcStates],
   todo  : SUBSET Replicas,
   r     : Replicas \cup {NoReplica}]

Pass ==
  [pc   : {"idle", "list", "visit", "validate", "renew", "call", "wait", "drop", "place", "claim"},
   now  : Time, nodes : [Nodes -> NodeRow], want : Nat, wish : Nat,
   rows : [Replicas -> Row], todo : SUBSET Replicas, seen : Nat,
   r    : Replicas \cup {NoReplica}, n : Nodes \cup {NoNode}, node : NodeRow, retire : SUBSET Replicas]

NoRow   == [state |-> "absent", node |-> NoNode, gen |-> 0, until |-> 0]
NoRows  == [r \in Replicas |-> NoRow]
NoNodeRow == [gen |-> 0, lease |-> 0, cordoned |-> FALSE]
NoNodes == [n \in Nodes |-> NoNodeRow]
NoEp    == [state |-> "none", until |-> 0]
NoH     == [pc |-> "idle", op |-> "none", r |-> NoReplica, lease |-> 0, state |-> "absent",
            until |-> 0, fresh |-> 0, token |-> 0, tries |-> 0, clean |-> FALSE, result |-> "ok", live |-> FALSE]
NoProcs == [r \in Replicas |-> "none"]
Idle(pc) == [pc |-> pc, boots |-> FALSE, open |-> 0, err |-> FALSE, facts |-> NoRows, inv |-> NoProcs, todo |-> {},
             r |-> NoReplica]
NoPass  == [pc |-> "idle", now |-> 0, nodes |-> NoNodes, want |-> 0, wish |-> 0, rows |-> NoRows,
            todo |-> {}, seen |-> 0, r |-> NoReplica, n |-> NoNode, node |-> NoNodeRow, retire |-> {}]

Init ==
  /\ now = 1 /\ nodes = NoNodes /\ reps = NoRows
  /\ eps = [r \in Replicas |-> NoEp]
  /\ cmds = [r \in Replicas |-> [status |-> "none", token |-> 0, lease |-> 0, reason |-> "ok"]]
  /\ procs = NoProcs
  /\ agents = [n \in Nodes |-> Idle("down")]
  /\ hs = [h \in Handlers |-> NoH]
  /\ pass = NoPass
  /\ want = [n |-> 1, gen |-> 1]
  /\ faults = 0

Fault   == faults < MaxFaults /\ faults' = faults + 1
NoFault == UNCHANGED faults

-----------------------------------------------------------------------------
(* The registry's transactions on replicas.                                  *)

(* replicaTransitionAllowed *)
Allowed(from, to) ==
  \/ from = "pending"  /\ to \in {"starting", "failed", "stopped"}
  \/ from = "starting" /\ to \in {"ready", "failed", "stopped"}
  \/ from = "ready"    /\ to \in {"draining", "failed", "stopped"}
  \/ from = "draining" /\ to = "stopped"
  \/ from = "failed"   /\ to \in {"starting", "stopped"}
  \/ from = "stopped"  /\ to = "starting"

Current(r) == reps[r].gen = nodes[reps[r].node].gen
NodeLive(n) == nodes[n].lease > now
Assigned(r) == /\ reps[r].state # "absent" /\ reps[r].until > now
               /\ Current(r) /\ NodeLive(reps[r].node)

(* AssignmentOccupiesSlot, at a time that may lie in the past. *)
Occupies(row, t) == row.state \in Active /\ row.until > t
Occupied(rows, t) == {r \in Replicas : Occupies(rows[r], t)}
OnNode(rows, t, n) == {r \in Occupied(rows, t) : rows[r].node = n}

Observe(r, s) ==
  /\ reps' = [reps EXCEPT ![r].state = s]
  /\ eps' = [eps EXCEPT ![r] = IF s \in {"ready", "draining"} THEN [state |-> s, until |-> reps[r].until]
                               ELSE IF s \in Terminal THEN NoEp ELSE @]

(* RecordObservation by a caller that knows the assignment lease "until":     *)
(* why it is refused.                                                       *)
Refusal(r, until, s) ==
  LET row == reps[r]  n == nodes[row.node] IN
  CASE row.until <= now                                             -> "expired"
    [] row.until > now /\ row.until # until                         -> "stale"
    [] row.until > now /\ row.until = until /\ n.cordoned
         /\ s \in {"pending", "starting", "ready"}                  -> "expired"
    [] OTHER ->
       IF ~Current(r) THEN "stale" ELSE IF ~NodeLive(row.node) THEN "expired"
       ELSE IF row.state # s /\ ~Allowed(row.state, s) THEN "invalid" ELSE "none"

(* TerminalizeReplica: no lease is asked for. *)
Terminable(r, s) == reps[r].state = s \/ Allowed(reps[r].state, s)
Terminalize(r, s) == IF Terminable(r, s) THEN Observe(r, s) ELSE UNCHANGED <<reps, eps>>

(* Mutant of Withdraw: the endpoint stays. *)
WithdrawRowOnly(r) ==
  /\ reps' = [reps EXCEPT ![r].state = IF @ = "ready" THEN "draining" ELSE @]
  /\ UNCHANGED eps

(* WithdrawReplica *)
Withdraw(r) ==
  /\ reps' = [reps EXCEPT ![r].state = IF @ = "ready" THEN "draining" ELSE @]
  /\ eps' = [eps EXCEPT ![r] = NoEp]

(* ValidateAgentAssignment for a scope with this lease, at time t. *)
Validity(r, lease, t) ==
  LET row == reps[r] IN
  CASE ~Current(r) \/ nodes[row.node].cordoned          -> "stale"
    [] Current(r) /\ ~nodes[row.node].cordoned ->
         IF row.until <= t \/ nodes[row.node].lease <= t THEN "expired"
         ELSE IF row.until # lease THEN "moved" ELSE "valid"

-----------------------------------------------------------------------------
(* Node leases (nodereg) and the life of an agent.                           *)

SetNode(n, row) == nodes' = [nodes EXCEPT ![n] = row]
SetAgent(n, a)  == agents' = [agents EXCEPT ![n] = a]
SetProc(r, p)   == procs' = [procs EXCEPT ![r] = p]

HandlersOf(n) == {h \in Handlers : hs[h].r # NoReplica /\ reps[hs[h].r].node = n}

(* Mutant of Down: the requests an agent serves outlive it. *)
DownWithRequests(n) ==
  /\ SetAgent(n, Idle("down")) /\ pass' \in {pass, NoPass}
  /\ procs' = [r \in Replicas |-> IF reps[r].node = n THEN "none" ELSE procs[r]]
  /\ hs' = [h \in Handlers |-> [hs[h] EXCEPT !.live = @ /\ pass' # NoPass]]

(* The agent's process ends, and with it its handlers and the table of its    *)
(* processes.                                                               *)
Down(n) ==
  /\ SetAgent(n, Idle("down")) /\ pass' \in {pass, NoPass}
  /\ procs' = [r \in Replicas |-> IF reps[r].node = n THEN "none" ELSE procs[r]]
  /\ hs' = [h \in Handlers |-> IF h \in HandlersOf(n) THEN NoH ELSE [hs[h] EXCEPT !.live = @ /\ pass' # NoPass]]

(* It leaves in order: handlers and loops are waited for, the lease is released. *)
Leave(n) ==
  /\ HandlersOf(n) = {} /\ Down(n)
  /\ nodes' = [nodes EXCEPT ![n].lease = IF NodeLive(n) THEN now ELSE @]

(* startElasticAgent: the generation follows the one of a lease that has ended. *)
Activate(n) ==
  /\ agents[n].pc = "down" /\ ~NodeLive(n)
  /\ SetNode(n, [gen |-> nodes[n].gen + 1, lease |-> now + LeaseTicks, cordoned |-> FALSE])
  /\ SetAgent(n, [Idle("on") EXCEPT !.boots = TRUE])
  /\ UNCHANGED <<now, reps, eps, cmds, want, procs, hs, pass>> /\ NoFault

(* The heartbeat has a loop of its own, beside the reconciliation. *)
Heartbeat(n) ==
  /\ agents[n].pc # "down" /\ NodeLive(n) /\ nodes[n].lease < now + LeaseTicks
  /\ SetNode(n, [nodes[n] EXCEPT !.lease = now + LeaseTicks])
  /\ UNCHANGED <<now, reps, eps, cmds, want, procs, agents, hs, pass>> /\ NoFault

Cordon(n) ==
  /\ NodeLive(n) /\ ~nodes[n].cordoned /\ Fault
  /\ SetNode(n, [nodes[n] EXCEPT !.cordoned = TRUE])
  /\ UNCHANGED <<now, reps, eps, cmds, want, procs, agents, hs, pass>>

(* A heartbeat that finds the lease gone is fatal. *)
HeartbeatLost(n) ==
  /\ agents[n].pc # "down" /\ ~NodeLive(n)
  /\ Down(n) /\ UNCHANGED <<now, registry>> /\ NoFault

Crash(n) ==
  /\ agents[n].pc # "down" /\ Fault
  /\ Down(n) /\ UNCHANGED <<now, registry>>

Shutdown(n) ==
  /\ agents[n].pc = "on" /\ Fault
  /\ Leave(n) /\ UNCHANGED <<now, reps, eps, cmds, want>>

(* A process loses its health or its life, or turns healthy. *)
ProcessFails(r) ==
  /\ procs[r] # "none" /\ Fault
  /\ \E p \in {"none", "sick"} \ {procs[r]} : SetProc(r, p)
  /\ UNCHANGED <<now, registry, agents, hs, pass>>

ProcessSettles(r) ==
  /\ procs[r] = "sick" /\ SetProc(r, "up")
  /\ UNCHANGED <<now, registry, agents, hs, pass>> /\ NoFault

Tick == now < MaxTime /\ now' = now + 1 /\ UNCHANGED <<registry, procs, agents, hs, pass, faults>>

(* The desire changes: an activation, an operator, a promotion. *)
Wish ==
  /\ want.gen <= MaxWishes
  /\ \E k \in 0 .. MaxWant : k # want.n /\ want' = [n |-> k, gen |-> want.gen + 1]
  /\ UNCHANGED <<now, nodes, reps, eps, cmds, procs, agents, hs, pass>> /\ NoFault

-----------------------------------------------------------------------------
(* The scheduler.                                                            *)

SetPass(p) == pass' = p
Skip(r) == [pass EXCEPT !.pc = "visit", !.todo = @ \ {r}, !.retire = @ \ {r}, !.rows[r] = NoRow,
                          !.node = NoNodeRow, !.r = NoReplica]
After(result) ==
  CASE result = "ok"    -> Skip(pass.r)
    [] result = "stale" -> [pass EXCEPT !.pc = "drop"]
    [] result = "error" -> NoPass

(* RenewAssignmentLease.  It never goes beyond the node's lease. *)
Renewable(r, expected, new) ==
  /\ reps[r].state \in Active /\ Current(r) /\ ~nodes[reps[r].node].cordoned
  /\ reps[r].until = expected /\ expected > now /\ NodeLive(reps[r].node)
  /\ new > expected /\ new <= nodes[reps[r].node].lease

Renew(r, new) ==
  /\ reps' = [reps EXCEPT ![r].until = new]
  /\ eps' = [eps EXCEPT ![r] = IF @.state = "none" THEN @ ELSE [@ EXCEPT !.until = new]]

(* RenewAssignments, the lane beside the pass, and the renewals while an      *)
(* agent is called.  A heartbeat after the lane has read the node's lease is *)
(* one after the renewal.                                                   *)
LaneRenews(r) ==
  LET new == nodes[reps[r].node].lease IN
  /\ reps[r].state \in Active /\ reps[r].until - now <= RenewWindow
  /\ Renewable(r, reps[r].until, new) /\ Renew(r, new)
  /\ UNCHANGED <<now, nodes, cmds, want, procs, agents, hs, pass>> /\ NoFault

(* Tick and reconcileVersion: the time, the nodes and the desire ... *)
PassBegins ==
  /\ pass.pc = "idle"
  /\ SetPass([NoPass EXCEPT !.pc = "list", !.now = now, !.nodes = nodes, !.want = want.n, !.wish = want.gen])
  /\ UNCHANGED <<now, registry, procs, agents, hs>> /\ NoFault

ScaleDownPriority(s) == CASE s = "pending" -> 0 [] s = "starting" -> 1 [] s = "ready" -> 3 [] s = "draining" -> 4
                          [] s \notin Active -> 5

(* PickScaleDownTargets *)
ScaleDownTargets(rows, n) ==
  LET live == {r \in Replicas : rows[r].state \in Active} IN
  {T \in SUBSET live :
     /\ Cardinality(T) = IF Cardinality(live) > n THEN Cardinality(live) - n ELSE 0
     /\ \A r \in T, q \in live \ T : ScaleDownPriority(rows[r].state) <= ScaleDownPriority(rows[q].state)}

(* ... then the replicas. *)
PassLists ==
  /\ pass.pc = "list"
  /\ \E T \in ScaleDownTargets(reps, pass.want) :
       SetPass([pass EXCEPT !.pc = "visit", !.rows = reps, !.retire = T,
                            !.todo = {r \in Replicas : reps[r].state \in Active}])
  /\ UNCHANGED <<now, registry, procs, agents, hs>> /\ NoFault

(* nodeOK for the replica, at the pass's time. *)
Fits(row, node) == ~node.cordoned /\ node.lease > pass.now /\ row.gen = node.gen

(* terminalizeStaleAssignment and handleAgentErr: a transition that is not     *)
(* allowed is passed over.                                                  *)
Drop(r) == IF Terminable(r, "failed") THEN Observe(r, "failed") ELSE UNCHANGED <<reps, eps>>

(* An assignment that has run out, or whose node is not eligible, by the      *)
(* nodes read first and by the node read again.  Here the error of          *)
(* TerminalizeReplica ends the pass.                                        *)
PassExpires(r) ==
  /\ pass.pc = "visit" /\ r \in pass.todo
  /\ LET row == pass.rows[r] IN
     \/ row.until <= pass.now
     \/ ~Fits(row, pass.nodes[row.node]) /\ ~Fits(row, nodes[row.node])
  /\ Drop(r) /\ SetPass(IF Terminable(r, "failed") THEN Skip(r) ELSE NoPass)
  /\ UNCHANGED <<now, nodes, cmds, want, procs, agents, hs>> /\ NoFault

PassVisits(r) ==
  LET row == pass.rows[r]
      node == IF Fits(row, pass.nodes[row.node]) THEN pass.nodes[row.node] ELSE nodes[row.node] IN
  /\ pass.pc = "visit" /\ r \in pass.todo
  /\ row.until > pass.now /\ Fits(row, node)
  /\ SetPass([pass EXCEPT !.r = r, !.node = node, !.todo = @ \ {r},
                !.pc = IF r \notin pass.retire /\ row.until - pass.now <= RenewWindow THEN "validate" ELSE "call"])
  /\ UNCHANGED <<now, registry, procs, agents, hs>> /\ NoFault

(* convergeReplica after a lost compare-and-set: assignmentStillLive reads    *)
(* everything again before the assignment is dropped.                       *)
StillLive(r) == Assigned(r) /\ ~nodes[reps[r].node].cordoned /\ reps[r].state \notin Terminal

(* Mutant of LostCAS: dropped without a second look. *)
DropsLost(r) == SetPass(Skip(r)) /\ Drop(r)

LostCAS(r) == SetPass(Skip(r)) /\ IF StillLive(r) THEN UNCHANGED <<reps, eps>> ELSE Drop(r)

(* renewAssignmentIfNeeded: ValidateAgentAssignment ... *)
PassValidates ==
  LET r == pass.r  row == pass.rows[r]  v == Validity(r, row.until, pass.now) IN
  /\ pass.pc = "validate"
  /\ CASE v = "stale"   -> SetPass(NoPass) /\ UNCHANGED <<reps, eps>>
       [] v = "expired" -> SetPass(Skip(r)) /\ Drop(r)
       [] v = "moved"   -> LostCAS(r)
       [] v = "valid"   -> /\ SetPass([pass EXCEPT !.pc = IF pass.node.lease > row.until
                                                         THEN "renew" ELSE "call"])
                           /\ UNCHANGED <<reps, eps>>
  /\ UNCHANGED <<now, nodes, cmds, want, procs, agents, hs>> /\ NoFault

(* ... then the renewal. *)
PassRenews ==
  LET r == pass.r  row == pass.rows[r]  new == pass.node.lease IN
  /\ pass.pc = "renew"
  /\ IF Renewable(r, row.until, new)
     THEN Renew(r, new) /\ SetPass([pass EXCEPT !.pc = "call", !.rows[r].until = new])
     ELSE LostCAS(r)
  /\ UNCHANGED <<now, nodes, cmds, want, procs, agents, hs>> /\ NoFault

(* The agent's operation for the replica: convergeReplica and retireReplica. *)
Operation(state, retire) ==
  CASE state = "draining" -> "stop"
    [] retire /\ state = "ready" -> "drain"
    [] retire /\ state \in {"pending", "starting"} -> "stop"
    [] ~retire /\ state = "pending" -> "start"
    [] ~retire /\ state \in {"starting", "ready"} -> "probe"

PassCalls ==
  LET r == pass.r  row == pass.rows[r]  a == agents[row.node] IN
  /\ pass.pc = "call"
  /\ IF a.pc = "down" \/ a.boots
     THEN SetPass(NoPass) /\ UNCHANGED hs
     ELSE /\ SetPass([Skip(r) EXCEPT !.pc = "wait", !.r = r])
          /\ \E h \in Handlers : hs[h] = NoH
          /\ hs' = [hs EXCEPT ![CHOOSE h \in Handlers : hs[h] = NoH] =
                      [NoH EXCEPT !.pc = "enter", !.r = r, !.lease = row.until, !.live = TRUE,
                                  !.op = Operation(row.state, r \in pass.retire)]]
  /\ UNCHANGED <<now, registry, procs, agents>> /\ NoFault

(* The connection breaks, or the call has taken too long. *)
PassGivesUp ==
  /\ pass.pc = "wait" /\ SetPass(NoPass)
  /\ IF \E h \in Handlers : hs[h].live THEN Fault ELSE NoFault
  /\ hs' = [h \in Handlers |-> [hs[h] EXCEPT !.live = FALSE]]
  /\ UNCHANGED <<now, registry, procs, agents>>

(* handleAgentErr, after generation_stale. *)
PassDrops ==
  /\ pass.pc = "drop" /\ Drop(pass.r) /\ SetPass(Skip(pass.r))
  /\ UNCHANGED <<now, nodes, cmds, want, procs, agents, hs>> /\ NoFault

(* placeReplica, as long as the replicas it reads are too few: PickNodeDetailed *)
(* by the nodes and the time the pass began with ...                        *)
Pickable ==
  LET load(n) == Cardinality(OnNode(reps, pass.now, n))
      free == {n \in Nodes : /\ pass.nodes[n].gen > 0 /\ ~pass.nodes[n].cordoned
                             /\ pass.nodes[n].lease > pass.now /\ load(n) < Capacity} IN
  {n \in free : \A m \in free : load(n) <= load(m)}

PassPlaces ==
  /\ pass.pc = "visit" /\ pass.todo = {}
  /\ LET fresh == {r \in Replicas : reps[r].state = "absent"} IN
     IF Cardinality(Occupied(reps, pass.now)) >= pass.want \/ Pickable = {} \/ fresh = {}
     THEN SetPass(NoPass)
     ELSE \E n \in Pickable, r \in fresh :
            SetPass([pass EXCEPT !.pc = "claim", !.seen = Cardinality(Occupied(reps, pass.now)), !.r = r, !.n = n])
  /\ UNCHANGED <<now, registry, procs, agents, hs>> /\ NoFault

(* ... and ClaimAssignment: the lease granted, and why it is refused.         *)
(* Mutant of Granted: a lease of the full length from now. *)
FullLease == now + LeaseTicks

(* Mutant of Conflict: the replicas are not counted again. *)
ConflictUncounted == want.gen # pass.wish \/ nodes[pass.n].gen # pass.nodes[pass.n].gen

Granted == pass.nodes[pass.n].lease

Conflict == \/ want.gen # pass.wish \/ Cardinality(Occupied(reps, now)) >= pass.want
            \/ nodes[pass.n].gen # pass.nodes[pass.n].gen

Expired == Granted <= now \/ nodes[pass.n].cordoned \/ ~NodeLive(pass.n)
Full    == Cardinality(OnNode(reps, now, pass.n)) >= Capacity

(* After a conflict the pass goes on only when the replicas it reads are no    *)
(* longer as many.                                                          *)
PassClaims ==
  LET r == pass.r  n == pass.n
      row   == [state |-> "pending", node |-> n, gen |-> nodes[n].gen, until |-> Granted]
      again == [Skip(r) EXCEPT !.seen = 0, !.n = NoNode]
      same  == Cardinality(Occupied(reps, pass.now)) = pass.seen IN
  /\ pass.pc = "claim"
  /\ IF Conflict \/ Expired \/ Full
     THEN /\ UNCHANGED reps
          /\ SetPass(IF Granted <= now \/ (Expired /\ ~Conflict) \/ same THEN NoPass ELSE again)
     ELSE /\ reps' = [reps EXCEPT ![r] = row]
          /\ SetPass([again EXCEPT !.pc = "call", !.r = r, !.rows[r] = row])
  /\ UNCHANGED <<now, nodes, eps, cmds, want, procs, agents, hs>> /\ NoFault

-----------------------------------------------------------------------------
(* The handlers of an agent.  A handler knows the replica's row as it read it *)
(* (state, until); its own token says which claim of the start command it is. *)

Goto(h, pc)  == hs' = [hs EXCEPT ![h].pc = pc]
SetH(h, rec) == hs' = [hs EXCEPT ![h] = rec]
Return(h, result) == SetH(h, NoH) /\ SetPass(IF hs[h].live THEN After(result) ELSE pass)
Failing(h, clean, result) ==
  SetH(h, [hs[h] EXCEPT !.pc = "fail", !.clean = clean, !.result = result])

(* The lifecycle lock of a replica, held while its process is started. *)
Locked(r) == \/ \E h \in Handlers : hs[h].r = r /\ hs[h].pc = "gate"
             \/ \E n \in Nodes : agents[n].r = r /\ agents[n].pc = "gate"

(* authorizeScope, then checkNode for a start or a probe ... *)
HEnters(h) ==
  LET n == nodes[reps[hs[h].r].node]  admits == hs[h].op \in {"start", "probe"} IN
  /\ hs[h].pc = "enter"
  /\ CASE hs[h].lease <= now                                       -> Return(h, "stale")
       [] hs[h].lease > now /\ admits /\ n.cordoned                -> Return(h, "error")
       [] hs[h].lease > now /\ admits /\ ~n.cordoned /\ n.lease <= now -> Return(h, "stale")
       [] OTHER                                                    -> Goto(h, "read") /\ UNCHANGED pass
  /\ UNCHANGED <<now, registry, procs, agents>> /\ NoFault

(* ... and the read of the replica, for a cleanup with its generation only. *)
HReads(h) ==
  LET r == hs[h].r  op == hs[h].op  v == Validity(r, hs[h].lease, now)
      knows(pc) == SetH(h, [hs[h] EXCEPT !.pc = pc, !.state = reps[r].state, !.until = reps[r].until]) IN
  /\ hs[h].pc = "read"
  /\ IF op \in {"start", "probe"}
     THEN CASE v \in {"stale", "expired"} -> Return(h, "stale")
            [] v = "moved"                -> Return(h, "error")
            [] v = "valid"                -> knows(IF op = "start" THEN "claim" ELSE "probe") /\ UNCHANGED pass
     ELSE CASE ~Current(r)                                -> Return(h, "stale")
            [] Current(r) /\ reps[r].state = "stopped"    -> Return(h, "ok")
            [] Current(r) /\ reps[r].state # "stopped"    -> knows("advise") /\ UNCHANGED pass
  /\ UNCHANGED <<now, registry, procs, agents>> /\ NoFault

(* ClaimAgentCommand: the key is the replica's. *)
HClaims(h) ==
  LET r == hs[h].r  c == cmds[r] IN
  /\ hs[h].pc = "claim"
  /\ IF ~hs[h].live \/ (c.status = "running" /\ c.lease > now)
     THEN Return(h, "error") /\ UNCHANGED cmds
     ELSE CASE c.status = "succeeded" -> Return(h, "ok") /\ UNCHANGED cmds
            [] c.status = "failed"    -> Return(h, c.reason) /\ UNCHANGED cmds
            [] c.status \in {"none", "running"} ->
                 /\ cmds' = [cmds EXCEPT ![r] = [status |-> "running", token |-> c.token + 1,
                                                 lease |-> now + CommandTicks, reason |-> "ok"]]
                 /\ SetH(h, [hs[h] EXCEPT !.token = c.token + 1,
                                          !.pc = IF hs[h].state = "ready" THEN "verify" ELSE "diagnose"])
                 /\ UNCHANGED pass
  /\ UNCHANGED <<now, nodes, reps, eps, want, procs, agents>> /\ NoFault

(* RenewAgentCommandLease: by the handler's steps (checkOwnership) and by a    *)
(* loop of its own beside them; the former need the request's context.      *)
Holds(h) == cmds[hs[h].r].status = "running" /\ cmds[hs[h].r].token = hs[h].token
Owner(h) == hs[h].live /\ Holds(h)
RenewCommand(h) ==
  /\ hs[h].pc \in StartPCs \ {"enter", "read", "claim"} /\ hs[h].op = "start" /\ Holds(h)
  /\ cmds[hs[h].r].lease < now + CommandTicks
  /\ cmds' = [cmds EXCEPT ![hs[h].r].lease = now + CommandTicks]
  /\ UNCHANGED <<now, nodes, reps, eps, want, procs, agents, hs, pass>> /\ NoFault

(* RecordObservationAndCompleteAgentCommand *)

(* Mutant of Committable: a cordoned node may commit. *)
CommittableCordoned(h, until) == Assigned(hs[h].r) /\ reps[hs[h].r].until = until

Committable(h, until) ==
  LET r == hs[h].r IN Assigned(r) /\ ~nodes[reps[r].node].cordoned /\ reps[r].until = until

Startable(r) == reps[r].state \in {"starting", "ready"}
Commit(h) == /\ Observe(hs[h].r, "ready")
             /\ cmds' = [cmds EXCEPT ![hs[h].r] = [@ EXCEPT !.status = "succeeded", !.lease = 0]]
             /\ Return(h, "ok")

(* A replica that was found ready is verified. *)
HVerifies(h) ==
  LET r == hs[h].r IN
  /\ hs[h].pc = "verify"
  /\ IF procs[r] = "up" /\ Owner(h) /\ Committable(h, hs[h].until) /\ Startable(r)
     THEN Commit(h)
     ELSE Return(h, "error") /\ UNCHANGED <<reps, eps, cmds>>
  /\ UNCHANGED <<now, nodes, want, procs, agents>> /\ NoFault

HDiagnoses(h) ==
  /\ hs[h].pc = "diagnose"
  /\ \/ /\ Fault /\ Failing(h, FALSE, "error") /\ UNCHANGED pass
     \/ /\ NoFault
        /\ IF Owner(h) THEN Goto(h, IF hs[h].state \in {"starting", "draining"} THEN "boot" ELSE "record") /\ UNCHANGED pass
                       ELSE Return(h, "error")
  /\ UNCHANGED <<now, registry, procs, agents>>

HRecords(h) ==
  LET r == hs[h].r IN
  /\ hs[h].pc = "record"
  /\ IF Refusal(r, hs[h].until, "starting") = "none"
     THEN Observe(r, "starting") /\ Goto(h, "boot")
     ELSE UNCHANGED <<reps, eps>> /\ Failing(h, FALSE, "stale")
  /\ UNCHANGED <<now, nodes, cmds, want, procs, agents, pass>> /\ NoFault

(* Manager.StartReplica: the process is spawned, unless there is one ... *)
HBoots(h) ==
  LET r == hs[h].r IN
  /\ hs[h].pc = "boot" /\ ~Locked(r)
  /\ SetProc(r, IF procs[r] = "none" THEN "sick" ELSE procs[r]) /\ Goto(h, "gate")
  /\ UNCHANGED <<now, registry, agents, pass>> /\ NoFault

(* ... and is waited for until it is healthy.  When it is not, the process it *)
(* spawned is stopped, one that was there is left.                          *)
HGates(h) ==
  LET r == hs[h].r IN
  /\ hs[h].pc = "gate"
  /\ \/ procs[r] # "none" /\ NoFault /\ SetProc(r, "up") /\ Goto(h, "probe")
     \/ /\ IF procs[r] = "none" THEN NoFault ELSE Fault
        /\ procs' \in {procs, [procs EXCEPT ![r] = "none"]} /\ Failing(h, TRUE, "error")
  /\ UNCHANGED <<now, registry, agents, pass>>

HProbesStart(h) ==
  /\ hs[h].op = "start" /\ hs[h].pc = "probe"
  /\ IF ~Owner(h) THEN Return(h, "error")
     ELSE /\ IF procs[hs[h].r] = "up" THEN Goto(h, "reread") ELSE Failing(h, TRUE, "error")
          /\ UNCHANGED pass
  /\ UNCHANGED <<now, registry, procs, agents>> /\ NoFault

(* commitReady, three times: the row is read again ... *)

Again(h) == IF hs[h].tries = 2 THEN Failing(h, FALSE, "stale")
            ELSE SetH(h, [hs[h] EXCEPT !.pc = "reread", !.tries = @ + 1])

HRereads(h) ==
  LET r == hs[h].r  row == reps[r] IN
  /\ hs[h].pc = "reread"
  /\ IF ~hs[h].live THEN Return(h, "stale")
     ELSE /\ UNCHANGED pass
          /\ CASE ~Current(r) -> Again(h)
               [] Current(r) /\ row.state \in Terminal -> Failing(h, TRUE, "stale")
               [] Current(r) /\ row.state \in Active /\ row.until <= now -> Failing(h, TRUE, "error")
               [] OTHER -> SetH(h, [hs[h] EXCEPT !.pc = "commit", !.fresh = row.until])
  /\ UNCHANGED <<now, registry, procs, agents>> /\ NoFault

(* ... and the readiness committed with the lease it holds. *)
HCommits(h) ==
  LET r == hs[h].r IN
  /\ hs[h].pc = "commit"
  /\ IF ~hs[h].live THEN Return(h, "stale") /\ UNCHANGED <<reps, eps, cmds>>
     ELSE IF Committable(h, hs[h].fresh) /\ Startable(r) /\ Holds(h) THEN Commit(h)
     ELSE /\ IF Committable(h, hs[h].fresh) THEN Failing(h, TRUE, "stale") ELSE Again(h)
          /\ UNCHANGED <<reps, eps, cmds, pass>>
  /\ UNCHANGED <<now, nodes, want, procs, agents>> /\ NoFault

(* The function fail of StartReplica: for the owner of the command only. *)
HFails(h) ==
  /\ hs[h].pc = "fail"
  /\ IF Owner(h) THEN Goto(h, IF hs[h].clean THEN "cleanup" ELSE "recordfailed") /\ UNCHANGED pass
                 ELSE Return(h, "stale")
  /\ UNCHANGED <<now, registry, procs, agents>> /\ NoFault

HCleans(h) ==
  /\ hs[h].pc = "cleanup" /\ ~Locked(hs[h].r)
  /\ SetProc(hs[h].r, "none") /\ Goto(h, "recordfailed")
  /\ UNCHANGED <<now, registry, agents, pass>> /\ NoFault

(* The failure of a start or of a probe. *)
HRecordsFailed(h) ==
  LET r == hs[h].r  ok == Refusal(r, hs[h].until, "failed") = "none" IN
  /\ hs[h].pc = "recordfailed"
  /\ IF ok THEN Observe(r, "failed") ELSE UNCHANGED <<reps, eps>>
  /\ IF hs[h].op = "start" THEN Goto(h, "complete") /\ UNCHANGED pass
                           ELSE Return(h, IF ok THEN hs[h].result ELSE "error")
  /\ UNCHANGED <<now, nodes, cmds, want, procs, agents>> /\ NoFault

HCompletes(h) ==
  /\ hs[h].pc = "complete"
  /\ cmds' = IF Holds(h) THEN [cmds EXCEPT ![hs[h].r] = [@ EXCEPT !.status = "failed", !.lease = 0, !.reason = hs[h].result]] ELSE cmds
  /\ Return(h, hs[h].result)
  /\ UNCHANGED <<now, nodes, reps, eps, want, procs, agents>> /\ NoFault

(* ProbeReplica *)
HProbes(h) ==
  LET r == hs[h].r  result == IF procs[r] = "none" THEN "error" ELSE "ok" IN
  /\ hs[h].op = "probe" /\ hs[h].pc = "probe"
  /\ IF procs[r] # "up" /\ hs[h].state \in {"starting", "ready"}
     THEN SetH(h, [hs[h] EXCEPT !.pc = "recordfailed", !.result = result]) /\ UNCHANGED pass
     ELSE Return(h, result)
  /\ UNCHANGED <<now, registry, procs, agents>> /\ NoFault

(* StopReplica and DrainReplica: draining is recorded with the endpoint ... *)
HAdvises(h) ==
  LET r == hs[h].r  why == Refusal(r, hs[h].until, "draining")
      tells == hs[h].live /\ procs[r] = "up" /\ hs[h].state = "ready" IN
  /\ hs[h].pc = "advise"
  /\ IF tells /\ why \in {"stale", "invalid"} THEN Return(h, "error") /\ UNCHANGED <<reps, eps>>
     ELSE /\ Goto(h, "withdraw") /\ UNCHANGED pass
          /\ IF tells /\ why = "none" THEN Observe(r, "draining") ELSE UNCHANGED <<reps, eps>>
  /\ UNCHANGED <<now, nodes, cmds, want, procs, agents>> /\ NoFault

(* ... which is withdrawn before the process is stopped. *)
HWithdraws(h) ==
  /\ hs[h].pc = "withdraw"
  /\ IF hs[h].live THEN Withdraw(hs[h].r) /\ Goto(h, "halt") /\ UNCHANGED pass
                   ELSE Return(h, "error") /\ UNCHANGED <<reps, eps>>
  /\ UNCHANGED <<now, nodes, cmds, want, procs, agents>> /\ NoFault

HHalts(h) ==
  /\ hs[h].pc = "halt" /\ ~Locked(hs[h].r)
  /\ SetProc(hs[h].r, "none") /\ Goto(h, "terminalize")
  /\ UNCHANGED <<now, registry, agents, pass>> /\ NoFault

HTerminalizes(h) ==
  /\ hs[h].pc = "terminalize"
  /\ IF hs[h].live \/ hs[h].op = "drain"
     THEN Terminalize(hs[h].r, "stopped") /\ Return(h, "ok")
     ELSE Return(h, "error") /\ UNCHANGED <<reps, eps>>
  /\ UNCHANGED <<now, nodes, cmds, want, procs, agents>> /\ NoFault

-----------------------------------------------------------------------------
(* ReconcileNode: the loop of an agent.                                      *)

Here(n)    == {r \in Replicas : reps[r].node = n}
Known(n)   == agents[n].facts[agents[n].r]

(* Mutant of Healthy: a process that is gone passes for a healthy one. *)
NotSick(n, r) == agents[n].inv[r] # "sick"

Healthy(n, r) == agents[n].inv[r] = "up"

Step(n, pc) == SetAgent(n, [agents[n] EXCEPT !.pc = pc])
Done(a, r, ok) == [a EXCEPT !.pc = "visit", !.r = NoReplica, !.facts[r] = NoRow, !.err = @ \/ ~ok]
Settled(n, ok) == SetAgent(n, Done(agents[n], agents[n].r, ok))

(* The node and its replicas are read, ... *)
ReconcileBegins(n) ==
  /\ agents[n].pc = "on"
  /\ SetAgent(n, [agents[n] EXCEPT !.pc = "list", !.open = IF nodes[n].cordoned THEN 0 ELSE nodes[n].lease,
                    !.facts = [r \in Replicas |-> IF r \in Here(n) THEN reps[r] ELSE NoRow]])
  /\ UNCHANGED <<now, registry, procs, hs, pass>> /\ NoFault

(* ... the processes listed, ... *)
ReconcileLists(n) ==
  /\ agents[n].pc = "list"
  /\ SetAgent(n, [agents[n] EXCEPT !.pc = "lock", !.todo = {r \in Here(n) : procs[r] # "none"}])
  /\ UNCHANGED <<now, registry, procs, hs, pass>> /\ NoFault

(* ... and looked at, each under its lifecycle lock.  A node that is inactive  *)
(* is read again before its replicas are given up.                          *)
ReconcileLooks(n) ==
  LET a == agents[n]
      active == a.open > now \/ (NodeLive(n) /\ ~nodes[n].cordoned)
      seen == [a EXCEPT !.open = 0, !.inv = [r \in Replicas |-> IF r \in a.todo THEN procs[r] ELSE "none"]] IN
  /\ a.pc = "lock" /\ \A r \in a.todo : ~Locked(r)
  /\ SetAgent(n, IF active
                 THEN [seen EXCEPT !.pc = "visit", !.todo = {r \in Replicas : a.facts[r].state # "absent"}]
                 ELSE [seen EXCEPT !.pc = "offline", !.todo = {r \in Replicas : a.facts[r].state \in Active}])
  /\ UNCHANGED <<now, registry, procs, hs, pass>> /\ NoFault

(* The node's own authority is gone: the replicas are stopped, and the agent.  *)
ReconcileOffline(n) ==
  LET a == agents[n] IN
  /\ a.pc = "offline"
  /\ \/ /\ \E r \in a.todo : /\ Terminalize(r, "stopped")
                             /\ SetAgent(n, [a EXCEPT !.todo = @ \ {r}])
        /\ UNCHANGED <<nodes, procs, hs, pass>>
     \/ a.todo = {} /\ Leave(n) /\ UNCHANGED <<reps, eps>>
  /\ UNCHANGED <<now, cmds, want>> /\ NoFault

(* One replica: what there is to do, by ValidateAgentAssignment, the row that  *)
(* was read and the process that was seen.  One that is kept, valid or in     *)
(* doubt, is no orphan: its process is forgotten.                            *)
ReconcileVisits(n, r) ==
  LET a == agents[n]  row == a.facts[r]  v == Validity(r, row.until, now)
      left == [a EXCEPT !.todo = @ \ {r}, !.r = r]
      kept == [left EXCEPT !.inv[r] = "none"] IN
  /\ a.pc = "visit" /\ r \in a.todo
  /\ SetAgent(n,
       CASE v = "moved" -> Done(kept, r, FALSE)
         [] v \in {"stale", "expired"} -> [left EXCEPT !.pc = IF row.state \in Terminal THEN "stop" ELSE "terminalize"]
         [] v = "valid" /\ row.state \in Terminal \cup {"draining"} ->
              [left EXCEPT !.pc = IF a.inv[r] # "none" THEN "stopdead" ELSE "recordstopped"]
         [] v = "valid" /\ row.state = "ready" ->
              IF Healthy(n, r) THEN Done(kept, r, TRUE)
              ELSE [kept EXCEPT !.pc = IF a.inv[r] = "none" THEN "withdraw" ELSE "withdrawbad"]
         [] v = "valid" /\ row.state \in {"pending", "starting"} ->
              CASE Healthy(n, r)     -> [kept EXCEPT !.pc = IF row.state = "pending" THEN "starting" ELSE "ready"]
                [] a.inv[r] = "sick" -> Done(kept, r, TRUE)
                [] a.inv[r] = "none" -> [kept EXCEPT !.pc = "restart"])
  /\ UNCHANGED <<now, registry, procs, hs, pass>> /\ NoFault

(* A replica whose assignment is fenced or has run out. *)
ReconcileTerminalizes(n) ==
  /\ agents[n].pc = "terminalize"
  /\ Terminalize(agents[n].r, "stopped") /\ Step(n, "stop")
  /\ UNCHANGED <<now, nodes, cmds, want, procs, hs, pass>> /\ NoFault

(* A process that is stopped: of such a replica, of one that is terminal or    *)
(* draining, of one that has lost its health.                               *)
ReconcileStops(n) ==
  LET a == agents[n]  r == a.r IN
  /\ a.pc \in {"stop", "stopdead", "stopbad"} /\ ~Locked(r)
  /\ SetProc(r, IF a.pc = "stop" /\ a.inv[r] = "none" THEN procs[r] ELSE "none")
  /\ CASE a.pc = "stop"     -> Settled(n, TRUE)
       [] a.pc = "stopdead" -> Step(n, "recordstopped")
       [] a.pc = "stopbad"  -> Step(n, "restart")
  /\ UNCHANGED <<now, registry, hs, pass>> /\ NoFault

ReconcileRecordsStopped(n) ==
  LET a == agents[n] IN
  /\ a.pc = "recordstopped" /\ Settled(n, TRUE)
  /\ IF Known(n).state # "stopped" /\ Refusal(a.r, Known(n).until, "stopped") = "none"
     THEN Observe(a.r, "stopped") ELSE UNCHANGED <<reps, eps>>
  /\ UNCHANGED <<now, nodes, cmds, want, procs, hs, pass>> /\ NoFault

(* A ready replica whose process is not healthy loses its endpoint first. *)
ReconcileWithdraws(n) ==
  LET a == agents[n]  r == a.r IN
  /\ a.pc \in {"withdraw", "withdrawbad"}
  /\ Terminalize(r, "failed")
  /\ IF Terminable(r, "failed")
     THEN SetAgent(n, [a EXCEPT !.pc = IF a.pc = "withdraw" THEN "restart" ELSE "stopbad", !.facts[r].state = "failed"])
     ELSE Settled(n, FALSE)
  /\ UNCHANGED <<now, nodes, cmds, want, procs, hs, pass>> /\ NoFault

(* recordStartingIfNeeded, before a start (restart) and before readiness is   *)
(* recorded (starting); the storage is diagnosed before a start.            *)
ReconcileRecordsStarting(n) ==
  LET a == agents[n]  r == a.r  why == Refusal(r, Known(n).until, "starting")
      onward == IF a.pc = "restart" THEN "boot" ELSE "ready" IN
  /\ a.pc \in {"restart", "starting"}
  /\ \/ a.pc = "restart" /\ Fault /\ Settled(n, FALSE) /\ UNCHANGED <<reps, eps>>
     \/ /\ NoFault
        /\ CASE Known(n).state = "starting" -> Step(n, onward) /\ UNCHANGED <<reps, eps>>
             [] Known(n).state # "starting" /\ why = "none" ->
                  /\ Observe(r, "starting")
                  /\ SetAgent(n, [a EXCEPT !.pc = onward, !.facts[r].state = "starting"])
             [] Known(n).state # "starting" /\ why = "invalid" -> Step(n, onward) /\ UNCHANGED <<reps, eps>>
             [] Known(n).state # "starting" /\ why \in {"stale", "expired"} -> Settled(n, FALSE) /\ UNCHANGED <<reps, eps>>
  /\ UNCHANGED <<now, nodes, cmds, want, procs, hs, pass>>

ReconcileBoots(n) ==
  LET r == agents[n].r IN
  /\ agents[n].pc = "boot" /\ ~Locked(r)
  /\ SetProc(r, IF procs[r] = "none" THEN "sick" ELSE procs[r]) /\ Step(n, "gate")
  /\ UNCHANGED <<now, registry, hs, pass>> /\ NoFault

ReconcileGates(n) ==
  LET r == agents[n].r IN
  /\ agents[n].pc = "gate"
  /\ \/ /\ procs[r] # "none" /\ NoFault
        /\ SetProc(r, "up") /\ Step(n, IF Known(n).state = "starting" THEN "ready" ELSE "starting")
     \/ /\ IF procs[r] = "none" THEN NoFault ELSE Fault
        /\ SetProc(r, "none") /\ Step(n, "giveup")
  /\ UNCHANGED <<now, registry, hs, pass>>

ReconcileGivesUp(n) ==
  /\ agents[n].pc = "giveup"
  /\ Terminalize(agents[n].r, "failed") /\ Settled(n, FALSE)
  /\ UNCHANGED <<now, nodes, cmds, want, procs, hs, pass>> /\ NoFault

(* recordReadyIfRunning *)
ReconcileRecordsReady(n) ==
  LET a == agents[n] IN
  /\ a.pc = "ready" /\ Settled(n, TRUE)
  /\ IF Refusal(a.r, Known(n).until, "ready") = "none" THEN Observe(a.r, "ready") ELSE UNCHANGED <<reps, eps>>
  /\ UNCHANGED <<now, nodes, cmds, want, procs, hs, pass>> /\ NoFault

(* The processes that belong to no replica of the node are stopped.  A first  *)
(* reconciliation that met an error ends the agent.                         *)
ReconcileSweeps(n) ==
  LET a == agents[n]  orphans == {r \in Replicas : a.inv[r] # "none"} IN
  /\ a.pc = "visit" /\ a.todo = {} /\ \A r \in orphans : ~Locked(r)
  /\ IF a.boots /\ a.err
     THEN Leave(n)
     ELSE /\ SetAgent(n, Idle("on")) /\ UNCHANGED <<nodes, hs, pass>>
          /\ procs' = [r \in Replicas |-> IF r \in orphans THEN "none" ELSE procs[r]]
  /\ UNCHANGED <<now, reps, eps, cmds, want>> /\ NoFault

-----------------------------------------------------------------------------
Nodal(n) ==
  \/ Activate(n) \/ Heartbeat(n) \/ Cordon(n) \/ HeartbeatLost(n) \/ Crash(n) \/ Shutdown(n)

Reconciling(n) ==
  \/ ReconcileBegins(n) \/ ReconcileLists(n) \/ ReconcileLooks(n) \/ ReconcileOffline(n)
  \/ \E r \in Replicas : ReconcileVisits(n, r)
  \/ ReconcileTerminalizes(n) \/ ReconcileStops(n) \/ ReconcileRecordsStopped(n) \/ ReconcileWithdraws(n)
  \/ ReconcileRecordsStarting(n) \/ ReconcileBoots(n) \/ ReconcileGates(n) \/ ReconcileGivesUp(n)
  \/ ReconcileRecordsReady(n) \/ ReconcileSweeps(n)

Handling(h) ==
  \/ HEnters(h) \/ HReads(h) \/ HClaims(h) \/ HVerifies(h) \/ HDiagnoses(h) \/ HRecords(h) \/ HBoots(h)
  \/ HGates(h) \/ HProbesStart(h) \/ HRereads(h) \/ HCommits(h) \/ HFails(h) \/ HCleans(h)
  \/ HRecordsFailed(h) \/ HCompletes(h) \/ HProbes(h) \/ HAdvises(h) \/ HWithdraws(h) \/ HHalts(h)
  \/ HTerminalizes(h)

Scheduling ==
  \/ PassBegins \/ PassLists \/ PassValidates \/ PassRenews \/ PassCalls \/ PassGivesUp \/ PassDrops
  \/ PassPlaces \/ PassClaims
  \/ \E r \in Replicas : PassExpires(r) \/ PassVisits(r)

Next ==
  \/ Tick \/ Wish \/ Scheduling
  \/ \E n \in Nodes : Nodal(n) \/ Reconciling(n)
  \/ \E h \in Handlers : Handling(h) \/ RenewCommand(h)
  \/ \E r \in Replicas : LaneRenews(r) \/ ProcessFails(r) \/ ProcessSettles(r)

Spec == Init /\ [][Next]_vars

(* The loop of an agent and the requests it serves go on as long as it lives.  *)
Fairness == /\ \A n \in Nodes : WF_vars(Reconciling(n))
            /\ \A h \in Handlers : WF_vars(Handling(h))
LiveSpec == Spec /\ Fairness

-----------------------------------------------------------------------------
(* Every variable keeps the shape of its table, request or loop; a commit is   *)
(* tried three times at most.                                               *)
TypeOK ==
  /\ now \in 0 .. MaxTime /\ faults \in 0 .. MaxFaults
  /\ nodes \in [Nodes -> NodeRow] /\ reps \in [Replicas -> Row]
  /\ eps \in [Replicas -> Endpoint] /\ cmds \in [Replicas -> Command]
  /\ procs \in [Replicas -> ProcStates]
  /\ agents \in [Nodes -> Agent] /\ hs \in [Handlers -> Handler]
  /\ pass \in Pass /\ want \in [n : 0 .. MaxWant, gen : Nat]

(* What is routed is what the rows say: whoever withdraws, renews, fails or    *)
(* stops a replica, an endpoint has the state and the lease of its row, and a *)
(* ready row has its endpoint (RecordObservation, RenewAssignmentLease,      *)
(* WithdrawReplica and TerminalizeReplica each change two tables).           *)
EndpointFollowsRow ==
  \A r \in Replicas :
    /\ eps[r].state # "none" => eps[r].state = reps[r].state /\ eps[r].until = reps[r].until
    /\ reps[r].state = "ready" => eps[r].state = "ready"

(* An assignment does not outlive the lease of its node, though claims and     *)
(* renewals carry a lease that was read a while before.                      *)
LeaseWithinNode ==
  \A r \in Replicas : reps[r].state \in Active /\ Current(r) /\ NodeLive(reps[r].node)
                       => reps[r].until <= nodes[reps[r].node].lease

(* An agent keeps no process for an assignment to an earlier life of its node: *)
(* the generation fences what was assigned before it was activated again.    *)
(* (A process that outlives its agent is in nobody's table.)                *)
ProcessesAreCurrent == \A r \in Replicas : procs[r] # "none" => Current(r)

(* The tables and the agents' processes.                                     *)
AgentsSound == TypeOK /\ ProcessesAreCurrent

(* A replica is published, or its endpoint prolonged, only while its           *)
(* assignment is live, of the node's present generation, and the node is not *)
(* cordoned: a start command that finishes late and a reconciliation that    *)
(* read the rows early are refused.                                         *)
FencedNotPublished ==
  [][\A r \in Replicas :
       eps'[r].state = "ready" /\ (eps[r].state # "ready" \/ eps'[r].until > eps[r].until)
       => Assigned(r) /\ ~nodes[reps[r].node].cordoned]_vars

(* What a pass decides by itself, it decides right, however old the rows it    *)
(* goes by: no assignment that is live is failed because the renewal lane has *)
(* moved its lease meanwhile (convergeReplica after a lost compare-and-set). *)
(* A drop that an agent's refusal asks for is another matter: see PassDrops.  *)
DropsOnlyDead ==
  [][\A r \in Replicas :
       pass' # pass /\ hs' = hs /\ pass.pc # "drop" /\ reps[r].state \in Active /\ reps'[r].state = "failed"
       => ~StillLive(r)]_vars

(* A claim leaves no more live assignments than are wanted at that moment,     *)
(* whatever was revived or wished for since the pass counted them.            *)
ClaimsWithinDesire ==
  [][\A r \in Replicas : reps[r].state = "absent" /\ reps'[r].state # "absent"
                         => Cardinality(Occupied(reps', now)) <= want.n]_vars

(* A routed endpoint whose process is gone is withdrawn, or served again, as   *)
(* long as its agent lives: by the next reconciliation if nothing else.      *)
DeadEndpointLeaves ==
  \A r \in Replicas :
    eps[r].state = "ready" /\ procs[r] = "none"
    ~> (eps[r].state # "ready" \/ procs[r] # "none" \/ agents[reps[r].node].pc = "down")

(* "reconcile must never turn a failed or stopped replica back into a ready    *)
(* one [...] and not by recording `starting` again" (lifecycle_test.go),      *)
(* "reconcile never revives one" (handler.go).  The failed state a           *)
(* reconciliation has itself recorded, to start the replica again, is left   *)
(* out.                                                                     *)
TerminalNotRevived ==
  [][\A n \in Nodes, r \in Replicas :
       agents'[n] # agents[n] /\ reps[r].state \in Terminal /\ agents[n].facts[r].state # "failed"
       => reps'[r].state \in Terminal]_vars
=============================================================================
