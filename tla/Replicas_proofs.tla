-------------------------- MODULE Replicas_proofs --------------------------
(***************************************************************************)
(* Safety of the replicas of a version, for every number of nodes, replicas  *)
(* and handlers and whatever crashes, stalls or is lost.  Every action but  *)
(* one is a Mild step: it keeps the places of the replicas and leaves every *)
(* table, loop and request with a row that knows what Inv says of it.  Only *)
(* a claim, which places a replica, is not.                                *)
(***************************************************************************)
EXTENDS Replicas, TLAPS, FiniteSetTheorems

(* What the tables say of a replica.  Unlike LeaseWithinNode, the lease is   *)
(* bounded for ended replicas too: a failed one may be started again.       *)
GoodRow(r) ==
  LET row == reps[r] IN
  /\ row.state = "absent" <=> row.node = NoNode
  /\ row.node \in Nodes =>
       /\ row.gen <= nodes[row.node].gen
       /\ Current(r) /\ NodeLive(row.node) => row.until <= nodes[row.node].lease

(* A process is in the table of an agent that runs, in its present life. *)
Up(n) == agents[n].pc # "down"
Attended(r) == reps[r].node \in Nodes /\ Up(reps[r].node)
GoodProc(r, p) == p # "none" => Attended(r) /\ Current(r)

(* A handler has read the generation of its replica, which stays: to change  *)
(* it the agent must end, and its handlers with it.                        *)
GoodHandler(x) ==
  /\ x.pc # "idle" => x.r \in Replicas /\ Attended(x.r)
  /\ x.pc \notin {"idle", "enter", "read"} => Current(x.r)

VisitPCs == {"terminalize", "stop"}
FencedPCs == {"stopdead", "recordstopped", "starting", "ready", "withdraw", "withdrawbad", "stopbad",
              "restart", "boot", "gate", "giveup"}

GoodAgent(n, a) ==
  /\ \A r \in Replicas : a.facts[r].state # "absent" => reps[r].node = n
  /\ a.pc \in {"visit"} \cup VisitPCs \cup FencedPCs => \A r \in a.todo : a.facts[r].state # "absent"
  /\ a.pc \in VisitPCs \cup FencedPCs => a.r \in Replicas \ a.todo /\ reps[a.r].node = n
  /\ a.pc \in FencedPCs => Current(a.r)

(* What the pass has read is of the past: leases that ended have not come    *)
(* back, nodes that kept their generation have kept their lease or more, and *)
(* a desire of the same generation is the same.                            *)
Reads(p) ==
  /\ p.now <= now
  /\ p.wish <= want.gen /\ (p.wish = want.gen => p.want = want.n)
  /\ \A n \in Nodes :
       /\ p.nodes[n].gen <= nodes[n].gen
       /\ p.nodes[n].gen = nodes[n].gen /\ NodeLive(n) => p.nodes[n].lease <= nodes[n].lease
  /\ \A r \in Replicas :
       p.rows[r].state # "absent" =>
         /\ p.rows[r].node \in Nodes
         /\ reps[r].node = p.rows[r].node /\ reps[r].gen = p.rows[r].gen
  /\ \A r \in p.todo :
       /\ p.rows[r].state \in Active
       /\ p.rows[r].until <= p.now => reps[r].until <= now

GoodPass(p) ==
  /\ Reads(p)
  /\ p.pc \in {"validate", "renew", "call"} => p.r \in Replicas /\ p.rows[p.r].state \in Active
  /\ p.pc \in {"wait", "drop"} => p.r \in Replicas
  /\ p.pc = "claim" => p.r \in Replicas /\ p.n \in Nodes /\ reps[p.r].node = NoNode

(* The scheduler waits for one handler at most. *)
LiveWaits ==
  /\ \A h \in Handlers : hs[h].live => pass.pc = "wait" /\ hs[h].pc # "idle"
  /\ \A h1, h2 \in Handlers : hs[h1].live /\ hs[h2].live => h1 = h2

Inv ==
  /\ TypeOK /\ want.gen >= 1
  /\ \A r \in Replicas : GoodRow(r) /\ GoodProc(r, procs[r])
  /\ EndpointFollowsRow
  /\ \A h \in Handlers : GoodHandler(hs[h])
  /\ \A n \in Nodes : GoodAgent(n, agents[n])
  /\ GoodPass(pass)
  /\ LiveWaits

-----------------------------------------------------------------------------
(* What a mild step may do. *)

Published(r) == eps'[r].state = "ready" /\ (eps[r].state # "ready" \/ eps'[r].until > eps[r].until)
Servable(r)  == Assigned(r) /\ ~nodes[reps[r].node].cordoned

SameReplica(r) ==
  /\ reps'[r].node = reps[r].node /\ reps'[r].gen = reps[r].gen
  /\ reps'[r].state = "absent" <=> reps[r].state = "absent"
  /\ \/ reps'[r].until = reps[r].until
     \/ reps[r].until > now /\ reps'[r].until <= nodes[reps[r].node].lease

TablesMild ==
  /\ reps' \in [Replicas -> Row] /\ eps' \in [Replicas -> Endpoint]
  /\ \A r \in Replicas : SameReplica(r) /\ (Published(r) => Servable(r))
  /\ EndpointFollowsRow'

NodeStep(n) ==
  \/ /\ nodes'[n].gen = nodes[n].gen
     /\ \/ nodes'[n].lease = nodes[n].lease
        \/ nodes'[n].lease >= nodes[n].lease /\ NodeLive(n)
        \/ nodes'[n].lease <= now
  \/ ~Up(n) /\ nodes'[n].gen > nodes[n].gen

NodesMild == nodes' \in [Nodes -> NodeRow] /\ \A n \in Nodes : NodeStep(n)

RestMild ==
  /\ now' \in 0 .. MaxTime /\ now' >= now /\ faults' \in 0 .. MaxFaults
  /\ cmds' \in [Replicas -> Command]
  /\ want' \in [n : 0 .. MaxWant, gen : Nat] /\ (want' = want \/ want'.gen > want.gen)

ProcsMild == procs' \in [Replicas -> ProcStates] /\ \A r \in Replicas : GoodProc(r, procs'[r])

HandlersMild == hs' \in [Handlers -> Handler] /\ \A h \in Handlers : GoodHandler(hs'[h])

(* An agent that goes down takes its processes and its handlers with it. *)
Emptied(n) ==
  /\ \A r \in Replicas : reps[r].node = n => procs'[r] = "none"
  /\ \A h \in Handlers : hs'[h].pc # "idle" => reps[hs'[h].r].node # n

AgentsMild ==
  /\ agents' \in [Nodes -> Agent]
  /\ \A n \in Nodes :
       /\ GoodAgent(n, agents'[n])
       /\ agents'[n].pc = "down" => ~Up(n) \/ Emptied(n)
       /\ ~Up(n) => agents'[n].pc \in {"down", "on"}

PassMild == pass' \in Pass /\ GoodPass(pass') /\ LiveWaits'

Mild ==
  /\ TablesMild /\ NodesMild /\ RestMild /\ ProcsMild /\ HandlersMild /\ AgentsMild /\ PassMild

-----------------------------------------------------------------------------
(* A mild step keeps the invariant. *)

LEMMA TimesTyped ==
  /\ Time \subseteq Nat /\ 0 \in Time
  /\ \A t \in 0 .. MaxTime : t \in Time /\ t + LeaseTicks \in Time /\ t + CommandTicks \in Time
  BY BoundsAssumption DEF Time

LEMMA NodeKept ==
  ASSUME Inv, NodesMild, RestMild, NEW n \in Nodes
  PROVE  /\ nodes[n].gen \in Nat /\ nodes'[n].gen \in Nat /\ nodes[n].gen <= nodes'[n].gen
         /\ Up(n) => nodes'[n].gen = nodes[n].gen
         /\ nodes'[n].gen = nodes[n].gen /\ NodeLive(n)' =>
              NodeLive(n) /\ nodes[n].lease <= nodes'[n].lease
<1>1. /\ nodes[n].gen \in Nat /\ nodes[n].lease \in Nat /\ nodes'[n].gen \in Nat
      /\ nodes'[n].lease \in Nat /\ now \in Nat /\ now' \in Nat /\ now' >= now
  BY TimesTyped DEF Inv, TypeOK, NodesMild, RestMild, NodeRow
<1> QED
  BY <1>1 DEF NodesMild, NodeStep, NodeLive

(* The fate of a replica that has a place: its agent runs on, in the same    *)
(* life.                                                                    *)
LEMMA CurrentKept ==
  ASSUME Inv, NodesMild, RestMild, NEW r \in Replicas, Attended(r), Current(r),
         reps'[r].node = reps[r].node, reps'[r].gen = reps[r].gen
  PROVE  Current(r)'
  BY NodeKept DEF Attended, Current

LEMMA RowKept ==
  ASSUME Inv, NodesMild, RestMild, TablesMild, NEW r \in Replicas
  PROVE  GoodRow(r)'
<1>1. /\ GoodRow(r) /\ SameReplica(r) /\ reps[r].gen \in Nat /\ reps[r].until \in Nat /\ reps'[r].until \in Nat
  BY TimesTyped DEF Inv, TypeOK, TablesMild, Row
<1>2. (reps[r].state = "absent" <=> reps[r].node = NoNode)'
  BY <1>1 DEF GoodRow, SameReplica
<1>3. ASSUME reps'[r].node \in Nodes PROVE reps'[r].gen <= nodes'[reps'[r].node].gen
  BY <1>1, <1>3, NodeKept DEF GoodRow, SameReplica
<1>4. ASSUME reps'[r].node \in Nodes, Current(r)', NodeLive(reps[r].node)'
      PROVE  reps'[r].until <= nodes'[reps'[r].node].lease
  <2> DEFINE n == reps[r].node
  <2>1. n \in Nodes /\ reps'[r].node = n /\ nodes'[n].gen = nodes[n].gen
    <3>1. n \in Nodes /\ reps'[r].node = n /\ reps'[r].gen = reps[r].gen
      BY <1>1, <1>4 DEF SameReplica
    <3>2. reps[r].gen <= nodes[n].gen /\ nodes[n].gen <= nodes'[n].gen /\ nodes[n].gen \in Nat
          /\ nodes'[n].gen \in Nat
      BY <3>1, <1>1, NodeKept DEF GoodRow
    <3> QED
      BY <3>1, <3>2, <1>4, <1>1 DEF Current
  <2>2. NodeLive(n) /\ nodes[n].lease <= nodes'[n].lease /\ Current(r)
    BY <2>1, <1>1, <1>4, NodeKept DEF Current, SameReplica
  <2>3. nodes[n].lease \in Nat /\ nodes'[n].lease \in Nat
    BY <2>1, TimesTyped DEF Inv, TypeOK, NodesMild, NodeRow
  <2>4. reps'[r].until <= nodes[n].lease
    BY <1>1, <2>1, <2>2 DEF GoodRow, SameReplica
  <2> QED
    BY <2>1, <2>2, <2>3, <2>4, <1>1
<1> QED
  BY <1>2, <1>3, <1>4 DEF GoodRow

(* The parts of the invariant below also survive the claim of a replica: of   *)
(* the replicas they only need those that have a place.                     *)
PlacedStay ==
  \A r \in Replicas : reps[r].node # NoNode =>
    reps'[r].node = reps[r].node /\ reps'[r].gen = reps[r].gen

LEMMA ProcsKept ==
  ASSUME Inv, PlacedStay, NodesMild, RestMild, ProcsMild, AgentsMild, NEW r \in Replicas
  PROVE  GoodProc(r, procs[r])'
<1> SUFFICES ASSUME procs'[r] # "none" PROVE Attended(r)' /\ Current(r)'
  BY DEF GoodProc
<1>1. Attended(r) /\ Current(r)
  BY DEF ProcsMild, GoodProc
<1>2. reps'[r].node = reps[r].node /\ reps'[r].gen = reps[r].gen
  BY <1>1, SetsAssumption DEF PlacedStay, Attended
<1>3. Current(r)'
  BY <1>1, <1>2, CurrentKept
<1>4. agents'[reps[r].node].pc # "down"
  BY <1>1 DEF AgentsMild, Emptied, Attended
<1> QED
  BY <1>1, <1>2, <1>3, <1>4 DEF Attended, Up

LEMMA HandlersKept ==
  ASSUME Inv, PlacedStay, NodesMild, RestMild, HandlersMild, AgentsMild, NEW h \in Handlers
  PROVE  GoodHandler(hs[h])'
<1>0. PICK x : x = hs'[h]
  OBVIOUS
<1>1. GoodHandler(x)
  BY <1>0 DEF HandlersMild
<1>2. CASE x.pc = "idle"
  BY <1>0, <1>2 DEF GoodHandler
<1>3. CASE x.pc # "idle"
  <2>1. x.r \in Replicas /\ Attended(x.r)
    BY <1>1, <1>3 DEF GoodHandler
  <2>2. reps'[x.r].node = reps[x.r].node /\ reps'[x.r].gen = reps[x.r].gen
    BY <2>1, SetsAssumption DEF PlacedStay, Attended
  <2>3. agents'[reps[x.r].node].pc # "down"
    BY <1>0, <1>3, <2>1 DEF AgentsMild, Emptied, Attended
  <2>4. Attended(x.r)'
    BY <2>1, <2>2, <2>3 DEF Attended, Up
  <2>5. Current(x.r) => Current(x.r)'
    BY <2>1, <2>2, CurrentKept
  <2> QED
    BY <1>0, <1>1, <2>1, <2>4, <2>5 DEF GoodHandler
<1> QED
  BY <1>2, <1>3

LEMMA AgentsKept ==
  ASSUME Inv, PlacedStay, NodesMild, RestMild, AgentsMild, NEW n \in Nodes
  PROVE  GoodAgent(n, agents[n])'
<1>0. PICK a : a = agents'[n]
  OBVIOUS
<1>1. GoodAgent(n, a) /\ n # NoNode
  BY <1>0, SetsAssumption DEF AgentsMild
<1>2. ASSUME NEW r \in Replicas, reps[r].node = n
      PROVE  reps'[r].node = n /\ reps'[r].gen = reps[r].gen
  BY <1>1, <1>2 DEF PlacedStay
<1>3. a \in Agent
  BY <1>0 DEF AgentsMild
<1>4. a.pc \in FencedPCs => Current(a.r)'
  <2> SUFFICES ASSUME a.pc \in FencedPCs PROVE Current(a.r)'
    OBVIOUS
  <2>1. a.r \in Replicas /\ reps[a.r].node = n /\ Current(a.r)
    BY <1>1 DEF GoodAgent
  <2>2. nodes'[n].gen = nodes[n].gen
    <3>1. CASE Up(n)
      BY <3>1, NodeKept
    <3>2. CASE ~Up(n)
      BY <1>0, <3>2 DEF AgentsMild, FencedPCs
    <3> QED
      BY <3>1, <3>2
  <2> QED
    BY <2>1, <2>2, <1>2 DEF Current
<1> QED
  BY <1>0, <1>1, <1>2, <1>3, <1>4 DEF GoodAgent, Agent

LEMMA PassKept ==
  ASSUME Inv, TablesMild, NodesMild, RestMild, PassMild
  PROVE  GoodPass(pass)'
<1>0. PICK p : p = pass'
  OBVIOUS
<1>1. p \in Pass /\ GoodPass(p) /\ Reads(p)
  BY <1>0 DEF PassMild, GoodPass
<1>2. /\ now \in Nat /\ now' \in Nat /\ now <= now' /\ p.now \in Nat /\ p.wish \in Nat
      /\ want.gen \in Nat /\ want'.gen \in Nat
  BY <1>1, TimesTyped DEF Inv, TypeOK, RestMild, Pass
<1>3. p.now <= now' /\ p.wish <= want'.gen /\ (p.wish = want'.gen => p.want = want'.n)
  BY <1>1, <1>2 DEF Reads, RestMild
<1>4. ASSUME NEW n \in Nodes
      PROVE  /\ p.nodes[n].gen <= nodes'[n].gen
             /\ p.nodes[n].gen = nodes'[n].gen /\ NodeLive(n)' => p.nodes[n].lease <= nodes'[n].lease
  <2>1. p.nodes[n].gen \in Nat /\ p.nodes[n].lease \in Nat
    BY <1>1, TimesTyped DEF Pass, NodeRow
  <2>2. nodes[n].lease \in Nat /\ nodes'[n].lease \in Nat
    BY TimesTyped DEF Inv, TypeOK, NodesMild, NodeRow
  <2> QED
    BY <1>1, <2>1, <2>2, NodeKept DEF Reads
<1>5. ASSUME NEW r \in Replicas, p.rows[r].state # "absent"
      PROVE  /\ p.rows[r].node \in Nodes
             /\ reps'[r].node = p.rows[r].node /\ reps'[r].gen = p.rows[r].gen
  BY <1>1, <1>5 DEF Reads, TablesMild, SameReplica
<1>6. ASSUME NEW r \in p.todo
      PROVE  p.rows[r].state \in Active /\ (p.rows[r].until <= p.now => reps'[r].until <= now')
  <2>1. r \in Replicas
    BY <1>1 DEF Pass
  <2>2. reps[r].until \in Nat
    BY <2>1, TimesTyped DEF Inv, TypeOK, Row
  <2> QED
    BY <1>1, <1>2, <2>1, <2>2 DEF Reads, TablesMild, SameReplica
<1>7. Reads(p)'
  BY <1>3, <1>4, <1>5, <1>6 DEF Reads
<1>8. p.pc = "claim" => reps'[p.r].node = NoNode
  BY <1>1 DEF GoodPass, TablesMild, SameReplica
<1> QED
  BY <1>0, <1>1, <1>7, <1>8 DEF GoodPass

LEMMA MildKeeps ==
  ASSUME Inv, Mild
  PROVE  Inv'
<1>1. PlacedStay
  BY DEF Mild, TablesMild, SameReplica, PlacedStay
<1>2. TypeOK'
  BY DEF Mild, TypeOK, TablesMild, NodesMild, RestMild, ProcsMild, HandlersMild, AgentsMild, PassMild
<1>3. want'.gen >= 1
  BY DEF Mild, RestMild, Inv, TypeOK
<1>4. \A r \in Replicas : GoodRow(r)' /\ GoodProc(r, procs[r])'
  BY <1>1, RowKept, ProcsKept DEF Mild
<1>5. \A h \in Handlers : GoodHandler(hs[h])'
  BY <1>1, HandlersKept DEF Mild
<1>6. \A n \in Nodes : GoodAgent(n, agents[n])'
  BY <1>1, AgentsKept DEF Mild
<1>7. GoodPass(pass)' /\ LiveWaits' /\ EndpointFollowsRow'
  BY PassKept DEF Mild, PassMild, TablesMild
<1> QED
  BY <1>2, <1>3, <1>4, <1>5, <1>6, <1>7 DEF Inv

-----------------------------------------------------------------------------
(* What stays is mild. *)

LEMMA StayMild ==
  ASSUME Inv
  PROVE  /\ UNCHANGED <<reps, eps>> => TablesMild
         /\ UNCHANGED nodes => NodesMild
         /\ UNCHANGED procs => ProcsMild
         /\ UNCHANGED hs => HandlersMild
         /\ UNCHANGED <<hs, pass>> => PassMild
         /\ UNCHANGED <<now, cmds, want>> /\ faults' \in 0 .. MaxFaults => RestMild
<1>1. ASSUME UNCHANGED <<reps, eps>> PROVE TablesMild
  <2>1. EndpointFollowsRow'
    BY <1>1 DEF Inv, EndpointFollowsRow
  <2>2. \A r \in Replicas : eps[r].until \in Nat
    BY TimesTyped DEF Inv, TypeOK, Endpoint
  <2> QED
    BY <1>1, <2>1, <2>2 DEF Inv, TypeOK, TablesMild, SameReplica, Published
<1>2. UNCHANGED nodes => NodesMild
  BY DEF Inv, TypeOK, NodesMild, NodeStep
<1>3. UNCHANGED procs => ProcsMild
  BY DEF Inv, TypeOK, ProcsMild
<1>4. UNCHANGED hs => HandlersMild
  BY DEF Inv, TypeOK, HandlersMild
<1>5. UNCHANGED <<hs, pass>> => PassMild
  BY DEF Inv, TypeOK, PassMild, LiveWaits
<1>6. UNCHANGED <<now, cmds, want>> /\ faults' \in 0 .. MaxFaults => RestMild
  BY DEF Inv, TypeOK, RestMild
<1> QED
  BY <1>1, <1>2, <1>3, <1>4, <1>5, <1>6

LEMMA FaultTyped == ASSUME Inv, Fault \/ NoFault PROVE faults' \in 0 .. MaxFaults
  BY BoundsAssumption DEF Inv, TypeOK, Fault, NoFault

LEMMA AgentsStay ==
  ASSUME Inv, UNCHANGED agents PROVE AgentsMild
  BY DEF Inv, TypeOK, AgentsMild, Up

-----------------------------------------------------------------------------
(* The transactions on replicas. *)

LEMMA FollowsIfOne ==
  ASSUME Inv, NEW r \in Replicas,
         \A q \in Replicas \ {r} : reps'[q] = reps[q] /\ eps'[q] = eps[q],
         eps'[r].state # "none" => eps'[r].state = reps'[r].state /\ eps'[r].until = reps'[r].until,
         reps'[r].state = "ready" => eps'[r].state = "ready"
  PROVE  EndpointFollowsRow'
<1> SUFFICES ASSUME NEW q \in Replicas
             PROVE  /\ eps'[q].state # "none" => eps'[q].state = reps'[q].state /\ eps'[q].until = reps'[q].until
                    /\ reps'[q].state = "ready" => eps'[q].state = "ready"
  BY DEF EndpointFollowsRow
<1>1. CASE q = r
  BY <1>1
<1>2. CASE q # r
  BY <1>2 DEF Inv, EndpointFollowsRow
<1> QED
  BY <1>1, <1>2

LEMMA ObserveMild ==
  ASSUME Inv, NEW r \in Replicas, NEW s \in States \ {"absent"}, Observe(r, s),
         reps[r].state # "absent",
         s \in {"pending", "starting"} => reps[r].state \notin {"ready", "draining"},
         s = "ready" => Servable(r)
  PROVE  TablesMild
<1>1. reps \in [Replicas -> Row] /\ eps \in [Replicas -> Endpoint] /\ EndpointFollowsRow
      /\ reps[r].until \in Time
  BY DEF Inv, TypeOK, Row
<1>2. reps'[r] = [reps[r] EXCEPT !.state = s] /\ \A q \in Replicas \ {r} : reps'[q] = reps[q]
  BY <1>1 DEF Observe
<1>3. reps' \in [Replicas -> Row]
  <2>1. [reps[r] EXCEPT !.state = s] \in Row
    BY <1>1 DEF Row
  <2> QED
    BY <1>1, <2>1 DEF Observe
<1>4. /\ \A q \in Replicas \ {r} : eps'[q] = eps[q]
      /\ eps'[r] = IF s \in {"ready", "draining"} THEN [state |-> s, until |-> reps[r].until]
                   ELSE IF s \in Terminal THEN NoEp ELSE eps[r]
  BY <1>1 DEF Observe
<1>5. eps' \in [Replicas -> Endpoint]
  <2>1. eps'[r] \in Endpoint
    BY <1>1, <1>4, TimesTyped DEF Endpoint, NoEp
  <2> QED
    BY <1>1, <2>1 DEF Observe
<1>6. reps'[r].state = s /\ reps'[r].until = reps[r].until /\ reps'[r].node = reps[r].node
      /\ reps'[r].gen = reps[r].gen
  BY <1>1, <1>2 DEF Row
<1>7. EndpointFollowsRow'
  <2>1. ASSUME s \in {"pending", "starting"} PROVE eps[r].state = "none"
    BY <2>1, <1>1 DEF EndpointFollowsRow, Endpoint
  <2>2. /\ eps'[r].state # "none" => eps'[r].state = reps'[r].state /\ eps'[r].until = reps'[r].until
        /\ reps'[r].state = "ready" => eps'[r].state = "ready"
    BY <1>4, <1>6, <2>1 DEF Terminal, States, NoEp
  <2> QED
    BY <1>2, <1>4, <2>2, FollowsIfOne
<1>8. \A q \in Replicas : SameReplica(q)
  BY <1>2, <1>6 DEF SameReplica
<1>9. ASSUME NEW q \in Replicas, Published(q) PROVE Servable(q)
  <2>1. eps[q].until \in Nat
    BY <1>1, TimesTyped DEF Endpoint
  <2>2. q = r
    BY <1>4, <1>9, <2>1 DEF Published
  <2>3. s \notin {"pending", "starting"} \/ eps[r].state = "none"
    BY <1>1 DEF EndpointFollowsRow, Endpoint
  <2> QED
    BY <1>4, <1>9, <2>2, <2>3 DEF Published, NoEp, Terminal, States
<1> QED
  BY <1>3, <1>5, <1>7, <1>8, <1>9 DEF TablesMild

LEMMA AllowedFacts ==
  ASSUME NEW from, NEW to, Allowed(from, to)
  PROVE  from # "absent" /\ to # "absent" /\ (to = "starting" => from \notin {"ready", "draining"})
  BY DEF Allowed

LEMMA TerminalizeMild ==
  ASSUME Inv, NEW r, NEW s \in Terminal, Terminalize(r, s), r \in Replicas \/ ~Terminable(r, s)
  PROVE  TablesMild
<1>1. CASE ~Terminable(r, s)
  BY <1>1, StayMild DEF Terminalize
<1>2. CASE Terminable(r, s)
  <2>1. reps[r].state # "absent"
    BY <1>2, AllowedFacts DEF Terminable, Terminal
  <2> QED
    BY <1>2, <2>1, ObserveMild DEF Terminalize, Terminal, States
<1> QED
  BY <1>1, <1>2

(* What RecordObservation has checked when it does not refuse. *)
LEMMA NotRefused ==
  ASSUME Inv, NEW r \in Replicas, NEW until, NEW s, Refusal(r, until, s) = "none"
  PROVE  /\ reps[r].until > now /\ Current(r) /\ NodeLive(reps[r].node)
         /\ reps[r].state = s \/ Allowed(reps[r].state, s)
         /\ s \in {"pending", "starting", "ready"} => ~nodes[reps[r].node].cordoned
<1>1. reps[r].until \in Nat /\ now \in Nat
  BY TimesTyped DEF Inv, TypeOK, Row
<1> QED
  BY <1>1 DEF Refusal

LEMMA RecordMild ==
  ASSUME Inv, NEW r \in Replicas, NEW until, NEW s \in States \ {"absent", "pending"},
         Refusal(r, until, s) = "none", Observe(r, s)
  PROVE  TablesMild
<1>1. reps[r].state # "absent" /\ (s = "starting" => reps[r].state \notin {"ready", "draining"})
  BY NotRefused, AllowedFacts
<1>2. s = "ready" => Servable(r)
  BY <1>1, NotRefused DEF Servable, Assigned
<1> QED
  BY <1>1, <1>2, ObserveMild

LEMMA WithdrawMild ==
  ASSUME Inv, NEW r \in Replicas, Withdraw(r), reps[r].state # "absent"
  PROVE  TablesMild
<1>1. reps \in [Replicas -> Row] /\ eps \in [Replicas -> Endpoint] /\ EndpointFollowsRow
      /\ NoEp \in Endpoint /\ reps[r] \in Row
  BY TimesTyped DEF Inv, TypeOK, NoEp, Endpoint
<1>2. /\ \A q \in Replicas \ {r} : reps'[q] = reps[q] /\ eps'[q] = eps[q]
      /\ reps'[r] = [reps[r] EXCEPT !.state = IF @ = "ready" THEN "draining" ELSE @]
      /\ eps'[r] = NoEp
  BY <1>1 DEF Withdraw
<1>3. /\ reps'[r] \in Row /\ reps'[r].until = reps[r].until /\ reps'[r].node = reps[r].node
      /\ reps'[r].gen = reps[r].gen /\ reps'[r].state # "absent" /\ reps'[r].state # "ready"
  BY <1>1, <1>2 DEF Row, States
<1>4. reps' \in [Replicas -> Row] /\ eps' \in [Replicas -> Endpoint]
  BY <1>1, <1>2, <1>3 DEF Withdraw
<1>5. EndpointFollowsRow'
  <2>1. eps'[r].state = "none"
    BY <1>2 DEF NoEp
  <2> QED
    BY <1>2, <1>3, <2>1, FollowsIfOne
<1>6. \A q \in Replicas : SameReplica(q)
  BY <1>2, <1>3 DEF SameReplica
<1>7. \A q \in Replicas : ~Published(q)
  BY <1>1, <1>2, TimesTyped DEF Published, NoEp, Endpoint
<1> QED
  BY <1>4, <1>5, <1>6, <1>7 DEF TablesMild

LEMMA RenewMild ==
  ASSUME Inv, NEW r \in Replicas, NEW expected, NEW new \in Time, Renewable(r, expected, new), Renew(r, new)
  PROVE  TablesMild
<1>1. reps \in [Replicas -> Row] /\ eps \in [Replicas -> Endpoint] /\ EndpointFollowsRow
      /\ reps[r] \in Row /\ eps[r] \in Endpoint
  BY DEF Inv, TypeOK
<1>2. /\ \A q \in Replicas \ {r} : reps'[q] = reps[q] /\ eps'[q] = eps[q]
      /\ reps'[r] = [reps[r] EXCEPT !.until = new]
      /\ eps'[r] = IF eps[r].state = "none" THEN eps[r] ELSE [eps[r] EXCEPT !.until = new]
  BY <1>1 DEF Renew
<1>3. /\ reps'[r] \in Row /\ reps'[r].until = new /\ reps'[r].node = reps[r].node
      /\ reps'[r].gen = reps[r].gen /\ reps'[r].state = reps[r].state
  BY <1>1, <1>2 DEF Row
<1>4. eps'[r] \in Endpoint /\ eps'[r].state = eps[r].state /\ (eps[r].state # "none" => eps'[r].until = new)
  BY <1>1, <1>2 DEF Endpoint
<1>5. reps' \in [Replicas -> Row] /\ eps' \in [Replicas -> Endpoint]
  BY <1>1, <1>3, <1>4 DEF Renew
<1>6. EndpointFollowsRow'
  <2>1. /\ eps'[r].state # "none" => eps'[r].state = reps'[r].state /\ eps'[r].until = reps'[r].until
        /\ reps'[r].state = "ready" => eps'[r].state = "ready"
    BY <1>1, <1>3, <1>4 DEF EndpointFollowsRow
  <2> QED
    BY <1>2, <2>1, FollowsIfOne
<1>7. \A q \in Replicas : SameReplica(q)
  BY <1>2, <1>3 DEF SameReplica, Renewable
<1>8. ASSUME NEW q \in Replicas, Published(q) PROVE Servable(q)
  <2>1. eps[q].until \in Nat
    BY <1>1, TimesTyped DEF Endpoint
  <2>2. q = r
    BY <1>2, <1>8, <2>1 DEF Published
  <2> QED
    BY <2>2 DEF Servable, Assigned, Renewable, Active
<1> QED
  BY <1>5, <1>6, <1>7, <1>8 DEF TablesMild

-----------------------------------------------------------------------------
(* Agents. *)

LEMMA OneAgent ==
  ASSUME Inv, NEW n \in Nodes, NEW a \in Agent, SetAgent(n, a), GoodAgent(n, a), a.pc # "down",
         Up(n) \/ a.pc = "on"
  PROVE  AgentsMild
<1>1. agents \in [Nodes -> Agent] /\ \A m \in Nodes : GoodAgent(m, agents[m])
  BY DEF Inv, TypeOK
<1>2. agents'[n] = a /\ \A m \in Nodes \ {n} : agents'[m] = agents[m]
  BY <1>1 DEF SetAgent
<1>3. agents' \in [Nodes -> Agent]
  BY <1>1 DEF SetAgent
<1> QED
  BY <1>1, <1>2, <1>3 DEF AgentsMild, Up

LEMMA AgentTyped ==
  ASSUME Inv, NEW n \in Nodes
  PROVE  agents[n] \in Agent /\ GoodAgent(n, agents[n])
  BY DEF Inv, TypeOK

(* The agent does the next thing for its replica, ... *)
LEMMA StepMild ==
  ASSUME Inv, NEW n \in Nodes, NEW pc \in VisitPCs \cup FencedPCs, Step(n, pc),
         agents[n].pc \in FencedPCs \/ (agents[n].pc \in VisitPCs /\ pc \in VisitPCs)
  PROVE  AgentsMild
<1> DEFINE a == [agents[n] EXCEPT !.pc = pc]
<1>1. agents[n] \in Agent /\ GoodAgent(n, agents[n]) /\ Up(n)
  BY AgentTyped DEF Up, VisitPCs, FencedPCs
<1>2. /\ a \in Agent /\ a.pc = pc /\ a.todo = agents[n].todo /\ a.r = agents[n].r /\ a.facts = agents[n].facts /\ pc # "down"
      /\ pc # "visit"
  BY <1>1 DEF Agent, AgentPCs, VisitPCs, FencedPCs
<1>3. GoodAgent(n, a)
  BY <1>1, <1>2 DEF GoodAgent, VisitPCs, FencedPCs
<1> QED
  BY <1>1, <1>2, <1>3, OneAgent DEF Step

LEMMA DoneTyped ==
  ASSUME NEW a \in Agent, NEW r \in Replicas, NEW ok \in BOOLEAN
  PROVE  /\ Done(a, r, ok) \in Agent /\ Done(a, r, ok).pc = "visit" /\ Done(a, r, ok).todo = a.todo
         /\ \A q \in Replicas : Done(a, r, ok).facts[q] = IF q = r THEN NoRow ELSE a.facts[q]
<1> DEFINE d == Done(a, r, ok)
<1>1. [a.facts EXCEPT ![r] = NoRow] \in [Replicas -> Row]
  BY TimesTyped DEF Agent, NoRow, Row, States
<1>2. d = [a EXCEPT !.pc = "visit", !.r = NoReplica, !.facts = [a.facts EXCEPT ![r] = NoRow],
                    !.err = a.err \/ ~ok]
  BY DEF Done
<1>3. d \in Agent
  BY <1>1, <1>2 DEF Agent, AgentPCs
<1>4. d.pc = "visit" /\ d.todo = a.todo /\ d.facts = [a.facts EXCEPT ![r] = NoRow]
  BY <1>2 DEF Agent
<1> QED
  BY <1>3, <1>4 DEF Agent

(* ... or turns to the next replica. *)
LEMMA DoneGood ==
  ASSUME Inv, NEW n \in Nodes, NEW a \in Agent, NEW r \in Replicas, NEW ok \in BOOLEAN,
         \A q \in Replicas : a.facts[q].state # "absent" => reps[q].node = n,
         \A q \in a.todo : a.facts[q].state # "absent",
         r \notin a.todo
  PROVE  GoodAgent(n, Done(a, r, ok))
<1>1. /\ Done(a, r, ok).pc = "visit" /\ Done(a, r, ok).todo = a.todo
      /\ \A q \in Replicas : Done(a, r, ok).facts[q] = IF q = r THEN NoRow ELSE a.facts[q]
  BY DoneTyped
<1>2. a.todo \subseteq Replicas
  BY DEF Agent
<1> QED
  BY <1>1, <1>2 DEF GoodAgent, NoRow, VisitPCs, FencedPCs

LEMMA SettledMild ==
  ASSUME Inv, NEW n \in Nodes, NEW ok \in BOOLEAN, Settled(n, ok),
         agents[n].pc \in VisitPCs \cup FencedPCs
  PROVE  AgentsMild
<1> DEFINE a == agents[n]
<1>1. a \in Agent /\ GoodAgent(n, a) /\ Up(n) /\ a.r \in Replicas
  BY AgentTyped DEF Up, VisitPCs, FencedPCs, GoodAgent
<1>2. GoodAgent(n, Done(a, a.r, ok)) /\ Done(a, a.r, ok) \in Agent /\ Done(a, a.r, ok).pc = "visit"
  BY <1>1, DoneGood, DoneTyped DEF GoodAgent
<1> QED
  BY <1>1, <1>2, OneAgent DEF Settled

-----------------------------------------------------------------------------
(* Handlers. *)

LEMMA HandlerTyped ==
  ASSUME Inv, NEW h \in Handlers
  PROVE  hs[h] \in Handler /\ GoodHandler(hs[h])
  BY DEF Inv, TypeOK

LEMMA OneHandler ==
  ASSUME Inv, NEW h \in Handlers, NEW x \in Handler, SetH(h, x), GoodHandler(x)
  PROVE  HandlersMild /\ hs'[h] = x /\ \A k \in Handlers \ {h} : hs'[k] = hs[k]
<1>1. hs \in [Handlers -> Handler] /\ \A k \in Handlers : GoodHandler(hs[k])
  BY DEF Inv, TypeOK
<1>2. hs'[h] = x /\ (\A k \in Handlers \ {h} : hs'[k] = hs[k]) /\ hs' \in [Handlers -> Handler]
  BY <1>1 DEF SetH
<1> QED
  BY <1>1, <1>2 DEF HandlersMild

(* A handler goes on. *)
LEMMA HandlerOn ==
  ASSUME Inv, NEW h \in Handlers, NEW x \in Handler, SetH(h, x), GoodHandler(x), x.pc # "idle",
         x.live = hs[h].live, UNCHANGED pass
  PROVE  HandlersMild /\ PassMild
<1>1. HandlersMild /\ hs'[h] = x /\ \A k \in Handlers \ {h} : hs'[k] = hs[k]
  BY OneHandler
<1>2. LiveWaits'
  BY <1>1 DEF Inv, LiveWaits
<1> QED
  BY <1>1, <1>2 DEF PassMild, Inv, TypeOK

LEMMA GotoMild ==
  ASSUME Inv, NEW h \in Handlers, NEW pc \in StartPCs \cup StopPCs, Goto(h, pc), UNCHANGED pass,
         hs[h].pc \notin {"idle", "enter", "read"} \/ (hs[h].pc = "enter" /\ pc = "read")
  PROVE  HandlersMild /\ PassMild
<1> DEFINE x == [hs[h] EXCEPT !.pc = pc]
<1>1. hs[h] \in Handler /\ GoodHandler(hs[h])
  BY HandlerTyped
<1>2. x \in Handler /\ x.pc = pc /\ x.r = hs[h].r /\ x.live = hs[h].live /\ pc # "idle"
  BY <1>1 DEF Handler, StartPCs, StopPCs
<1>3. GoodHandler(x)
  BY <1>1, <1>2 DEF GoodHandler
<1>4. SetH(h, x)
  BY DEF Goto, SetH, Inv, TypeOK
<1> QED
  BY <1>2, <1>3, <1>4, HandlerOn

LEMMA FailingMild ==
  ASSUME Inv, NEW h \in Handlers, NEW clean \in BOOLEAN, NEW result \in {"ok", "stale", "error"},
         Failing(h, clean, result), UNCHANGED pass, hs[h].pc \notin {"idle", "enter", "read"}
  PROVE  HandlersMild /\ PassMild
<1> DEFINE x == [hs[h] EXCEPT !.pc = "fail", !.clean = clean, !.result = result]
<1>1. hs[h] \in Handler /\ GoodHandler(hs[h])
  BY HandlerTyped
<1>2. x \in Handler /\ x.pc = "fail" /\ x.r = hs[h].r /\ x.live = hs[h].live
  BY <1>1 DEF Handler, StartPCs, StopPCs
<1>3. GoodHandler(x)
  BY <1>1, <1>2 DEF GoodHandler
<1> QED
  BY <1>2, <1>3, HandlerOn DEF Failing

-----------------------------------------------------------------------------
(* The pass. *)

LEMMA NoPassGood == ASSUME Inv PROVE NoPass \in Pass /\ GoodPass(NoPass) /\ NoPass.pc = "idle"
<1>1. NoPass \in Pass
  BY TimesTyped DEF NoPass, Pass, NoNodes, NoNodeRow, NodeRow, NoRows, NoRow, Row, States
<1>2. Reads(NoPass)
  <2>1. now \in Nat /\ want.gen \in Nat /\ want.gen >= 1
    BY DEF Inv, TypeOK
  <2>2. \A n \in Nodes : nodes[n].gen \in Nat /\ nodes[n].lease \in Nat
    BY TimesTyped DEF Inv, TypeOK, NodeRow
  <2> QED
    BY <2>1, <2>2 DEF Reads, NoPass, NoNodes, NoNodeRow, NoRows, NoRow
<1> QED
  BY <1>1, <1>2 DEF GoodPass, NoPass

LEMMA PassTyped == ASSUME Inv PROVE pass \in Pass /\ GoodPass(pass) /\ Reads(pass)
  BY DEF Inv, TypeOK, GoodPass

LEMMA SkipGood ==
  ASSUME Inv, NEW r \in Replicas
  PROVE  /\ Skip(r) \in Pass /\ GoodPass(Skip(r)) /\ Skip(r).pc = "visit" /\ r \notin Skip(r).todo
         /\ Reads(Skip(r))
<1>1. pass \in Pass /\ Reads(pass)
  BY PassTyped
<1>2. [pass.rows EXCEPT ![r] = NoRow] \in [Replicas -> Row]
  BY <1>1, TimesTyped DEF Pass, NoRow, Row, States
<1>3. Skip(r) = [pass EXCEPT !.pc = "visit", !.todo = pass.todo \ {r}, !.retire = pass.retire \ {r},
                   !.rows = [pass.rows EXCEPT ![r] = NoRow], !.node = NoNodeRow, !.r = NoReplica]
  BY DEF Skip
<1>4. Skip(r) \in Pass
  <2>1. NoNodeRow \in NodeRow
    BY TimesTyped DEF NoNodeRow, NodeRow
  <2>2. pass.todo \ {r} \in SUBSET Replicas /\ pass.retire \ {r} \in SUBSET Replicas
    BY <1>1 DEF Pass
  <2> QED
    BY <1>1, <1>2, <1>3, <2>1, <2>2 DEF Pass
<1>5. /\ Skip(r).pc = "visit" /\ Skip(r).todo = pass.todo \ {r}
      /\ Skip(r).rows = [pass.rows EXCEPT ![r] = NoRow]
      /\ Skip(r).now = pass.now /\ Skip(r).nodes = pass.nodes /\ Skip(r).wish = pass.wish
      /\ Skip(r).want = pass.want
  BY <1>1, <1>3 DEF Pass
<1>6. /\ \A q \in Replicas : Skip(r).rows[q] \in {pass.rows[q], NoRow}
      /\ \A q \in Replicas \ {r} : Skip(r).rows[q] = pass.rows[q]
  BY <1>1, <1>5 DEF Pass
<1>7. Reads(Skip(r))
  <2>1. pass.todo \subseteq Replicas
    BY <1>1 DEF Pass
  <2>2. \A q \in pass.todo \ {r} : Skip(r).rows[q] = pass.rows[q]
    BY <1>6, <2>1
  <2> QED
    BY <1>1, <1>5, <1>6, <2>2 DEF Reads, NoRow
<1> QED
  BY <1>4, <1>5, <1>7 DEF GoodPass

LEMMA AfterGood ==
  ASSUME Inv, pass.pc = "wait", NEW result \in {"ok", "stale", "error"}
  PROVE  After(result) \in Pass /\ GoodPass(After(result))
<1>1. pass \in Pass /\ GoodPass(pass) /\ pass.r \in Replicas
  BY PassTyped DEF GoodPass
<1>2. CASE result = "ok"
  BY <1>1, <1>2, SkipGood DEF After
<1>3. CASE result = "error"
  BY <1>3, NoPassGood DEF After
<1>4. CASE result = "stale"
  <2> DEFINE p == [pass EXCEPT !.pc = "drop"]
  <2>1. After(result) = p
    BY <1>4 DEF After
  <2>2. /\ p \in Pass /\ p.pc = "drop" /\ p.r = pass.r /\ p.now = pass.now /\ p.nodes = pass.nodes
        /\ p.wish = pass.wish /\ p.want = pass.want /\ p.rows = pass.rows /\ p.todo = pass.todo
    BY <1>1 DEF Pass
  <2> QED
    BY <1>1, <2>1, <2>2 DEF GoodPass, Reads
<1> QED
  BY <1>2, <1>3, <1>4

LEMMA NoHTyped == NoH \in Handler
  BY TimesTyped DEF NoH, Handler, States

LEMMA ReturnMild ==
  ASSUME Inv, NEW h \in Handlers, NEW result \in {"ok", "stale", "error"}, Return(h, result)
  PROVE  HandlersMild /\ PassMild
<1>1. SetH(h, NoH) /\ pass' = IF hs[h].live THEN After(result) ELSE pass
  BY DEF Return, SetPass
<1>2. GoodHandler(NoH) /\ NoH \in Handler /\ ~NoH.live
  BY NoHTyped DEF GoodHandler, NoH
<1>3. HandlersMild /\ hs'[h] = NoH /\ \A k \in Handlers \ {h} : hs'[k] = hs[k]
  BY <1>1, <1>2, OneHandler
<1>4. CASE hs[h].live
  <2>1. pass' \in Pass /\ GoodPass(pass')
    BY <1>1, <1>4, AfterGood DEF Inv, LiveWaits
  <2>2. \A k \in Handlers : ~hs'[k].live
    BY <1>2, <1>3, <1>4 DEF Inv, LiveWaits
  <2> QED
    BY <1>3, <2>1, <2>2 DEF PassMild, LiveWaits
<1>5. CASE ~hs[h].live
  <2>1. pass' = pass /\ \A k \in Handlers : hs'[k].live => hs[k].live /\ hs'[k].pc = hs[k].pc
    BY <1>1, <1>2, <1>3, <1>5
  <2> QED
    BY <1>3, <2>1, PassTyped DEF PassMild, LiveWaits, Inv
<1> QED
  BY <1>4, <1>5

(* The pass moves while it waits for nobody. *)
LEMMA PassTo ==
  ASSUME Inv, NEW p \in Pass, GoodPass(p), SetPass(p), UNCHANGED hs, pass.pc # "wait"
  PROVE  PassMild
  BY DEF SetPass, PassMild, LiveWaits, Inv

-----------------------------------------------------------------------------
(* Nodes and processes. *)

LEMMA OneNode ==
  ASSUME Inv, NEW n \in Nodes, NEW row \in NodeRow, SetNode(n, row),
         \/ /\ row.gen = nodes[n].gen
            /\ \/ row.lease = nodes[n].lease
               \/ row.lease >= nodes[n].lease /\ NodeLive(n)
               \/ row.lease <= now
         \/ ~Up(n) /\ row.gen > nodes[n].gen
  PROVE  NodesMild
<1>1. nodes \in [Nodes -> NodeRow]
  BY DEF Inv, TypeOK
<1>2. nodes'[n] = row /\ (\A m \in Nodes \ {n} : nodes'[m] = nodes[m]) /\ nodes' \in [Nodes -> NodeRow]
  BY <1>1 DEF SetNode
<1> QED
  BY <1>2 DEF NodesMild, NodeStep

LEMMA OneProc ==
  ASSUME Inv, NEW r \in Replicas, NEW p \in ProcStates, SetProc(r, p), GoodProc(r, p)
  PROVE  ProcsMild
<1>1. procs \in [Replicas -> ProcStates]
  BY DEF Inv, TypeOK
<1>2. procs'[r] = p /\ (\A q \in Replicas \ {r} : procs'[q] = procs[q]) /\ procs' \in [Replicas -> ProcStates]
  BY <1>1 DEF SetProc
<1> QED
  BY <1>2 DEF ProcsMild, Inv

LEMMA IdleGood ==
  ASSUME NEW n \in Nodes, NEW pc \in {"down", "on"}
  PROVE  Idle(pc) \in Agent /\ GoodAgent(n, Idle(pc)) /\ Idle(pc).pc = pc
<1>1. NoRows \in [Replicas -> Row] /\ NoProcs \in [Replicas -> ProcStates]
  BY TimesTyped DEF NoRows, NoRow, Row, States, NoProcs, ProcStates
<1>2. Idle(pc) \in Agent
  BY <1>1, TimesTyped DEF Idle, Agent, AgentPCs
<1>3. \A r \in Replicas : NoRows[r].state = "absent"
  BY DEF NoRows, NoRow
<1> QED
  BY <1>2, <1>3 DEF GoodAgent, Idle, VisitPCs, FencedPCs

LEMMA DownMild ==
  ASSUME Inv, NEW n \in Nodes, Down(n)
  PROVE  ProcsMild /\ HandlersMild /\ AgentsMild /\ PassMild
<1>1. /\ \A r \in Replicas : procs'[r] = IF reps[r].node = n THEN "none" ELSE procs[r]
      /\ procs' \in [Replicas -> ProcStates]
  BY DEF Down, Inv, TypeOK, ProcStates
<1>2. ProcsMild
  BY <1>1 DEF ProcsMild, GoodProc, Inv
<1>3. ASSUME NEW h \in Handlers
      PROVE  /\ hs'[h] \in Handler /\ GoodHandler(hs'[h])
             /\ hs'[h].live => hs[h].live /\ pass' # NoPass
             /\ hs'[h].pc # "idle" => hs'[h].pc = hs[h].pc /\ reps[hs'[h].r].node # n
             /\ hs'[h].live => hs'[h].pc # "idle"
  <2> DEFINE x == [hs[h] EXCEPT !.live = @ /\ pass' # NoPass]
  <2>1. hs[h] \in Handler /\ GoodHandler(hs[h])
    BY HandlerTyped
  <2>2. CASE h \in HandlersOf(n)
    <3>1. hs'[h] = NoH
      BY <2>2 DEF Down
    <3> QED
      BY <3>1, NoHTyped DEF GoodHandler, NoH
  <2>3. CASE h \notin HandlersOf(n)
    <3>1. hs'[h] = x
      BY <2>3 DEF Down
    <3>2. x \in Handler /\ x.pc = hs[h].pc /\ x.r = hs[h].r /\ (x.live <=> hs[h].live /\ pass' # NoPass)
      BY <2>1 DEF Handler
    <3>3. hs[h].pc # "idle" => reps[hs[h].r].node # n
      BY <2>1, <2>3, SetsAssumption DEF GoodHandler, HandlersOf
    <3>4. hs[h].live => hs[h].pc # "idle"
      BY DEF Inv, LiveWaits
    <3> QED
      BY <2>1, <3>1, <3>2, <3>3, <3>4 DEF GoodHandler
  <2> QED
    BY <2>2, <2>3
<1>4. HandlersMild
  <2>1. hs' \in [Handlers -> Handler]
    BY <1>3 DEF Down
  <2> QED
    BY <1>3, <2>1 DEF HandlersMild
<1>5. Emptied(n)
  BY <1>1, <1>3 DEF Emptied
<1>6. AgentsMild
  <2>1. agents \in [Nodes -> Agent] /\ \A m \in Nodes : GoodAgent(m, agents[m])
    BY DEF Inv, TypeOK
  <2>2. Idle("down") \in Agent /\ GoodAgent(n, Idle("down")) /\ Idle("down").pc = "down"
    BY IdleGood
  <2>3. /\ agents' \in [Nodes -> Agent] /\ agents'[n] = Idle("down")
        /\ \A m \in Nodes \ {n} : agents'[m] = agents[m]
    BY <2>1, <2>2 DEF Down, SetAgent
  <2> QED
    BY <2>1, <2>2, <2>3, <1>5 DEF AgentsMild, Up
<1>7. PassMild
  <2>1. pass' \in Pass /\ GoodPass(pass') /\ pass' \in {pass, NoPass}
    BY NoPassGood, PassTyped DEF Down
  <2> QED
    BY <1>3, <2>1 DEF PassMild, LiveWaits, Inv
<1> QED
  BY <1>2, <1>4, <1>6, <1>7

LEMMA LeaveMild ==
  ASSUME Inv, NEW n \in Nodes, Leave(n)
  PROVE  NodesMild /\ ProcsMild /\ HandlersMild /\ AgentsMild /\ PassMild
<1> DEFINE row == [nodes[n] EXCEPT !.lease = IF NodeLive(n) THEN now ELSE @]
<1>1. nodes[n] \in NodeRow /\ now \in Time /\ now \in Nat
  BY TimesTyped DEF Inv, TypeOK
<1>2. row \in NodeRow /\ row.gen = nodes[n].gen /\ row.lease \in {now, nodes[n].lease}
  BY <1>1 DEF NodeRow
<1>3. SetNode(n, row)
  BY DEF Leave, SetNode, Inv, TypeOK
<1>4. NodesMild
  <2> HIDE DEF row
  <2>1. row.lease = nodes[n].lease \/ row.lease <= now
    BY <1>1, <1>2
  <2> QED
    BY <1>2, <1>3, <2>1, OneNode
<1> QED
  BY <1>4, DownMild DEF Leave

-----------------------------------------------------------------------------
(* The actions. *)

LEMMA ActivateMild == ASSUME Inv, NEW n \in Nodes, Activate(n) PROVE Mild
<1> DEFINE row == [gen |-> nodes[n].gen + 1, lease |-> now + LeaseTicks, cordoned |-> FALSE]
           a == [Idle("on") EXCEPT !.boots = TRUE]
<1>1. nodes[n].gen \in Nat /\ row \in NodeRow
  BY TimesTyped DEF Inv, TypeOK, NodeRow
<1>2. NodesMild
  BY <1>1, OneNode DEF Activate, Up
<1>3. a \in Agent /\ GoodAgent(n, a) /\ a.pc = "on"
  <2>1. Idle("on") \in Agent /\ GoodAgent(n, Idle("on")) /\ Idle("on").pc = "on"
    BY IdleGood
  <2>2. a \in Agent /\ a.pc = "on" /\ a.facts = Idle("on").facts
    BY <2>1 DEF Agent
  <2> QED
    BY <2>1, <2>2 DEF GoodAgent, VisitPCs, FencedPCs
<1>4. AgentsMild
  BY <1>3, OneAgent DEF Activate
<1> QED
  BY <1>2, <1>4, StayMild, FaultTyped DEF Activate, Mild

LEMMA HeartbeatMild == ASSUME Inv, NEW n \in Nodes, Heartbeat(n) PROVE Mild
<1> DEFINE row == [nodes[n] EXCEPT !.lease = now + LeaseTicks]
<1>1. nodes[n] \in NodeRow /\ now + LeaseTicks \in Time /\ now + LeaseTicks \in Nat /\ nodes[n].lease \in Nat
  BY TimesTyped DEF Inv, TypeOK, NodeRow
<1>2. row \in NodeRow /\ row.gen = nodes[n].gen /\ row.lease = now + LeaseTicks
  BY <1>1 DEF NodeRow
<1>3. NodesMild
  <2>1. row.lease >= nodes[n].lease /\ NodeLive(n) /\ SetNode(n, row)
    BY <1>1, <1>2 DEF Heartbeat
  <2> HIDE DEF row
  <2> QED
    BY <1>2, <2>1, OneNode
<1> QED
  BY <1>3, StayMild, AgentsStay, FaultTyped DEF Heartbeat, Mild

LEMMA CordonMild == ASSUME Inv, NEW n \in Nodes, Cordon(n) PROVE Mild
<1> DEFINE row == [nodes[n] EXCEPT !.cordoned = TRUE]
<1>1. row \in NodeRow /\ row.gen = nodes[n].gen /\ row.lease = nodes[n].lease
  BY DEF Inv, TypeOK, NodeRow
<1>2. NodesMild
  BY <1>1, OneNode DEF Cordon
<1> QED
  BY <1>2, StayMild, AgentsStay, FaultTyped DEF Cordon, Mild

LEMMA AgentEndsMild ==
  ASSUME Inv, NEW n \in Nodes, HeartbeatLost(n) \/ Crash(n) \/ Shutdown(n)
  PROVE  Mild
<1>1. CASE HeartbeatLost(n) \/ Crash(n)
  BY <1>1, DownMild, StayMild, FaultTyped DEF HeartbeatLost, Crash, Mild, registry
<1>2. CASE Shutdown(n)
  BY <1>2, LeaveMild, StayMild, FaultTyped DEF Shutdown, Mild
<1> QED
  BY <1>1, <1>2

LEMMA NodalMild == ASSUME Inv, NEW n \in Nodes, Nodal(n) PROVE Mild
  BY ActivateMild, HeartbeatMild, CordonMild, AgentEndsMild DEF Nodal

LEMMA ProcessMild == ASSUME Inv, NEW r \in Replicas, ProcessFails(r) \/ ProcessSettles(r) PROVE Mild
<1>1. procs[r] # "none" /\ GoodProc(r, procs[r])
  BY DEF ProcessFails, ProcessSettles, Inv
<1>2. \A p \in ProcStates : GoodProc(r, p)
  BY <1>1 DEF GoodProc
<1>3. \E p \in ProcStates : SetProc(r, p)
  BY DEF ProcessFails, ProcessSettles, ProcStates
<1>4. ProcsMild
  BY <1>2, <1>3, OneProc
<1> QED
  BY <1>4, StayMild, AgentsStay, FaultTyped DEF ProcessFails, ProcessSettles, Mild, registry

LEMMA TickMild == ASSUME Inv, Tick PROVE Mild
<1>1. RestMild
  BY BoundsAssumption DEF Tick, Inv, TypeOK, RestMild, registry
<1> QED
  BY <1>1, StayMild, AgentsStay DEF Tick, Mild, registry

LEMMA WishMild == ASSUME Inv, Wish PROVE Mild
<1>1. RestMild
  BY FaultTyped DEF Wish, Inv, TypeOK, RestMild
<1> QED
  BY <1>1, StayMild, AgentsStay DEF Wish, Mild

LEMMA LaneMild == ASSUME Inv, NEW r \in Replicas, LaneRenews(r) PROVE Mild
<1> DEFINE new == nodes[reps[r].node].lease
<1>1. reps[r].node \in Nodes
  BY DEF LaneRenews, Inv, TypeOK, Row, GoodRow, Active
<1>2. new \in Time
  BY <1>1 DEF Inv, TypeOK, NodeRow
<1>3. TablesMild
  BY <1>2, RenewMild DEF LaneRenews
<1> QED
  BY <1>3, StayMild, AgentsStay, FaultTyped DEF LaneRenews, Mild

LEMMA OneCommand ==
  ASSUME Inv, NEW r \in Replicas, NEW c \in Command, cmds' = [cmds EXCEPT ![r] = c],
         UNCHANGED <<now, want>>, faults' \in 0 .. MaxFaults
  PROVE  RestMild
  BY DEF Inv, TypeOK, RestMild

LEMMA RenewCommandMild == ASSUME Inv, NEW h \in Handlers, RenewCommand(h) PROVE Mild
<1> DEFINE r == hs[h].r
           c == [cmds[r] EXCEPT !.lease = now + CommandTicks]
<1>1. r \in Replicas
  BY HandlerTyped DEF RenewCommand, GoodHandler, StartPCs
<1>2. c \in Command
  BY <1>1, TimesTyped DEF Inv, TypeOK, Command
<1>3. cmds' = [cmds EXCEPT ![r] = c]
  BY <1>1 DEF RenewCommand, Inv, TypeOK
<1>4. RestMild
  BY <1>1, <1>2, <1>3, OneCommand, FaultTyped DEF RenewCommand
<1> QED
  BY <1>4, StayMild, AgentsStay DEF RenewCommand, Mild

-----------------------------------------------------------------------------
(* The reconciliation of a node. *)

LEMMA AgentAtWork ==
  ASSUME Inv, NEW n \in Nodes, agents[n].pc \in VisitPCs \cup FencedPCs
  PROVE  /\ agents[n].r \in Replicas /\ reps[agents[n].r].node = n /\ Attended(agents[n].r)
         /\ reps[agents[n].r].state # "absent"
         /\ agents[n].pc \in FencedPCs => Current(agents[n].r)
<1>1. /\ agents[n].r \in Replicas /\ reps[agents[n].r].node = n
      /\ agents[n].pc \in FencedPCs => Current(agents[n].r)
  BY AgentTyped DEF GoodAgent
<1>2. GoodRow(agents[n].r) /\ n # NoNode
  BY <1>1, SetsAssumption DEF Inv
<1> QED
  BY <1>1, <1>2 DEF Attended, Up, GoodRow, VisitPCs, FencedPCs

LEMMA BeginsMild == ASSUME Inv, NEW n \in Nodes, ReconcileBegins(n) PROVE Mild
<1> DEFINE f == [r \in Replicas |-> IF r \in Here(n) THEN reps[r] ELSE NoRow]
           o == IF nodes[n].cordoned THEN 0 ELSE nodes[n].lease
           a == [agents[n] EXCEPT !.pc = "list", !.open = o, !.facts = f]
<1>1. f \in [Replicas -> Row] /\ \A r \in Replicas : f[r].state # "absent" => reps[r].node = n
  BY TimesTyped DEF Inv, TypeOK, Here, NoRow, Row, States
<1>2. o \in Time
  BY TimesTyped DEF Inv, TypeOK, NodeRow
<1>3. a \in Agent /\ a.pc = "list" /\ a.facts = f
  <2> HIDE DEF f, o
  <2> QED
    BY <1>1, <1>2, AgentTyped DEF Agent, AgentPCs
<1>4. GoodAgent(n, a)
  <2> HIDE DEF f, a
  <2> QED
    BY <1>1, <1>3 DEF GoodAgent, VisitPCs, FencedPCs
<1>5. SetAgent(n, a) /\ Up(n)
  BY DEF ReconcileBegins, Up
<1>6. AgentsMild
  <2> HIDE DEF a
  <2> QED
    BY <1>3, <1>4, <1>5, OneAgent
<1> QED
  BY <1>6, StayMild, FaultTyped DEF ReconcileBegins, Mild, registry

LEMMA ListsMild == ASSUME Inv, NEW n \in Nodes, ReconcileLists(n) PROVE Mild
<1> DEFINE t == {r \in Here(n) : procs[r] # "none"}
           a == [agents[n] EXCEPT !.pc = "lock", !.todo = t]
<1>1. t \in SUBSET Replicas
  BY DEF Here
<1>2. agents[n] \in Agent /\ GoodAgent(n, agents[n])
  BY AgentTyped
<1>3. a \in Agent /\ a.pc = "lock" /\ a.facts = agents[n].facts
  <2> HIDE DEF t
  <2> QED
    BY <1>1, <1>2 DEF Agent, AgentPCs
<1>4. SetAgent(n, a) /\ Up(n)
  BY DEF ReconcileLists, Up
<1>5. AgentsMild
  <2> HIDE DEF a
  <2>1. GoodAgent(n, a)
    BY <1>2, <1>3 DEF GoodAgent, VisitPCs, FencedPCs
  <2> QED
    BY <2>1, <1>3, <1>4, OneAgent
<1> QED
  BY <1>5, StayMild, FaultTyped DEF ReconcileLists, Mild, registry

LEMMA LooksMild == ASSUME Inv, NEW n \in Nodes, ReconcileLooks(n) PROVE Mild
<1> DEFINE a == agents[n]
           i == [r \in Replicas |-> IF r \in a.todo THEN procs[r] ELSE "none"]
           seen == [a EXCEPT !.open = 0, !.inv = i]
           there == {r \in Replicas : a.facts[r].state # "absent"}
           live == {r \in Replicas : a.facts[r].state \in Active}
           b1 == [seen EXCEPT !.pc = "visit", !.todo = there]
           b2 == [seen EXCEPT !.pc = "offline", !.todo = live]
<1>1. a \in Agent /\ GoodAgent(n, a)
  BY AgentTyped
<1>2. i \in [Replicas -> ProcStates]
  BY DEF Inv, TypeOK, ProcStates
<1>3. seen \in Agent /\ seen.facts = a.facts
  <2> HIDE DEF i
  <2> QED
    BY <1>1, <1>2, TimesTyped DEF Agent
<1>4. /\ b1 \in Agent /\ b1.pc = "visit" /\ b1.todo = there /\ b1.facts = a.facts
      /\ b2 \in Agent /\ b2.pc = "offline" /\ b2.facts = a.facts
  <2>1. there \in SUBSET Replicas /\ live \in SUBSET Replicas
    OBVIOUS
  <2> HIDE DEF seen, there, live, a
  <2> QED
    BY <1>3, <2>1 DEF Agent, AgentPCs
<1>5. GoodAgent(n, b1) /\ GoodAgent(n, b2)
  <2>1. \A r \in there : a.facts[r].state # "absent"
    OBVIOUS
  <2> HIDE DEF b1, b2, there
  <2> QED
    BY <1>1, <1>4, <2>1 DEF GoodAgent, VisitPCs, FencedPCs
<1>6. (SetAgent(n, b1) \/ SetAgent(n, b2)) /\ Up(n)
  BY DEF ReconcileLooks, Up
<1>7. AgentsMild
  <2> HIDE DEF b1, b2
  <2> QED
    BY <1>4, <1>5, <1>6, OneAgent
<1> QED
  BY <1>7, StayMild, FaultTyped DEF ReconcileLooks, Mild, registry

LEMMA OfflineMild == ASSUME Inv, NEW n \in Nodes, ReconcileOffline(n) PROVE Mild
<1> DEFINE a == agents[n]
<1>1. a \in Agent /\ GoodAgent(n, a) /\ a.pc = "offline"
  BY AgentTyped DEF ReconcileOffline
<1>2. ASSUME NEW r \in a.todo, Terminalize(r, "stopped"), SetAgent(n, [a EXCEPT !.todo = @ \ {r}])
      PROVE  TablesMild /\ AgentsMild
  <2>1. PICK b : b = [a EXCEPT !.todo = @ \ {r}]
    OBVIOUS
  <2>2. b \in Agent /\ b.pc = "offline" /\ b.facts = a.facts
    BY <1>1, <2>1 DEF Agent
  <2>3. GoodAgent(n, b)
    BY <1>1, <2>2 DEF GoodAgent, VisitPCs, FencedPCs
  <2>4. AgentsMild
    BY <1>1, <1>2, <2>1, <2>2, <2>3, OneAgent DEF Up
  <2>5. r \in Replicas
    BY <1>1 DEF Agent
  <2> QED
    BY <1>2, <2>4, <2>5, TerminalizeMild DEF Terminal
<1>3. CASE \E r \in a.todo : Terminalize(r, "stopped") /\ SetAgent(n, [a EXCEPT !.todo = @ \ {r}])
           /\ UNCHANGED <<nodes, procs, hs, pass>>
  BY <1>2, <1>3, StayMild, FaultTyped DEF ReconcileOffline, Mild
<1>4. CASE a.todo = {} /\ Leave(n) /\ UNCHANGED <<reps, eps>>
  BY <1>4, LeaveMild, StayMild, FaultTyped DEF ReconcileOffline, Mild
<1> QED
  BY <1>3, <1>4 DEF ReconcileOffline

LEMMA TerminalizesMild == ASSUME Inv, NEW n \in Nodes, ReconcileTerminalizes(n) PROVE Mild
<1>1. agents[n].pc \in VisitPCs /\ "stop" \in VisitPCs /\ agents[n].r \in Replicas
  BY AgentAtWork DEF ReconcileTerminalizes, VisitPCs
<1>2. AgentsMild /\ TablesMild
  BY <1>1, StepMild, TerminalizeMild DEF ReconcileTerminalizes, Terminal
<1> QED
  BY <1>2, StayMild, FaultTyped DEF ReconcileTerminalizes, Mild

LEMMA StopsMild == ASSUME Inv, NEW n \in Nodes, ReconcileStops(n) PROVE Mild
<1> DEFINE r == agents[n].r
<1>1. /\ agents[n].pc \in {"stop", "stopdead", "stopbad"} /\ agents[n].pc \in VisitPCs \cup FencedPCs
      /\ r \in Replicas
  BY AgentAtWork DEF ReconcileStops, VisitPCs, FencedPCs
<1>2. AgentsMild
  <2>1. CASE agents[n].pc = "stop"
    BY <1>1, <2>1, SettledMild DEF ReconcileStops
  <2>2. CASE agents[n].pc = "stopdead"
    BY <1>1, <2>2, StepMild DEF ReconcileStops, FencedPCs
  <2>3. CASE agents[n].pc = "stopbad"
    BY <1>1, <2>3, StepMild DEF ReconcileStops, FencedPCs
  <2> QED
    BY <1>1, <2>1, <2>2, <2>3
<1>3. ProcsMild
  <2>1. PICK p : SetProc(r, p) /\ p \in {"none", procs[r]}
    BY DEF ReconcileStops
  <2>2. p \in ProcStates /\ GoodProc(r, p)
    BY <1>1, <2>1 DEF Inv, TypeOK, GoodProc, ProcStates
  <2> QED
    BY <1>1, <2>1, <2>2, OneProc
<1> QED
  BY <1>2, <1>3, StayMild, FaultTyped DEF ReconcileStops, Mild, registry

LEMMA RecordsStoppedMild == ASSUME Inv, NEW n \in Nodes, ReconcileRecordsStopped(n) PROVE Mild
<1>1. agents[n].pc \in FencedPCs /\ agents[n].r \in Replicas
  BY AgentAtWork DEF ReconcileRecordsStopped, FencedPCs
<1>2. AgentsMild
  BY <1>1, SettledMild DEF ReconcileRecordsStopped
<1>3. TablesMild
  BY <1>1, RecordMild, StayMild DEF ReconcileRecordsStopped, States
<1> QED
  BY <1>2, <1>3, StayMild, FaultTyped DEF ReconcileRecordsStopped, Mild

(* The agent records a state and goes on. *)
LEMMA KnownGood ==
  ASSUME Inv, NEW n \in Nodes, agents[n].pc \in FencedPCs, NEW pc \in FencedPCs,
         NEW s \in States \ {"absent"},
         SetAgent(n, [agents[n] EXCEPT !.pc = pc, !.facts[agents[n].r].state = s])
  PROVE  AgentsMild
<1> DEFINE a == agents[n]
           f == [a.facts EXCEPT ![a.r].state = s]
           b == [a EXCEPT !.pc = pc, !.facts = f]
<1>1. a \in Agent /\ GoodAgent(n, a) /\ a.r \in Replicas /\ reps[a.r].node = n
  BY AgentTyped, AgentAtWork
<1>2. /\ f \in [Replicas -> Row] /\ \A r \in Replicas \ {a.r} : f[r] = a.facts[r]
      /\ a.todo \subseteq Replicas
  BY <1>1 DEF Agent, Row
<1>3. /\ b \in Agent /\ b.pc = pc /\ b.facts = f /\ b.r = a.r /\ b.todo = a.todo
      /\ pc # "down" /\ pc # "visit"
  <2> HIDE DEF f
  <2> QED
    BY <1>1, <1>2 DEF Agent, AgentPCs, FencedPCs
<1>4. GoodAgent(n, b)
  <2> HIDE DEF f, b
  <2> QED
    BY <1>1, <1>2, <1>3 DEF GoodAgent
<1>5. SetAgent(n, b) /\ Up(n)
  BY DEF Up, FencedPCs
<1> QED
  <2> HIDE DEF b
  <2> QED
    BY <1>3, <1>4, <1>5, OneAgent

LEMMA WithdrawsMild == ASSUME Inv, NEW n \in Nodes, ReconcileWithdraws(n) PROVE Mild
<1>1. agents[n].pc \in FencedPCs /\ agents[n].r \in Replicas
  BY AgentAtWork DEF ReconcileWithdraws, FencedPCs
<1>2. AgentsMild
  <2> DEFINE pc == IF agents[n].pc = "withdraw" THEN "restart" ELSE "stopbad"
  <2>1. CASE Terminable(agents[n].r, "failed")
    <3>1. pc \in FencedPCs /\ "failed" \in States \ {"absent"}
      BY DEF FencedPCs, States
    <3>2. SetAgent(n, [agents[n] EXCEPT !.pc = pc, !.facts[agents[n].r].state = "failed"])
      BY <2>1 DEF ReconcileWithdraws
    <3> HIDE DEF pc
    <3> QED
      BY <1>1, <3>1, <3>2, KnownGood
  <2>2. CASE ~Terminable(agents[n].r, "failed")
    BY <1>1, <2>2, SettledMild DEF ReconcileWithdraws
  <2> QED
    BY <2>1, <2>2
<1>3. TablesMild
  BY <1>1, TerminalizeMild DEF ReconcileWithdraws, Terminal
<1> QED
  BY <1>2, <1>3, StayMild, FaultTyped DEF ReconcileWithdraws, Mild

LEMMA RecordsStartingMild == ASSUME Inv, NEW n \in Nodes, ReconcileRecordsStarting(n) PROVE Mild
<1> DEFINE why == Refusal(agents[n].r, Known(n).until, "starting")
           onward == IF agents[n].pc = "restart" THEN "boot" ELSE "ready"
<1>1. agents[n].pc \in FencedPCs /\ agents[n].r \in Replicas /\ onward \in FencedPCs
  BY AgentAtWork DEF ReconcileRecordsStarting, FencedPCs
<1>2. \/ Settled(n, FALSE) /\ UNCHANGED <<reps, eps>>
      \/ Step(n, onward) /\ UNCHANGED <<reps, eps>>
      \/ /\ why = "none" /\ Observe(agents[n].r, "starting")
         /\ SetAgent(n, [agents[n] EXCEPT !.pc = onward, !.facts[agents[n].r].state = "starting"])
  <2>1. why \in {"none", "invalid", "stale", "expired"}
    BY DEF Refusal
  <2> HIDE DEF why
  <2> QED
    BY <2>1 DEF ReconcileRecordsStarting, why
<1>3. AgentsMild
  <2> HIDE DEF onward
  <2> QED
    <3>1. "starting" \in States \ {"absent"} /\ FALSE \in BOOLEAN
      BY DEF States
    <3>2. CASE Settled(n, FALSE)
      BY <1>1, <3>1, <3>2, SettledMild
    <3>3. CASE Step(n, onward)
      BY <1>1, <3>3, StepMild
    <3>4. CASE SetAgent(n, [agents[n] EXCEPT !.pc = onward, !.facts[agents[n].r].state = "starting"])
      BY <1>1, <3>1, <3>4, KnownGood
    <3> QED
      BY <1>2, <3>2, <3>3, <3>4
<1>4. TablesMild
  BY <1>1, <1>2, StayMild, RecordMild DEF States
<1> QED
  BY <1>3, <1>4, StayMild, FaultTyped DEF ReconcileRecordsStarting, Mild

LEMMA BootsMild == ASSUME Inv, NEW n \in Nodes, ReconcileBoots(n) \/ ReconcileGates(n) PROVE Mild
<1> DEFINE r == agents[n].r
<1>1. /\ agents[n].pc \in FencedPCs /\ {"gate", "ready", "starting", "giveup"} \subseteq FencedPCs
      /\ r \in Replicas /\ \A p \in ProcStates : GoodProc(r, p)
  BY AgentAtWork DEF ReconcileBoots, ReconcileGates, FencedPCs, GoodProc
<1>2. AgentsMild
  BY <1>1, StepMild DEF ReconcileBoots, ReconcileGates
<1>3. \E p \in ProcStates : SetProc(r, p)
  BY <1>1 DEF ReconcileBoots, ReconcileGates, ProcStates, Inv, TypeOK
<1>4. ProcsMild
  BY <1>1, <1>3, OneProc
<1> QED
  BY <1>2, <1>4, StayMild, FaultTyped DEF ReconcileBoots, ReconcileGates, Mild, registry

LEMMA GivesUpMild == ASSUME Inv, NEW n \in Nodes, ReconcileGivesUp(n) PROVE Mild
<1>1. agents[n].pc \in FencedPCs /\ agents[n].r \in Replicas
  BY AgentAtWork DEF ReconcileGivesUp, FencedPCs
<1>2. AgentsMild /\ TablesMild
  BY <1>1, SettledMild, TerminalizeMild DEF ReconcileGivesUp, Terminal
<1> QED
  BY <1>2, StayMild, FaultTyped DEF ReconcileGivesUp, Mild

LEMMA RecordsReadyMild == ASSUME Inv, NEW n \in Nodes, ReconcileRecordsReady(n) PROVE Mild
<1>1. agents[n].pc \in FencedPCs /\ agents[n].r \in Replicas
  BY AgentAtWork DEF ReconcileRecordsReady, FencedPCs
<1>2. AgentsMild
  BY <1>1, SettledMild DEF ReconcileRecordsReady
<1>3. TablesMild
  BY <1>1, RecordMild, StayMild DEF ReconcileRecordsReady, States
<1> QED
  BY <1>2, <1>3, StayMild, FaultTyped DEF ReconcileRecordsReady, Mild

LEMMA SweepsMild == ASSUME Inv, NEW n \in Nodes, ReconcileSweeps(n) PROVE Mild
<1>1. CASE agents[n].boots /\ agents[n].err
  BY <1>1, LeaveMild, StayMild, FaultTyped DEF ReconcileSweeps, Mild
<1>2. CASE ~(agents[n].boots /\ agents[n].err)
  <2> DEFINE orphans == {r \in Replicas : agents[n].inv[r] # "none"}
  <2>1. procs' = [r \in Replicas |-> IF r \in orphans THEN "none" ELSE procs[r]]
    BY <1>2 DEF ReconcileSweeps
  <2>2. ProcsMild
    <3> HIDE DEF orphans
    <3> QED
      BY <2>1 DEF ProcsMild, Inv, TypeOK, GoodProc, ProcStates
  <2>3. Idle("on") \in Agent /\ GoodAgent(n, Idle("on")) /\ Idle("on").pc = "on"
    BY IdleGood
  <2>4. AgentsMild
    BY <1>2, <2>3, OneAgent DEF ReconcileSweeps
  <2> QED
    BY <1>2, <2>2, <2>4, StayMild, FaultTyped DEF ReconcileSweeps, Mild
<1> QED
  BY <1>1, <1>2

(* Why an assignment passes ValidateAgentAssignment: the same generation. *)
LEMMA ValidCurrent ==
  ASSUME NEW r \in Replicas, NEW lease, NEW t
  PROVE  /\ Validity(r, lease, t) \in {"stale", "expired", "moved", "valid"}
         /\ Validity(r, lease, t) \in {"moved", "valid"} => Current(r) /\ ~nodes[reps[r].node].cordoned
  BY DEF Validity

LEMMA VisitsMild ==
  ASSUME Inv, NEW n \in Nodes, NEW r \in Replicas, ReconcileVisits(n, r) PROVE Mild
<1>1. PICK a : a = agents[n]
  OBVIOUS
<1>2. /\ a \in Agent /\ GoodAgent(n, a) /\ a.pc = "visit" /\ r \in a.todo /\ reps[r].node = n
      /\ a.facts[r].state # "absent" /\ Up(n)
  <2>1. a \in Agent /\ GoodAgent(n, a)
    BY <1>1, AgentTyped
  <2>2. a.pc = "visit" /\ r \in a.todo /\ Up(n)
    BY <1>1 DEF ReconcileVisits, Up
  <2>3. a.facts[r].state # "absent"
    BY <2>1, <2>2 DEF GoodAgent
  <2>4. reps[r].node = n
    BY <2>1, <2>3 DEF GoodAgent
  <2> QED BY <2>1, <2>2, <2>3, <2>4
<1>3. PICK left : left = [a EXCEPT !.todo = @ \ {r}, !.r = r]
  OBVIOUS
<1>4. PICK kept : kept = [left EXCEPT !.inv[r] = "none"]
  OBVIOUS
<1>5. left \in Agent /\ left.todo = a.todo \ {r} /\ left.r = r /\ left.facts = a.facts
  BY <1>2, <1>3 DEF Agent
<1>6. kept \in Agent /\ kept.todo = a.todo \ {r} /\ kept.r = r /\ kept.facts = a.facts
  <2>1. [left.inv EXCEPT ![r] = "none"] \in [Replicas -> ProcStates]
    BY <1>5 DEF Agent, ProcStates
  <2>2. kept = [left EXCEPT !.inv = [left.inv EXCEPT ![r] = "none"]]
    BY <1>4
  <2> QED
    BY <1>5, <2>1, <2>2 DEF Agent
(* the replica is passed over, ... *)
<1>7. ASSUME NEW ok \in BOOLEAN
      PROVE  /\ Done(kept, r, ok) \in Agent /\ GoodAgent(n, Done(kept, r, ok))
             /\ Done(kept, r, ok).pc = "visit"
  <2>1. /\ \A q \in Replicas : kept.facts[q].state # "absent" => reps[q].node = n
        /\ (\A q \in kept.todo : kept.facts[q].state # "absent") /\ r \notin kept.todo
    BY <1>2, <1>6 DEF GoodAgent
  <2> QED
    BY <1>6, <2>1, DoneTyped, DoneGood
(* ... or there is something to do. *)
<1>8. ASSUME NEW b \in {left, kept}, NEW pc \in VisitPCs \cup FencedPCs, pc \in FencedPCs => Current(r)
      PROVE  /\ [b EXCEPT !.pc = pc] \in Agent /\ GoodAgent(n, [b EXCEPT !.pc = pc])
             /\ [b EXCEPT !.pc = pc].pc # "down"
  <2>1. PICK c : c = [b EXCEPT !.pc = pc]
    OBVIOUS
  <2>2. b \in Agent /\ b.todo = a.todo \ {r} /\ b.r = r /\ b.facts = a.facts
    BY <1>5, <1>6
  <2>3. /\ c \in Agent /\ c.pc = pc /\ c.todo = a.todo \ {r} /\ c.r = r /\ c.facts = a.facts
        /\ pc \notin {"down", "visit"}
    BY <2>1, <2>2 DEF Agent, AgentPCs, VisitPCs, FencedPCs
  <2>4. GoodAgent(n, c)
    BY <1>2, <1>8, <2>3 DEF GoodAgent
  <2> QED
    BY <2>1, <2>3, <2>4
<1>9. PICK v : v = Validity(r, a.facts[r].until, now)
  OBVIOUS
<1>10. v \in {"stale", "expired", "moved", "valid"} /\ (v = "valid" => Current(r))
  BY <1>9, ValidCurrent
<1>11. a.facts[r].state \in States /\ a.inv[r] \in ProcStates
  BY <1>2 DEF Agent, Row
<1>12. \E b \in Agent : SetAgent(n, b) /\ GoodAgent(n, b) /\ b.pc # "down"
  <2> DEFINE row == a.facts[r]
  <2>1. CASE v = "moved"
    <3>1. SetAgent(n, Done(kept, r, FALSE))
      BY <1>1, <1>3, <1>4, <1>9, <2>1 DEF ReconcileVisits
    <3> QED
      BY <1>7, <3>1
  <2>2. CASE v \in {"stale", "expired"}
    <3>1. PICK pc \in VisitPCs : SetAgent(n, [left EXCEPT !.pc = pc])
      BY <1>1, <1>3, <1>9, <2>2 DEF ReconcileVisits, VisitPCs
    <3>2. pc \in VisitPCs \cup FencedPCs /\ pc \notin FencedPCs
      BY DEF VisitPCs, FencedPCs
    <3> QED
      BY <1>8, <3>1, <3>2
  <2>3. CASE v = "valid" /\ row.state \in Terminal \cup {"draining"}
    <3>1. SetAgent(n, [left EXCEPT !.pc = IF a.inv[r] # "none" THEN "stopdead" ELSE "recordstopped"])
      BY <1>1, <1>3, <1>9, <2>3 DEF ReconcileVisits, Terminal
    <3>2. PICK pc \in FencedPCs : SetAgent(n, [left EXCEPT !.pc = pc])
      BY <3>1 DEF FencedPCs
    <3> QED
      BY <1>8, <1>10, <2>3, <3>2
  <2>4. CASE v = "valid" /\ row.state = "ready"
    <3>1. \/ SetAgent(n, Done(kept, r, TRUE))
          \/ \E pc \in FencedPCs : SetAgent(n, [kept EXCEPT !.pc = pc])
      BY <1>1, <1>3, <1>4, <1>9, <2>4 DEF ReconcileVisits, FencedPCs, Terminal
    <3> QED
      BY <1>7, <1>8, <1>10, <2>4, <3>1
  <2>5. CASE v = "valid" /\ row.state \in {"pending", "starting"}
    <3>1. \/ SetAgent(n, Done(kept, r, TRUE))
          \/ \E pc \in FencedPCs : SetAgent(n, [kept EXCEPT !.pc = pc])
      BY <1>1, <1>3, <1>4, <1>9, <1>11, <2>5 DEF ReconcileVisits, FencedPCs, Terminal, Healthy, ProcStates
    <3> QED
      BY <1>7, <1>8, <1>10, <2>5, <3>1
  <2> QED
    BY <1>2, <1>10, <1>11, <2>1, <2>2, <2>3, <2>4, <2>5 DEF States, Terminal
<1>13. AgentsMild
  BY <1>2, <1>12, OneAgent
<1> QED
  BY <1>13, StayMild, FaultTyped DEF ReconcileVisits, Mild, registry

LEMMA ReconcilingMild == ASSUME Inv, NEW n \in Nodes, Reconciling(n) PROVE Mild
  BY BeginsMild, ListsMild, LooksMild, OfflineMild, VisitsMild, TerminalizesMild, StopsMild,
     RecordsStoppedMild, WithdrawsMild, RecordsStartingMild, BootsMild, GivesUpMild, RecordsReadyMild,
     SweepsMild DEF Reconciling

-----------------------------------------------------------------------------
(* The requests an agent serves. *)

LEMMA HandlerAtWork ==
  ASSUME Inv, NEW h \in Handlers, hs[h].pc # "idle"
  PROVE  /\ hs[h].r \in Replicas /\ reps[hs[h].r].state # "absent"
         /\ hs[h].pc \notin {"enter", "read"} =>
              Current(hs[h].r) /\ \A p \in ProcStates : GoodProc(hs[h].r, p)
<1>1. /\ hs[h].r \in Replicas /\ Attended(hs[h].r)
      /\ hs[h].pc \notin {"enter", "read"} => Current(hs[h].r)
  BY HandlerTyped DEF GoodHandler
<1>2. GoodRow(hs[h].r)
  BY <1>1 DEF Inv
<1> QED
  BY <1>1, <1>2, SetsAssumption DEF GoodRow, GoodProc, Attended

LEMMA EntersMild == ASSUME Inv, NEW h \in Handlers, HEnters(h) PROVE Mild
<1>1. Return(h, "stale") \/ Return(h, "error") \/ (Goto(h, "read") /\ UNCHANGED pass)
  BY DEF HEnters
<1>2. HandlersMild /\ PassMild
  BY <1>1, ReturnMild, GotoMild DEF HEnters, StartPCs
<1> QED
  BY <1>2, StayMild, AgentsStay, FaultTyped DEF HEnters, Mild, registry

(* The handler knows the row of its replica. *)
LEMMA KnowsMild ==
  ASSUME Inv, NEW h \in Handlers, hs[h].pc # "idle", NEW pc \in StartPCs \cup StopPCs, Current(hs[h].r),
         SetH(h, [hs[h] EXCEPT !.pc = pc, !.state = reps[hs[h].r].state, !.until = reps[hs[h].r].until]),
         UNCHANGED pass
  PROVE  HandlersMild /\ PassMild
<1> DEFINE x == [hs[h] EXCEPT !.pc = pc, !.state = reps[hs[h].r].state, !.until = reps[hs[h].r].until]
<1>1. hs[h] \in Handler /\ GoodHandler(hs[h]) /\ hs[h].r \in Replicas
  BY HandlerTyped, HandlerAtWork
<1>2. reps[hs[h].r].state \in States /\ reps[hs[h].r].until \in Time
  BY <1>1 DEF Inv, TypeOK, Row
<1>3. x \in Handler /\ x.pc = pc /\ x.r = hs[h].r /\ x.live = hs[h].live /\ pc # "idle"
  BY <1>1, <1>2 DEF Handler, StartPCs, StopPCs
<1>4. GoodHandler(x)
  BY <1>1, <1>3 DEF GoodHandler
<1> QED
  BY <1>3, <1>4, HandlerOn

LEMMA ReadsMild == ASSUME Inv, NEW h \in Handlers, HReads(h) PROVE Mild
<1> DEFINE r == hs[h].r
           knows(pc) == SetH(h, [hs[h] EXCEPT !.pc = pc, !.state = reps[r].state, !.until = reps[r].until])
<1>1. r \in Replicas /\ hs[h].pc = "read"
  BY HandlerAtWork DEF HReads
<1>2. \/ \E result \in {"ok", "stale", "error"} : Return(h, result)
      \/ Current(r) /\ UNCHANGED pass /\ \E pc \in {"claim", "probe", "advise"} : knows(pc)
  <2>1. CASE hs[h].op \in {"start", "probe"}
    <3>1. PICK v : v = Validity(r, hs[h].lease, now)
      OBVIOUS
    <3>2. v \in {"stale", "expired", "moved", "valid"} /\ (v = "valid" => Current(r))
      BY <1>1, <3>1, ValidCurrent
    <3> QED
      BY <2>1, <3>1, <3>2 DEF HReads
  <2>2. CASE hs[h].op \notin {"start", "probe"}
    BY <2>2 DEF HReads
  <2> QED
    BY <2>1, <2>2
<1>3. HandlersMild /\ PassMild
  BY <1>1, <1>2, ReturnMild, KnowsMild DEF StartPCs, StopPCs
<1> QED
  BY <1>3, StayMild, AgentsStay, FaultTyped DEF HReads, Mild, registry

LEMMA ClaimsMild == ASSUME Inv, NEW h \in Handlers, HClaims(h) PROVE Mild
<1> DEFINE r == hs[h].r
           c == [status |-> "running", token |-> cmds[r].token + 1, lease |-> now + CommandTicks,
                 reason |-> "ok"]
           pc == IF hs[h].state = "ready" THEN "verify" ELSE "diagnose"
           x == [hs[h] EXCEPT !.token = cmds[r].token + 1, !.pc = pc]
<1>1. hs[h] \in Handler /\ GoodHandler(hs[h]) /\ hs[h].pc = "claim" /\ r \in Replicas
  BY HandlerTyped, HandlerAtWork DEF HClaims
<1>2. cmds[r] \in Command /\ cmds[r].token + 1 \in Nat
  BY <1>1 DEF Inv, TypeOK, Command
<1>3. c \in Command
  BY <1>2, TimesTyped DEF Command, Inv, TypeOK
<1>4. \/ UNCHANGED cmds /\ \E result \in {"ok", "stale", "error"} : Return(h, result)
      \/ cmds' = [cmds EXCEPT ![r] = c] /\ SetH(h, x) /\ UNCHANGED pass
  <2>1. cmds[r].status \in {"none", "running", "succeeded", "failed"} /\ cmds[r].reason \in {"ok", "stale", "error"}
    BY <1>2 DEF Command
  <2> QED
    BY <2>1 DEF HClaims
<1>5. CASE UNCHANGED cmds /\ \E result \in {"ok", "stale", "error"} : Return(h, result)
  BY <1>5, ReturnMild, StayMild, AgentsStay, FaultTyped DEF HClaims, Mild
<1>6. CASE cmds' = [cmds EXCEPT ![r] = c] /\ SetH(h, x) /\ UNCHANGED pass
  <2>1. /\ x \in Handler /\ x.pc = pc /\ x.r = r /\ x.live = hs[h].live /\ pc \in StartPCs /\ pc # "idle"
    BY <1>1, <1>2 DEF Handler, StartPCs
  <2>2. GoodHandler(x)
    BY <1>1, <2>1 DEF GoodHandler
  <2>3. HandlersMild /\ PassMild
    <3> HIDE DEF x, pc
    <3> QED
      BY <1>6, <2>1, <2>2, HandlerOn
  <2>4. RestMild
    <3> HIDE DEF c
    <3> QED
      BY <1>1, <1>3, <1>6, OneCommand, FaultTyped DEF HClaims
  <2> QED
    BY <2>3, <2>4, StayMild, AgentsStay DEF HClaims, Mild
<1> QED
  BY <1>4, <1>5, <1>6

(* RecordObservationAndCompleteAgentCommand *)
LEMMA CommitMild ==
  ASSUME Inv, NEW h \in Handlers, hs[h].pc # "idle", NEW until, Committable(h, until), Startable(hs[h].r),
         Commit(h), UNCHANGED <<now, want>>, NoFault
  PROVE  TablesMild /\ RestMild /\ HandlersMild /\ PassMild
<1> DEFINE r == hs[h].r
           c == [cmds[r] EXCEPT !.status = "succeeded", !.lease = 0]
<1>1. r \in Replicas /\ reps[r].state # "absent"
  BY HandlerAtWork
<1>2. TablesMild
  <2>1. Servable(r)
    BY DEF Committable, Servable
  <2> QED
    BY <1>1, <2>1, ObserveMild DEF Commit, States
<1>3. c \in Command
  BY <1>1, TimesTyped DEF Inv, TypeOK, Command
<1>4. cmds' = [cmds EXCEPT ![r] = c]
  BY <1>1 DEF Commit, Inv, TypeOK
<1>5. RestMild
  <2> HIDE DEF c
  <2> QED
    BY <1>1, <1>3, <1>4, OneCommand, FaultTyped
<1> QED
  BY <1>2, <1>5, ReturnMild DEF Commit

LEMMA VerifiesMild == ASSUME Inv, NEW h \in Handlers, HVerifies(h) PROVE Mild
<1>1. CASE Commit(h) /\ Committable(h, hs[h].until) /\ Startable(hs[h].r)
  BY <1>1, CommitMild, StayMild, AgentsStay DEF HVerifies, Mild
<1>2. CASE Return(h, "error") /\ UNCHANGED <<reps, eps, cmds>>
  BY <1>2, ReturnMild, StayMild, AgentsStay, FaultTyped DEF HVerifies, Mild
<1> QED
  BY <1>1, <1>2 DEF HVerifies

LEMMA DiagnosesMild == ASSUME Inv, NEW h \in Handlers, HDiagnoses(h) PROVE Mild
<1>1. \/ Failing(h, FALSE, "error") /\ UNCHANGED pass
      \/ \E pc \in {"boot", "record"} : Goto(h, pc) /\ UNCHANGED pass
      \/ Return(h, "error")
  BY DEF HDiagnoses
<1>2. HandlersMild /\ PassMild
  BY <1>1, FailingMild, GotoMild, ReturnMild DEF HDiagnoses, StartPCs
<1>3. Fault \/ NoFault
  BY DEF HDiagnoses
<1> QED
  BY <1>2, <1>3, StayMild, AgentsStay, FaultTyped DEF HDiagnoses, Mild, registry

LEMMA HRecordsMild == ASSUME Inv, NEW h \in Handlers, HRecords(h) PROVE Mild
<1>1. hs[h].r \in Replicas
  BY HandlerAtWork DEF HRecords
<1>2. CASE Refusal(hs[h].r, hs[h].until, "starting") = "none"
  <2>1. TablesMild
    BY <1>1, <1>2, RecordMild DEF HRecords, States
  <2>2. HandlersMild /\ PassMild
    BY <1>2, GotoMild DEF HRecords, StartPCs
  <2> QED
    BY <2>1, <2>2, StayMild, AgentsStay, FaultTyped DEF HRecords, Mild
<1>3. CASE Refusal(hs[h].r, hs[h].until, "starting") # "none"
  <2>1. HandlersMild /\ PassMild
    BY <1>3, FailingMild DEF HRecords
  <2> QED
    BY <1>3, <2>1, StayMild, AgentsStay, FaultTyped DEF HRecords, Mild
<1> QED
  BY <1>2, <1>3

(* The processes: booted, waited for, cleaned up and stopped. *)
LEMMA HandlerProcs ==
  ASSUME Inv, NEW h \in Handlers, NEW p \in ProcStates, hs[h].pc \notin {"idle", "enter", "read"},
         SetProc(hs[h].r, p)
  PROVE  ProcsMild
  BY HandlerAtWork, OneProc

LEMMA HBootsMild == ASSUME Inv, NEW h \in Handlers, HBoots(h) PROVE Mild
<1>1. \E p \in ProcStates : SetProc(hs[h].r, p)
  BY HandlerAtWork DEF HBoots, ProcStates, Inv, TypeOK
<1>2. ProcsMild
  BY <1>1, HandlerProcs DEF HBoots
<1>3. HandlersMild /\ PassMild
  BY GotoMild DEF HBoots, StartPCs
<1> QED
  BY <1>2, <1>3, StayMild, AgentsStay, FaultTyped DEF HBoots, Mild, registry

LEMMA HGatesMild == ASSUME Inv, NEW h \in Handlers, HGates(h) PROVE Mild
<1>1. UNCHANGED procs \/ SetProc(hs[h].r, "up") \/ SetProc(hs[h].r, "none")
  BY DEF HGates, SetProc
<1>2. ProcsMild
  BY <1>1, HandlerProcs, StayMild DEF HGates, ProcStates
<1>3. HandlersMild /\ PassMild
  BY GotoMild, FailingMild DEF HGates, StartPCs
<1>4. Fault \/ NoFault
  BY DEF HGates
<1> QED
  BY <1>2, <1>3, <1>4, StayMild, AgentsStay, FaultTyped DEF HGates, Mild, registry

LEMMA HStopsMild == ASSUME Inv, NEW h \in Handlers, HCleans(h) \/ HHalts(h) PROVE Mild
<1>1. ProcsMild
  BY HandlerProcs DEF HCleans, HHalts, ProcStates
<1>2. HandlersMild /\ PassMild
  BY GotoMild DEF HCleans, HHalts, StartPCs, StopPCs
<1> QED
  BY <1>1, <1>2, StayMild, AgentsStay, FaultTyped DEF HCleans, HHalts, Mild, registry

LEMMA HProbesStartMild == ASSUME Inv, NEW h \in Handlers, HProbesStart(h) PROVE Mild
<1>1. HandlersMild /\ PassMild
  BY ReturnMild, GotoMild, FailingMild DEF HProbesStart, StartPCs
<1> QED
  BY <1>1, StayMild, AgentsStay, FaultTyped DEF HProbesStart, Mild, registry

(* The readiness is committed, or the row read once more. *)
LEMMA AgainMild ==
  ASSUME Inv, NEW h \in Handlers, Again(h), UNCHANGED pass, hs[h].pc \notin {"idle", "enter", "read"}
  PROVE  HandlersMild /\ PassMild
<1> DEFINE x == [hs[h] EXCEPT !.pc = "reread", !.tries = @ + 1]
<1>1. CASE hs[h].tries = 2
  BY <1>1, FailingMild DEF Again
<1>2. CASE hs[h].tries # 2
  <2>1. hs[h] \in Handler /\ GoodHandler(hs[h])
    BY HandlerTyped
  <2>2. hs[h].tries + 1 \in 0 .. 2
    BY <1>2, <2>1 DEF Handler
  <2>3. x \in Handler /\ x.pc = "reread" /\ x.r = hs[h].r /\ x.live = hs[h].live
    BY <2>1, <2>2 DEF Handler, StartPCs
  <2>4. GoodHandler(x)
    BY <2>1, <2>3 DEF GoodHandler
  <2> QED
    BY <1>2, <2>3, <2>4, HandlerOn DEF Again
<1> QED
  BY <1>1, <1>2

LEMMA HRereadsMild == ASSUME Inv, NEW h \in Handlers, HRereads(h) PROVE Mild
<1> DEFINE r == hs[h].r
           x == [hs[h] EXCEPT !.pc = "commit", !.fresh = reps[r].until]
<1>1. hs[h] \in Handler /\ GoodHandler(hs[h]) /\ hs[h].pc = "reread" /\ r \in Replicas
  BY HandlerTyped, HandlerAtWork DEF HRereads
<1>2. \/ Return(h, "stale")
      \/ /\ UNCHANGED pass
         /\ Again(h) \/ SetH(h, x) \/ \E result \in {"stale", "error"} : Failing(h, TRUE, result)
  BY DEF HRereads
<1>3. ASSUME SetH(h, x), UNCHANGED pass
      PROVE  HandlersMild /\ PassMild
  <2>1. reps[r].until \in Time
    BY <1>1 DEF Inv, TypeOK, Row
  <2>2. x \in Handler /\ x.pc = "commit" /\ x.r = hs[h].r /\ x.live = hs[h].live
    BY <1>1, <2>1 DEF Handler, StartPCs
  <2>3. GoodHandler(x)
    BY <1>1, <2>2 DEF GoodHandler
  <2> HIDE DEF x
  <2> QED
    BY <1>3, <2>2, <2>3, HandlerOn
<1>4. HandlersMild /\ PassMild
  <2> HIDE DEF x
  <2> QED
    BY <1>1, <1>2, <1>3, ReturnMild, AgainMild, FailingMild
<1> QED
  BY <1>4, StayMild, AgentsStay, FaultTyped DEF HRereads, Mild, registry

LEMMA HCommitsMild == ASSUME Inv, NEW h \in Handlers, HCommits(h) PROVE Mild
<1>1. hs[h].pc = "commit"
  BY DEF HCommits
<1>2. CASE Commit(h) /\ Committable(h, hs[h].fresh) /\ Startable(hs[h].r)
  BY <1>1, <1>2, CommitMild, StayMild, AgentsStay DEF HCommits, Mild
<1>3. CASE /\ UNCHANGED <<reps, eps, cmds>>
           /\ Return(h, "stale") \/ (UNCHANGED pass /\ (Failing(h, TRUE, "stale") \/ Again(h)))
  <2>1. HandlersMild /\ PassMild
    BY <1>1, <1>3, ReturnMild, FailingMild, AgainMild
  <2> QED
    BY <1>3, <2>1, StayMild, AgentsStay, FaultTyped DEF HCommits, Mild
<1> QED
  BY <1>2, <1>3 DEF HCommits

LEMMA HFailsMild == ASSUME Inv, NEW h \in Handlers, HFails(h) PROVE Mild
<1>1. HandlersMild /\ PassMild
  BY ReturnMild, GotoMild DEF HFails, StartPCs
<1> QED
  BY <1>1, StayMild, AgentsStay, FaultTyped DEF HFails, Mild, registry

LEMMA HRecordsFailedMild == ASSUME Inv, NEW h \in Handlers, HRecordsFailed(h) PROVE Mild
<1>1. hs[h].r \in Replicas /\ hs[h].result \in {"ok", "stale", "error"}
  BY HandlerTyped, HandlerAtWork DEF HRecordsFailed, Handler
<1>2. TablesMild
  BY <1>1, RecordMild, StayMild DEF HRecordsFailed, States
<1>3. HandlersMild /\ PassMild
  BY <1>1, ReturnMild, GotoMild DEF HRecordsFailed, StartPCs
<1> QED
  BY <1>2, <1>3, StayMild, AgentsStay, FaultTyped DEF HRecordsFailed, Mild

LEMMA HCompletesMild == ASSUME Inv, NEW h \in Handlers, HCompletes(h) PROVE Mild
<1> DEFINE r == hs[h].r
           c == [cmds[r] EXCEPT !.status = "failed", !.lease = 0, !.reason = hs[h].result]
<1>1. r \in Replicas /\ hs[h].result \in {"ok", "stale", "error"}
  BY HandlerTyped, HandlerAtWork DEF HCompletes, Handler
<1>2. c \in Command
  <2>1. cmds[r] \in Command
    BY <1>1 DEF Inv, TypeOK
  <2> QED
    BY <1>1, <2>1, TimesTyped DEF Command
<1>3. UNCHANGED cmds \/ cmds' = [cmds EXCEPT ![r] = c]
  BY <1>1 DEF HCompletes, Inv, TypeOK
<1>4. RestMild
  <2> HIDE DEF c
  <2> QED
    BY <1>1, <1>2, <1>3, OneCommand, StayMild, FaultTyped DEF HCompletes
<1>5. HandlersMild /\ PassMild
  BY <1>1, ReturnMild DEF HCompletes
<1> QED
  BY <1>4, <1>5, StayMild, AgentsStay DEF HCompletes, Mild

LEMMA HProbesMild == ASSUME Inv, NEW h \in Handlers, HProbes(h) PROVE Mild
<1>1. PICK result \in {"ok", "error"} :
        \/ SetH(h, [hs[h] EXCEPT !.pc = "recordfailed", !.result = result]) /\ UNCHANGED pass
        \/ Return(h, result)
  BY DEF HProbes
<1>2. CASE SetH(h, [hs[h] EXCEPT !.pc = "recordfailed", !.result = result]) /\ UNCHANGED pass
  <2>1. PICK x : x = [hs[h] EXCEPT !.pc = "recordfailed", !.result = result]
    OBVIOUS
  <2>2. hs[h] \in Handler /\ GoodHandler(hs[h]) /\ hs[h].pc = "probe"
    BY HandlerTyped DEF HProbes
  <2>3. x \in Handler /\ x.pc = "recordfailed" /\ x.r = hs[h].r /\ x.live = hs[h].live
    BY <2>1, <2>2 DEF Handler, StartPCs
  <2>4. GoodHandler(x)
    BY <2>2, <2>3 DEF GoodHandler
  <2>5. HandlersMild /\ PassMild
    BY <1>2, <2>1, <2>3, <2>4, HandlerOn
  <2> QED
    BY <2>5, StayMild, AgentsStay, FaultTyped DEF HProbes, Mild, registry
<1>3. CASE Return(h, result)
  BY <1>3, ReturnMild, StayMild, AgentsStay, FaultTyped DEF HProbes, Mild, registry
<1> QED
  BY <1>1, <1>2, <1>3

(* A replica is drained or stopped. *)
LEMMA HAdvisesMild == ASSUME Inv, NEW h \in Handlers, HAdvises(h) PROVE Mild
<1>1. hs[h].r \in Replicas
  BY HandlerAtWork DEF HAdvises
<1>2. TablesMild
  BY <1>1, RecordMild, StayMild DEF HAdvises, States
<1>3. HandlersMild /\ PassMild
  BY ReturnMild, GotoMild DEF HAdvises, StopPCs
<1> QED
  BY <1>2, <1>3, StayMild, AgentsStay, FaultTyped DEF HAdvises, Mild

LEMMA HWithdrawsMild == ASSUME Inv, NEW h \in Handlers, HWithdraws(h) PROVE Mild
<1>1. TablesMild
  BY HandlerAtWork, WithdrawMild, StayMild DEF HWithdraws
<1>2. HandlersMild /\ PassMild
  BY ReturnMild, GotoMild DEF HWithdraws, StopPCs
<1> QED
  BY <1>1, <1>2, StayMild, AgentsStay, FaultTyped DEF HWithdraws, Mild

LEMMA HTerminalizesMild == ASSUME Inv, NEW h \in Handlers, HTerminalizes(h) PROVE Mild
<1>1. TablesMild
  BY HandlerAtWork, TerminalizeMild, StayMild DEF HTerminalizes, Terminal
<1>2. HandlersMild /\ PassMild
  BY ReturnMild DEF HTerminalizes
<1> QED
  BY <1>1, <1>2, StayMild, AgentsStay, FaultTyped DEF HTerminalizes, Mild

LEMMA HandlingMild == ASSUME Inv, NEW h \in Handlers, Handling(h) PROVE Mild
  BY EntersMild, ReadsMild, ClaimsMild, VerifiesMild, DiagnosesMild, HRecordsMild, HBootsMild, HGatesMild,
     HProbesStartMild, HRereadsMild, HCommitsMild, HFailsMild, HStopsMild, HRecordsFailedMild,
     HCompletesMild, HProbesMild, HAdvisesMild, HWithdrawsMild, HTerminalizesMild DEF Handling

-----------------------------------------------------------------------------
(* The scheduler's pass. *)

LEMMA PassBeginsMild == ASSUME Inv, PassBegins PROVE Mild
<1>1. PICK p : p = [NoPass EXCEPT !.pc = "list", !.now = now, !.nodes = nodes, !.want = want.n, !.wish = want.gen]
  OBVIOUS
<1>2. NoPass \in Pass /\ now \in Time /\ now \in Nat
  BY NoPassGood, TimesTyped DEF Inv, TypeOK
<1>3. /\ p \in Pass /\ p.pc = "list" /\ p.now = now /\ p.nodes = nodes /\ p.want = want.n /\ p.wish = want.gen
      /\ p.rows = NoRows /\ p.todo = {}
  <2>1. p \in Pass
    <3>1. want.n \in Nat /\ want.gen \in Nat /\ nodes \in [Nodes -> NodeRow]
      BY BoundsAssumption DEF Inv, TypeOK
    <3> QED
      BY <1>1, <1>2, <3>1 DEF Pass
  <2> QED
    BY <1>1, <2>1 DEF NoPass
<1>4. Reads(p)
  <2>1. want.gen \in Nat /\ \A n \in Nodes : nodes[n].gen \in Nat /\ nodes[n].lease \in Nat
    BY TimesTyped DEF Inv, TypeOK, NodeRow
  <2> QED
    BY <1>2, <1>3, <2>1 DEF Reads, NoRows, NoRow
<1>5. GoodPass(p)
  BY <1>3, <1>4 DEF GoodPass
<1>6. PassMild
  BY <1>1, <1>3, <1>5, PassTo DEF PassBegins
<1> QED
  BY <1>6, StayMild, AgentsStay, FaultTyped DEF PassBegins, Mild, registry

LEMMA ActiveNode ==
  ASSUME Inv, NEW r \in Replicas, reps[r].state # "absent" PROVE reps[r].node \in Nodes
  BY DEF Inv, TypeOK, Row, GoodRow

LEMMA PassListsMild == ASSUME Inv, PassLists PROVE Mild
<1> DEFINE live == {r \in Replicas : reps[r].state \in Active}
<1>1. PICK T \in ScaleDownTargets(reps, pass.want) :
        SetPass([pass EXCEPT !.pc = "visit", !.rows = reps, !.retire = T, !.todo = live])
  BY DEF PassLists
<1>2. PICK p : p = [pass EXCEPT !.pc = "visit", !.rows = reps, !.retire = T, !.todo = live]
  OBVIOUS
<1>3. T \in SUBSET Replicas /\ live \in SUBSET Replicas
  BY DEF ScaleDownTargets
<1>4. pass \in Pass /\ Reads(pass) /\ pass.now \in Nat /\ now \in Nat
  BY PassTyped, TimesTyped DEF Pass, Inv, TypeOK
<1>5. /\ p \in Pass /\ p.pc = "visit" /\ p.rows = reps /\ p.todo = live /\ p.now = pass.now
      /\ p.nodes = pass.nodes /\ p.want = pass.want /\ p.wish = pass.wish
  <2> HIDE DEF live
  <2> QED
    BY <1>2, <1>3, <1>4 DEF Pass, Inv, TypeOK
<1>6. Reads(p)
  <2>1. \A r \in live : reps[r].until \in Nat
    BY TimesTyped DEF Inv, TypeOK, Row
  <2> QED
    BY <1>4, <1>5, <2>1, ActiveNode DEF Reads
<1>7. PassMild
  <2>1. GoodPass(p)
    BY <1>5, <1>6 DEF GoodPass
  <2> QED
    BY <1>1, <1>2, <1>5, <2>1, PassTo DEF PassLists
<1> QED
  BY <1>7, StayMild, AgentsStay, FaultTyped DEF PassLists, Mild, registry

LEMMA DropMild == ASSUME Inv, NEW r \in Replicas, Drop(r) PROVE TablesMild
  BY TerminalizeMild DEF Drop, Terminalize, Terminal

LEMMA SkipMild ==
  ASSUME Inv, NEW r \in Replicas, SetPass(Skip(r)) \/ SetPass(NoPass), UNCHANGED hs, pass.pc # "wait"
  PROVE  PassMild
  BY SkipGood, NoPassGood, PassTo

LEMMA PassExpiresMild == ASSUME Inv, NEW r \in Replicas, PassExpires(r) PROVE Mild
<1>1. PassMild
  BY SkipMild DEF PassExpires
<1>2. TablesMild
  BY DropMild DEF PassExpires
<1> QED
  BY <1>1, <1>2, StayMild, AgentsStay, FaultTyped DEF PassExpires, Mild

(* The pass goes on by the same reads. *)
LEMMA SameReads ==
  ASSUME Inv, NEW p, p.now = pass.now, p.nodes = pass.nodes, p.want = pass.want, p.wish = pass.wish,
         p.rows = pass.rows, p.todo \subseteq pass.todo
  PROVE  Reads(p)
  BY PassTyped DEF Reads

LEMMA PassVisitsMild == ASSUME Inv, NEW r \in Replicas, PassVisits(r) PROVE Mild
<1> DEFINE row == pass.rows[r]
           node == IF Fits(row, pass.nodes[row.node]) THEN pass.nodes[row.node] ELSE nodes[row.node]
           pc == IF r \notin pass.retire /\ row.until - pass.now <= RenewWindow THEN "validate" ELSE "call"
<1>1. pass \in Pass /\ Reads(pass) /\ pass.pc = "visit" /\ r \in pass.todo
  BY PassTyped DEF PassVisits
<1>2. row.state \in Active /\ row.node \in Nodes
  BY <1>1 DEF Reads, Active
<1>3. node \in NodeRow
  BY <1>1, <1>2 DEF Pass, Inv, TypeOK
<1>4. PICK p : p = [pass EXCEPT !.r = r, !.node = node, !.todo = @ \ {r}, !.pc = pc]
  OBVIOUS
<1>5. pc \in {"validate", "call"} /\ SetPass(p)
  BY <1>4 DEF PassVisits
<1>6. /\ p \in Pass /\ p.pc = pc /\ p.r = r /\ p.now = pass.now /\ p.nodes = pass.nodes
      /\ p.want = pass.want /\ p.wish = pass.wish /\ p.rows = pass.rows /\ p.todo = pass.todo \ {r}
  <2> HIDE DEF node, pc
  <2> QED
    BY <1>1, <1>3, <1>4, <1>5 DEF Pass
<1>7. Reads(p)
  BY <1>6, SameReads
<1>8. GoodPass(p)
  BY <1>2, <1>5, <1>6, <1>7 DEF GoodPass
<1>9. PassMild
  BY <1>1, <1>5, <1>6, <1>8, PassTo DEF PassVisits
<1> QED
  BY <1>9, StayMild, AgentsStay, FaultTyped DEF PassVisits, Mild, registry

LEMMA LostMild ==
  ASSUME Inv, NEW r \in Replicas, LostCAS(r), UNCHANGED hs, pass.pc # "wait"
  PROVE  PassMild /\ TablesMild
  BY SkipMild, DropMild, StayMild DEF LostCAS

LEMMA PassValidatesMild == ASSUME Inv, PassValidates PROVE Mild
<1> DEFINE r == pass.r
           pc == IF pass.node.lease > pass.rows[r].until THEN "renew" ELSE "call"
<1>1. pass \in Pass /\ GoodPass(pass) /\ Reads(pass) /\ pass.pc = "validate" /\ r \in Replicas
      /\ pass.rows[r].state \in Active
  BY PassTyped DEF PassValidates, GoodPass
<1>2. PICK v : v = Validity(r, pass.rows[r].until, pass.now)
  OBVIOUS
<1>3. v \in {"stale", "expired", "moved", "valid"}
  BY <1>1, <1>2, ValidCurrent
<1>4. CASE v = "stale"
  <2>1. SetPass(NoPass) /\ UNCHANGED <<reps, eps>> /\ UNCHANGED hs
    BY <1>2, <1>4 DEF PassValidates
  <2> QED
    BY <1>1, <2>1, SkipMild, StayMild, AgentsStay, FaultTyped DEF PassValidates, Mild
<1>5. CASE v = "expired"
  <2>1. SetPass(Skip(r)) /\ Drop(r) /\ UNCHANGED hs
    BY <1>2, <1>5 DEF PassValidates
  <2> QED
    BY <1>1, <2>1, SkipMild, DropMild, StayMild, AgentsStay, FaultTyped DEF PassValidates, Mild
<1>6. CASE v = "moved"
  <2>1. LostCAS(r) /\ UNCHANGED hs
    BY <1>2, <1>6 DEF PassValidates
  <2> QED
    BY <1>1, <2>1, LostMild, StayMild, AgentsStay, FaultTyped DEF PassValidates, Mild
<1>7. CASE v = "valid"
  <2>1. SetPass([pass EXCEPT !.pc = pc]) /\ UNCHANGED <<reps, eps>> /\ UNCHANGED hs
    BY <1>2, <1>7 DEF PassValidates
  <2>2. PICK p : p = [pass EXCEPT !.pc = pc]
    OBVIOUS
  <2>3. /\ p \in Pass /\ p.pc = pc /\ p.r = r /\ p.now = pass.now /\ p.nodes = pass.nodes
        /\ p.want = pass.want /\ p.wish = pass.wish /\ p.rows = pass.rows /\ p.todo = pass.todo
        /\ pc \in {"renew", "call"}
    BY <1>1, <2>2 DEF Pass
  <2>4. Reads(p)
    BY <2>3, SameReads
  <2>5. GoodPass(p)
    BY <1>1, <2>3, <2>4 DEF GoodPass
  <2>6. PassMild
    BY <1>1, <2>1, <2>2, <2>3, <2>5, PassTo
  <2> QED
    BY <2>1, <2>6, StayMild, AgentsStay, FaultTyped DEF PassValidates, Mild
<1> QED
  BY <1>3, <1>4, <1>5, <1>6, <1>7

LEMMA PassRenewsMild == ASSUME Inv, PassRenews PROVE Mild
<1> DEFINE r == pass.r
           until == pass.rows[r].until
           new == pass.node.lease
<1>1. pass \in Pass /\ GoodPass(pass) /\ Reads(pass) /\ pass.pc = "renew" /\ r \in Replicas
      /\ pass.rows[r].state \in Active /\ UNCHANGED hs
  BY PassTyped DEF PassRenews, GoodPass
<1>2. CASE Renewable(r, until, new)
  <2>1. Renew(r, new) /\ SetPass([pass EXCEPT !.pc = "call", !.rows[r].until = new])
    BY <1>2 DEF PassRenews
  <2>2. new \in Time /\ new \in Nat /\ until \in Nat /\ now \in Nat /\ pass.now \in Nat /\ pass.now <= now
    BY <1>1, TimesTyped DEF Pass, NodeRow, Row, Inv, TypeOK, Reads
  <2>3. TablesMild
    BY <1>1, <1>2, <2>1, <2>2, RenewMild
  <2>4. PICK rows : rows = [pass.rows EXCEPT ![r].until = new]
    OBVIOUS
  <2>5. PICK p : p = [pass EXCEPT !.pc = "call", !.rows = rows]
    OBVIOUS
  <2>6. /\ rows \in [Replicas -> Row] /\ rows[r].until = new /\ rows[r].state = pass.rows[r].state
        /\ rows[r].node = pass.rows[r].node /\ rows[r].gen = pass.rows[r].gen
        /\ \A q \in Replicas \ {r} : rows[q] = pass.rows[q]
    BY <1>1, <2>2, <2>4 DEF Pass, Row
  <2>7. /\ p \in Pass /\ p.pc = "call" /\ p.r = r /\ p.now = pass.now /\ p.nodes = pass.nodes
        /\ p.want = pass.want /\ p.wish = pass.wish /\ p.rows = rows /\ p.todo = pass.todo
        /\ SetPass(p)
    BY <1>1, <2>1, <2>4, <2>5, <2>6 DEF Pass
  <2>8. new > pass.now
    BY <1>2, <2>2 DEF Renewable
  <2>9. Reads(p)
    <3>1. pass.todo \subseteq Replicas
      BY <1>1 DEF Pass
    <3>2. \A q \in Replicas : rows[q].state = pass.rows[q].state /\ rows[q].node = pass.rows[q].node
                              /\ rows[q].gen = pass.rows[q].gen
      BY <2>6
    <3>3. \A q \in pass.todo : rows[q].until <= pass.now => pass.rows[q].until <= pass.now
      BY <2>2, <2>6, <2>8, <3>1
    <3> QED
      BY <1>1, <2>7, <3>1, <3>2, <3>3 DEF Reads
  <2>10. GoodPass(p)
    BY <1>1, <2>6, <2>7, <2>9 DEF GoodPass
  <2>11. PassMild
    BY <1>1, <2>7, <2>10, PassTo
  <2> QED
    BY <2>3, <2>11, StayMild, AgentsStay, FaultTyped DEF PassRenews, Mild
<1>3. CASE ~Renewable(r, until, new)
  <2>1. LostCAS(r)
    BY <1>3 DEF PassRenews
  <2> QED
    BY <1>1, <2>1, LostMild, StayMild, AgentsStay, FaultTyped DEF PassRenews, Mild
<1> QED
  BY <1>2, <1>3

LEMMA PassCallsMild == ASSUME Inv, PassCalls PROVE Mild
<1> DEFINE r == pass.r
           row == pass.rows[r]
           a == agents[row.node]
<1>1. /\ pass \in Pass /\ Reads(pass) /\ pass.pc = "call" /\ r \in Replicas /\ row.state \in Active
  BY PassTyped DEF PassCalls, GoodPass
<1>2. row.node \in Nodes /\ reps[r].node = row.node /\ row.until \in Time
  BY <1>1 DEF Reads, Active, Pass, Row
<1>3. CASE a.pc = "down" \/ a.boots
  <2>1. SetPass(NoPass) /\ UNCHANGED hs
    BY <1>3 DEF PassCalls
  <2> QED
    BY <1>1, <2>1, SkipMild, StayMild, AgentsStay, FaultTyped DEF PassCalls, Mild, registry
<1>4. CASE ~(a.pc = "down" \/ a.boots)
  <2>1. PICK p : p = [Skip(r) EXCEPT !.pc = "wait", !.r = r]
    OBVIOUS
  <2>2. p \in Pass /\ p.pc = "wait" /\ p.r = r /\ GoodPass(p)
    <3>1. Skip(r) \in Pass /\ Reads(Skip(r))
      BY <1>1, SkipGood
    <3>2. /\ p \in Pass /\ p.pc = "wait" /\ p.r = r /\ p.now = Skip(r).now /\ p.nodes = Skip(r).nodes
          /\ p.want = Skip(r).want /\ p.wish = Skip(r).wish /\ p.rows = Skip(r).rows /\ p.todo = Skip(r).todo
      BY <1>1, <2>1, <3>1 DEF Pass
    <3>3. Reads(p)
      BY <3>1, <3>2 DEF Reads
    <3> QED
      BY <1>1, <3>2, <3>3 DEF GoodPass
  <2>3. PICK h \in Handlers : h = CHOOSE k \in Handlers : hs[k] = NoH
    BY <1>4 DEF PassCalls
  <2>4. PICK x : x = [NoH EXCEPT !.pc = "enter", !.r = r, !.lease = row.until, !.live = TRUE,
                                 !.op = Operation(row.state, r \in pass.retire)]
    OBVIOUS
  <2>5. SetPass(p) /\ SetH(h, x)
    BY <1>4, <2>1, <2>3, <2>4 DEF PassCalls, SetH
  <2>6. x \in Handler /\ x.pc = "enter" /\ x.r = r
    <3>1. Operation(row.state, r \in pass.retire) \in {"start", "probe", "drain", "stop"}
      BY <1>1 DEF Operation, Active, States, Terminal
    <3> QED
      BY <1>1, <1>2, <2>4, <3>1, NoHTyped DEF Handler, StartPCs
  <2>7. GoodHandler(x)
    BY <1>1, <1>2, <1>4, <2>6 DEF GoodHandler, Attended, Up
  <2>8. HandlersMild /\ hs'[h] = x /\ \A k \in Handlers \ {h} : hs'[k] = hs[k]
    BY <2>5, <2>6, <2>7, OneHandler
  <2>9. PassMild
    <3>1. \A k \in Handlers : hs'[k].live => k = h
      BY <1>1, <2>8 DEF Inv, LiveWaits
    <3>2. LiveWaits'
      BY <2>2, <2>5, <2>6, <2>8, <3>1 DEF LiveWaits, SetPass
    <3> QED
      BY <2>2, <2>5, <3>2 DEF PassMild, SetPass
  <2> QED
    BY <2>8, <2>9, StayMild, AgentsStay, FaultTyped DEF PassCalls, Mild, registry
<1> QED
  BY <1>3, <1>4

LEMMA PassGivesUpMild == ASSUME Inv, PassGivesUp PROVE Mild
<1>1. ASSUME NEW h \in Handlers
      PROVE  hs'[h] \in Handler /\ GoodHandler(hs'[h]) /\ ~hs'[h].live
  <2>1. PICK x : x = [hs[h] EXCEPT !.live = FALSE]
    OBVIOUS
  <2>2. hs[h] \in Handler /\ GoodHandler(hs[h]) /\ hs'[h] = x
    BY <2>1, HandlerTyped DEF PassGivesUp
  <2>3. x \in Handler /\ x.pc = hs[h].pc /\ x.r = hs[h].r /\ ~x.live
    BY <2>1, <2>2 DEF Handler
  <2> QED
    BY <2>2, <2>3 DEF GoodHandler
<1>2. HandlersMild
  <2>1. hs' \in [Handlers -> Handler]
    BY <1>1 DEF PassGivesUp
  <2> QED
    BY <1>1, <2>1 DEF HandlersMild
<1>3. PassMild
  BY <1>1, NoPassGood DEF PassGivesUp, SetPass, PassMild, LiveWaits
<1>4. Fault \/ NoFault
  BY DEF PassGivesUp
<1> QED
  BY <1>2, <1>3, <1>4, StayMild, AgentsStay, FaultTyped DEF PassGivesUp, Mild, registry

LEMMA PassDropsMild == ASSUME Inv, PassDrops PROVE Mild
<1>1. pass.r \in Replicas /\ pass.pc = "drop"
  BY PassTyped DEF PassDrops, GoodPass
<1>2. PassMild
  BY <1>1, SkipMild DEF PassDrops
<1>3. TablesMild
  BY <1>1, DropMild DEF PassDrops
<1> QED
  BY <1>2, <1>3, StayMild, AgentsStay, FaultTyped DEF PassDrops, Mild

(* Replicas are counted. *)
LEMMA Counted ==
  ASSUME NEW S \in SUBSET Replicas
  PROVE  IsFiniteSet(S) /\ Cardinality(S) \in Nat
  BY SetsAssumption, FS_Subset, FS_CardinalityType

LEMMA PassPlacesMild == ASSUME Inv, PassPlaces PROVE Mild
<1> DEFINE fresh == {r \in Replicas : reps[r].state = "absent"}
           seen == Cardinality(Occupied(reps, pass.now))
<1>1. pass \in Pass /\ Reads(pass) /\ pass.pc = "visit" /\ UNCHANGED hs
  BY PassTyped DEF PassPlaces
<1>2. CASE SetPass(NoPass)
  BY <1>1, <1>2, NoPassGood, PassTo, StayMild, AgentsStay, FaultTyped DEF PassPlaces, Mild, registry
<1>3. CASE \E n \in Pickable, r \in fresh : SetPass([pass EXCEPT !.pc = "claim", !.seen = seen, !.r = r, !.n = n])
  <2>1. PICK n \in Pickable, r \in fresh : SetPass([pass EXCEPT !.pc = "claim", !.seen = seen, !.r = r, !.n = n])
    BY <1>3
  <2>2. PICK p : p = [pass EXCEPT !.pc = "claim", !.seen = seen, !.r = r, !.n = n]
    OBVIOUS
  <2>3. n \in Nodes /\ r \in Replicas /\ reps[r].node = NoNode
    BY DEF Pickable, Inv, GoodRow
  <2>4. seen \in Nat
    BY Counted DEF Occupied
  <2>5. /\ p \in Pass /\ p.pc = "claim" /\ p.r = r /\ p.n = n /\ p.now = pass.now /\ p.nodes = pass.nodes
        /\ p.want = pass.want /\ p.wish = pass.wish /\ p.rows = pass.rows /\ p.todo = pass.todo
    <3> HIDE DEF seen
    <3> QED
      BY <1>1, <2>2, <2>3, <2>4 DEF Pass
  <2>6. Reads(p)
    BY <2>5, SameReads
  <2>7. GoodPass(p)
    BY <2>3, <2>5, <2>6 DEF GoodPass
  <2>8. PassMild
    BY <1>1, <2>1, <2>2, <2>5, <2>7, PassTo
  <2> QED
    BY <2>8, StayMild, AgentsStay, FaultTyped DEF PassPlaces, Mild, registry
<1> QED
  BY <1>2, <1>3 DEF PassPlaces

(* A claim that is refused. *)
LEMMA AgainGood ==
  ASSUME Inv, NEW r \in Replicas
  PROVE  LET again == [Skip(r) EXCEPT !.seen = 0, !.n = NoNode] IN
         /\ again \in Pass /\ again.pc = "visit" /\ again.now = pass.now /\ again.nodes = pass.nodes
         /\ again.want = pass.want /\ again.wish = pass.wish /\ again.todo = pass.todo \ {r}
         /\ again.rows = [pass.rows EXCEPT ![r] = NoRow]
         /\ GoodPass(again)
<1>1. PICK p : p = [Skip(r) EXCEPT !.seen = 0, !.n = NoNode]
  OBVIOUS
<1>2. pass \in Pass /\ Skip(r) \in Pass /\ Reads(Skip(r))
  BY SkipGood, PassTyped
<1>3. /\ Skip(r).pc = "visit" /\ Skip(r).now = pass.now /\ Skip(r).nodes = pass.nodes
      /\ Skip(r).want = pass.want /\ Skip(r).wish = pass.wish /\ Skip(r).todo = pass.todo \ {r}
      /\ Skip(r).rows = [pass.rows EXCEPT ![r] = NoRow]
  BY <1>2 DEF Skip, Pass
<1>4. /\ p \in Pass /\ p.pc = Skip(r).pc /\ p.now = Skip(r).now /\ p.nodes = Skip(r).nodes
      /\ p.want = Skip(r).want /\ p.wish = Skip(r).wish /\ p.rows = Skip(r).rows /\ p.todo = Skip(r).todo
  BY <1>1, <1>2 DEF Pass
<1>5. Reads(p)
  BY <1>2, <1>4 DEF Reads
<1>6. GoodPass(p)
  BY <1>3, <1>4, <1>5 DEF GoodPass
<1> QED
  BY <1>1, <1>3, <1>4, <1>6

Refused == Conflict \/ Expired \/ Full

LEMMA ClaimRefusedMild == ASSUME Inv, PassClaims, Refused PROVE Mild
<1>1. PICK again : again = [Skip(pass.r) EXCEPT !.seen = 0, !.n = NoNode]
  OBVIOUS
<1>2. pass.pc = "claim" /\ pass.r \in Replicas /\ UNCHANGED <<reps, eps, hs>>
  BY PassTyped DEF PassClaims, GoodPass, Refused
<1>3. SetPass(NoPass) \/ SetPass(again)
  BY <1>1 DEF PassClaims, Refused
<1>4. again \in Pass /\ GoodPass(again)
  BY <1>1, <1>2, AgainGood
<1>5. PassMild
  BY <1>2, <1>3, <1>4, NoPassGood, PassTo
<1> QED
  BY <1>2, <1>5, StayMild, AgentsStay, FaultTyped DEF PassClaims, Mild

-----------------------------------------------------------------------------
(* The claim of a replica: the one step that gives a replica a place.  Its   *)
(* lease is the node's as the pass read it, which is no later than the one   *)
(* the node has, for the node has kept its generation.                     *)

Claims == PassClaims /\ ~Refused

LEMMA ClaimFacts ==
  ASSUME Inv, Claims
  PROVE  /\ pass \in Pass /\ Reads(pass) /\ pass.pc = "claim" /\ pass.r \in Replicas /\ pass.n \in Nodes
         /\ reps[pass.r].node = NoNode /\ reps[pass.r].state = "absent"
         /\ nodes[pass.n].gen = pass.nodes[pass.n].gen /\ NodeLive(pass.n)
         /\ Granted <= nodes[pass.n].lease
         /\ want.gen = pass.wish /\ Cardinality(Occupied(reps, now)) < want.n
<1>1. /\ pass \in Pass /\ Reads(pass) /\ pass.pc = "claim" /\ pass.r \in Replicas /\ pass.n \in Nodes
      /\ reps[pass.r].node = NoNode
  BY PassTyped DEF Claims, PassClaims, GoodPass
<1>2. GoodRow(pass.r)
  BY <1>1 DEF Inv
<1>3. nodes[pass.n].gen = pass.nodes[pass.n].gen /\ NodeLive(pass.n) /\ want.gen = pass.wish
  BY DEF Claims, Refused, Conflict, Expired
<1>4. Cardinality(Occupied(reps, now)) < pass.want
  <2>1. Cardinality(Occupied(reps, now)) \in Nat /\ pass.want \in Nat
    BY <1>1, Counted DEF Occupied, Pass
  <2>2. ~(Cardinality(Occupied(reps, now)) >= pass.want)
    BY DEF Claims, Refused, Conflict
  <2> QED
    BY <2>1, <2>2
<1> QED
  BY <1>1, <1>2, <1>3, <1>4 DEF GoodRow, Reads, Granted

ClaimedRow == [state |-> "pending", node |-> pass.n, gen |-> nodes[pass.n].gen, until |-> Granted]

LEMMA ClaimRows ==
  ASSUME Inv, Claims
  PROVE  /\ ClaimedRow \in Row /\ reps' \in [Replicas -> Row] /\ reps'[pass.r] = ClaimedRow
         /\ \A q \in Replicas \ {pass.r} : reps'[q] = reps[q]
<1>1. pass \in Pass /\ pass.r \in Replicas /\ pass.n \in Nodes
  BY ClaimFacts
<1>2. nodes[pass.n].gen \in Nat /\ Granted \in Time
  BY <1>1 DEF Inv, TypeOK, NodeRow, Pass, Granted
<1>3. ClaimedRow \in Row
  BY <1>1, <1>2 DEF ClaimedRow, Row, States
<1>4. reps' = [reps EXCEPT ![pass.r] = ClaimedRow] /\ reps \in [Replicas -> Row]
  BY DEF Claims, PassClaims, Refused, ClaimedRow, Inv, TypeOK
<1> QED
  BY <1>1, <1>3, <1>4

LEMMA ClaimPass ==
  ASSUME Inv, Claims
  PROVE  pass' \in Pass /\ GoodPass(pass)' /\ LiveWaits'
<1> DEFINE r == pass.r
<1>0. PICK again : again = [Skip(r) EXCEPT !.seen = 0, !.n = NoNode]
  OBVIOUS
<1>1. /\ pass \in Pass /\ Reads(pass) /\ pass.pc = "claim" /\ r \in Replicas /\ pass.n \in Nodes
      /\ ClaimedRow \in Row /\ UNCHANGED <<now, nodes, want, hs>>
  BY ClaimFacts, ClaimRows DEF Claims, PassClaims
<1>2. PICK rows : rows = [pass.rows EXCEPT ![r] = ClaimedRow]
  OBVIOUS
<1>3. rows \in [Replicas -> Row] /\ rows[r] = ClaimedRow /\ \A q \in Replicas \ {r} : rows[q] = pass.rows[q]
  BY <1>1, <1>2 DEF Pass
<1>4. /\ again \in Pass /\ again.rows = [pass.rows EXCEPT ![r] = NoRow]
      /\ again.now = pass.now /\ again.nodes = pass.nodes
      /\ again.want = pass.want /\ again.wish = pass.wish /\ again.todo = pass.todo \ {r}
  BY <1>0, <1>1, AgainGood
<1>5. PICK p : p = [again EXCEPT !.pc = "call", !.r = r, !.rows[r] = ClaimedRow]
  OBVIOUS
<1>6. [again.rows EXCEPT ![r] = ClaimedRow] = rows
  BY <1>1, <1>2, <1>4 DEF Pass
<1>7. p = [again EXCEPT !.pc = "call", !.r = r, !.rows = rows]
  BY <1>5, <1>6
<1>8. /\ p \in Pass /\ p.pc = "call" /\ p.r = r /\ p.rows = rows
      /\ p.now = pass.now /\ p.nodes = pass.nodes
      /\ p.want = pass.want /\ p.wish = pass.wish /\ p.todo = pass.todo \ {r}
  <2> HIDE DEF r
  <2> QED
    BY <1>1, <1>3, <1>4, <1>7 DEF Pass
<1>9. pass' = p
  BY <1>0, <1>5 DEF Claims, PassClaims, Refused, SetPass, ClaimedRow
<1>10. ASSUME NEW q \in Replicas, rows[q].state # "absent"
       PROVE  rows[q].node \in Nodes /\ reps'[q].node = rows[q].node /\ reps'[q].gen = rows[q].gen
  <2>1. CASE q = r
    BY <1>1, <1>3, <2>1, ClaimRows DEF ClaimedRow
  <2>2. CASE q # r
    BY <1>1, <1>3, <1>10, <2>2, ClaimRows DEF Reads
  <2> QED
    BY <2>1, <2>2
<1>11. ASSUME NEW q \in pass.todo \ {r}
       PROVE  rows[q].state \in Active /\ (rows[q].until <= pass.now => reps'[q].until <= now)
  <2>1. q \in Replicas
    BY <1>1 DEF Pass
  <2> QED
    BY <1>1, <1>3, <2>1, ClaimRows DEF Reads
<1>12. Reads(p)'
  BY <1>1, <1>8, <1>10, <1>11 DEF Reads, NodeLive
<1>13. rows[r].state \in Active
  BY <1>3 DEF ClaimedRow, Active, States, Terminal
<1>14. GoodPass(p)'
  BY <1>1, <1>8, <1>12, <1>13 DEF GoodPass
<1>15. LiveWaits'
  BY <1>1 DEF Inv, LiveWaits
<1> QED
  BY <1>8, <1>9, <1>14, <1>15

LEMMA ClaimKeeps == ASSUME Inv, Claims PROVE Inv'
<1> DEFINE r == pass.r
<1>1. UNCHANGED <<now, nodes, eps, cmds, want, procs, agents, hs>> /\ NoFault
  BY DEF Claims, PassClaims
<1>2. NodesMild /\ RestMild /\ ProcsMild /\ HandlersMild /\ AgentsMild
  BY <1>1, StayMild, AgentsStay, FaultTyped
<1>3. PlacedStay
  BY ClaimFacts, ClaimRows DEF PlacedStay
<1>4. TypeOK'
  BY <1>1, <1>2, ClaimRows, ClaimPass DEF TypeOK, Inv, RestMild
<1>5. ASSUME NEW q \in Replicas PROVE GoodRow(q)'
  <2>1. CASE q = r
    <3>1. reps'[q] = ClaimedRow /\ pass.n \in Nodes /\ pass.n # NoNode
      BY <2>1, ClaimFacts, ClaimRows, SetsAssumption
    <3>2. nodes[pass.n].gen \in Nat
      BY <3>1 DEF Inv, TypeOK, NodeRow
    <3> QED
      BY <1>1, <3>1, <3>2, ClaimFacts DEF GoodRow, ClaimedRow
  <2>2. CASE q # r
    <3>1. reps'[q] = reps[q] /\ GoodRow(q)
      BY <2>2, ClaimRows DEF Inv
    <3> QED
      BY <1>1, <3>1 DEF GoodRow, Current, NodeLive
  <2> QED
    BY <2>1, <2>2
<1>6. EndpointFollowsRow'
  <2>1. eps[r].state = "none" /\ r \in Replicas
    BY ClaimFacts DEF Inv, TypeOK, Endpoint, EndpointFollowsRow
  <2> QED
    BY <1>1, <2>1, ClaimRows, FollowsIfOne DEF ClaimedRow
<1>7. want'.gen >= 1
  BY <1>1 DEF Inv
<1> QED
  BY <1>2, <1>3, <1>4, <1>5, <1>6, <1>7, ProcsKept, HandlersKept, AgentsKept, ClaimPass DEF Inv

-----------------------------------------------------------------------------
(* The invariant. *)

LEMMA SchedulingSteps == ASSUME Inv, Scheduling PROVE Mild \/ Claims
  BY PassBeginsMild, PassListsMild, PassValidatesMild, PassRenewsMild, PassCallsMild, PassGivesUpMild,
     PassDropsMild, PassPlacesMild, PassExpiresMild, PassVisitsMild, ClaimRefusedMild DEF Scheduling, Claims

LEMMA StutterMild == ASSUME Inv, UNCHANGED vars PROVE Mild
<1>1. faults' \in 0 .. MaxFaults
  BY DEF Inv, TypeOK, vars
<1> QED
  BY <1>1, StayMild, AgentsStay DEF vars, registry, Mild

LEMMA Steps == ASSUME Inv, [Next]_vars PROVE Mild \/ Claims
  BY TickMild, WishMild, SchedulingSteps, NodalMild, ReconcilingMild, HandlingMild, RenewCommandMild,
     LaneMild, ProcessMild, StutterMild DEF Next

LEMMA NextInv == ASSUME Inv, [Next]_vars PROVE Inv'
  BY Steps, MildKeeps, ClaimKeeps

LEMMA InitInv == Init => Inv
<1> SUFFICES ASSUME Init PROVE Inv
  OBVIOUS
<1>1. /\ NoRows \in [Replicas -> Row] /\ NoNodes \in [Nodes -> NodeRow] /\ NoEp \in Endpoint
      /\ NoProcs \in [Replicas -> ProcStates] /\ NoPass \in Pass
  BY TimesTyped DEF NoRows, NoRow, Row, States, NoNodes, NoNodeRow, NodeRow, NoEp, Endpoint, NoProcs,
     ProcStates, NoPass, Pass
<1>2. [status |-> "none", token |-> 0, lease |-> 0, reason |-> "ok"] \in Command
  BY TimesTyped DEF Command
<1>3. \A n \in Nodes : Idle("down") \in Agent /\ GoodAgent(n, Idle("down"))
  BY IdleGood
<1>4. TypeOK /\ want.gen >= 1
  BY <1>1, <1>2, <1>3, NoHTyped, BoundsAssumption DEF Init, TypeOK
<1>5. \A r \in Replicas : GoodRow(r) /\ GoodProc(r, procs[r])
  BY SetsAssumption DEF Init, GoodRow, NoRows, NoRow, GoodProc, NoProcs
<1>6. EndpointFollowsRow
  BY DEF Init, EndpointFollowsRow, NoEp, NoRows, NoRow
<1>7. \A h \in Handlers : GoodHandler(hs[h])
  BY DEF Init, GoodHandler, NoH
<1>8. \A n \in Nodes : GoodAgent(n, agents[n])
  BY <1>3 DEF Init
<1>9. GoodPass(pass) /\ LiveWaits
  BY DEF Init, GoodPass, Reads, LiveWaits, NoPass, NoNodes, NoNodeRow, NoRows, NoRow, NoH, NodeLive
<1> QED
  BY <1>4, <1>5, <1>6, <1>7, <1>8, <1>9 DEF Inv

(* Whatever crashes, stalls or is lost, the tables, the agents, the requests  *)
(* they serve and the scheduler's pass keep Inv.                              *)
THEOREM Invariance == Spec => []Inv
  BY InitInv, NextInv, PTL DEF Spec

(* The tables stay well formed, and no agent keeps a process for an           *)
(* assignment to an earlier life of its node.                              *)
THEOREM AgentsStaySound == Spec => []AgentsSound
<1>1. Inv => AgentsSound
  BY DEF Inv, AgentsSound, ProcessesAreCurrent, GoodProc
<1> QED
  BY <1>1, Invariance, PTL

(* What is routed is what the rows say, after every transaction. *)
THEOREM EndpointsFollow == Spec => []EndpointFollowsRow
<1>1. Inv => EndpointFollowsRow
  BY DEF Inv
<1> QED
  BY <1>1, Invariance, PTL

(* No assignment outlives the lease of its node, whatever was read before a   *)
(* claim, a renewal or a revival of the replica.                           *)
THEOREM LeasesAreNested == Spec => []LeaseWithinNode
<1>1. Inv => LeaseWithinNode
  BY ActiveNode DEF Inv, LeaseWithinNode, GoodRow, Active
<1> QED
  BY <1>1, Invariance, PTL

-----------------------------------------------------------------------------
(* What a step may do. *)

FencedStep ==
  \A r \in Replicas :
    eps'[r].state = "ready" /\ (eps[r].state # "ready" \/ eps'[r].until > eps[r].until)
    => Assigned(r) /\ ~nodes[reps[r].node].cordoned

(* A replica is published, and its endpoint prolonged, only under a live      *)
(* assignment to the present life of a node that takes traffic.            *)
THEOREM FencesHold == Spec => FencedNotPublished
<1>1. ASSUME Inv, [Next]_vars PROVE FencedStep
  <2>1. CASE Mild
    BY <2>1 DEF Mild, TablesMild, Published, Servable, FencedStep
  <2>2. CASE Claims
    <3>1. \A r \in Replicas : eps[r].until \in Nat /\ eps'[r] = eps[r]
      BY <1>1, <2>2, TimesTyped DEF Inv, TypeOK, Endpoint, Claims, PassClaims
    <3> QED
      BY <3>1 DEF FencedStep
  <2> QED
    BY <1>1, <2>1, <2>2, Steps
<1>2. Inv /\ [Next]_vars => [FencedStep]_vars
  BY <1>1
<1> QED
  BY <1>2, Invariance, PTL DEF Spec, FencedNotPublished, FencedStep

ClaimStep ==
  \A r \in Replicas : reps[r].state = "absent" /\ reps'[r].state # "absent"
                      => Cardinality(Occupied(reps', now)) <= want.n

(* A claim leaves no more live assignments than are wanted when it is made.   *)
THEOREM ClaimsAreCounted == Spec => ClaimsWithinDesire
<1>1. ASSUME Inv, [Next]_vars PROVE ClaimStep
  <2>1. CASE Mild
    BY <2>1 DEF Mild, TablesMild, SameReplica, ClaimStep
  <2>2. CASE Claims
    <3> DEFINE before == Occupied(reps, now)
               after == Occupied(reps', now)
    <3>1. Cardinality(before) < want.n /\ IsFiniteSet(before) /\ Cardinality(before) \in Nat
      <4>1. before \in SUBSET Replicas
        BY DEF Occupied
      <4> QED
        BY <1>1, <2>2, <4>1, ClaimFacts, Counted
    <3>2. after \subseteq before \cup {pass.r}
      BY <1>1, <2>2, ClaimRows DEF Occupied, Occupies
    <3>3. /\ IsFiniteSet(before \cup {pass.r}) /\ Cardinality(before \cup {pass.r}) \in Nat
          /\ Cardinality(before \cup {pass.r}) <= Cardinality(before) + 1
      <4> HIDE DEF before
      <4>1. /\ IsFiniteSet(before \cup {pass.r})
            /\ Cardinality(before \cup {pass.r}) \in {Cardinality(before), Cardinality(before) + 1}
        BY <3>1, FS_AddElement, Zenon
      <4> QED
        BY <3>1, <4>1
    <3>4. Cardinality(after) \in Nat /\ Cardinality(after) <= Cardinality(before \cup {pass.r})
      BY <3>2, <3>3, FS_Subset, FS_CardinalityType
    <3>5. want.n \in Nat
      BY <1>1, BoundsAssumption DEF Inv, TypeOK
    <3> QED
      BY <3>1, <3>3, <3>4, <3>5 DEF ClaimStep
  <2> QED
    BY <1>1, <2>1, <2>2, Steps
<1>2. Inv /\ [Next]_vars => [ClaimStep]_vars
  BY <1>1
<1> QED
  BY <1>2, Invariance, PTL DEF Spec, ClaimsWithinDesire, ClaimStep

DropStep ==
  \A r \in Replicas :
    pass' # pass /\ hs' = hs /\ pass.pc # "drop" /\ reps[r].state \in Active /\ reps'[r].state = "failed"
    => ~StillLive(r)

(* Only the row that is dropped changes its state. *)
LEMMA DropOne ==
  ASSUME Inv, NEW q \in Replicas, Drop(q), NEW r \in Replicas, r # q
  PROVE  reps'[r] = reps[r]
  BY DEF Drop, Observe, Inv, TypeOK

LEMMA LostDropsDead ==
  ASSUME Inv, NEW q \in Replicas, LostCAS(q), NEW r \in Replicas, reps'[r] # reps[r]
  PROVE  ~StillLive(r)
  BY DropOne DEF LostCAS

(* The pass's time is past: what had ended then has ended. *)
LEMMA ExpiredDead ==
  ASSUME Inv, NEW r \in Replicas, PassExpires(r)
  PROVE  ~StillLive(r)
<1> DEFINE row == pass.rows[r]
           n == row.node
<1>1. pass \in Pass /\ Reads(pass) /\ r \in pass.todo
  BY PassTyped DEF PassExpires
<1>2. row.state \in Active /\ n \in Nodes /\ reps[r].node = n /\ reps[r].gen = row.gen
  BY <1>1 DEF Reads, Active
<1>3. /\ pass.now \in Nat /\ now \in Nat /\ pass.now <= now /\ reps[r].until \in Nat
      /\ nodes[n].lease \in Nat
  BY <1>1, <1>2, TimesTyped DEF Reads, Pass, Inv, TypeOK, Row, NodeRow
<1>4. CASE row.until <= pass.now
  BY <1>1, <1>3, <1>4 DEF Reads, StillLive, Assigned
<1>5. CASE ~Fits(row, nodes[n])
  BY <1>2, <1>3, <1>5 DEF Fits, StillLive, Assigned, Current, NodeLive
<1> QED
  BY <1>4, <1>5 DEF PassExpires

LEMMA ValidatedDead ==
  ASSUME Inv, PassValidates, NEW r \in Replicas, reps'[r] # reps[r]
  PROVE  ~StillLive(r)
<1>1. /\ pass \in Pass /\ Reads(pass) /\ pass.r \in Replicas /\ pass.rows[pass.r].state \in Active
  BY PassTyped DEF PassValidates, GoodPass
<1>2. PICK v : v = Validity(pass.r, pass.rows[pass.r].until, pass.now)
  OBVIOUS
<1>3. v \in {"stale", "expired", "moved", "valid"}
  BY <1>1, <1>2, ValidCurrent
<1>4. CASE v = "expired"
  <2>1. Drop(pass.r)
    BY <1>2, <1>4 DEF PassValidates
  <2>2. r = pass.r
    BY <1>1, <2>1, DropOne
  <2>3. reps[r].node \in Nodes
    BY <1>1, <2>2 DEF Reads, Active
  <2>4. /\ pass.now \in Nat /\ now \in Nat /\ pass.now <= now /\ reps[r].until \in Nat
        /\ nodes[reps[r].node].lease \in Nat
    BY <1>1, <2>3, TimesTyped DEF Reads, Pass, Inv, TypeOK, Row, NodeRow
  <2>5. reps[r].until <= pass.now \/ nodes[reps[r].node].lease <= pass.now
    BY <1>2, <1>4, <2>2 DEF Validity
  <2> QED
    BY <2>4, <2>5 DEF StillLive, Assigned, NodeLive
<1>5. CASE v = "moved"
  <2>1. LostCAS(pass.r)
    BY <1>2, <1>5 DEF PassValidates
  <2> QED
    BY <1>1, <2>1, LostDropsDead
<1>6. CASE v \in {"stale", "valid"}
  BY <1>2, <1>6 DEF PassValidates
<1> QED
  BY <1>3, <1>4, <1>5, <1>6

LEMMA RenewedDead ==
  ASSUME Inv, PassRenews, NEW r \in Replicas, reps'[r].state # reps[r].state
  PROVE  ~StillLive(r)
<1>1. pass.r \in Replicas
  BY PassTyped DEF PassRenews, GoodPass
<1>2. CASE Renew(pass.r, pass.node.lease)
  BY <1>1, <1>2 DEF Renew, Inv, TypeOK, Row
<1>3. CASE LostCAS(pass.r)
  BY <1>1, <1>3, LostDropsDead
<1> QED
  BY <1>2, <1>3 DEF PassRenews

(* A step of an agent, or of a request it serves, that ends the pass leaves   *)
(* the rows alone, or the request has returned.                            *)
LEMMA AgentPasses == ASSUME NEW n \in Nodes, Nodal(n) \/ Reconciling(n) PROVE UNCHANGED pass \/ UNCHANGED reps
<1>1. CASE Nodal(n)
  BY <1>1 DEF Nodal, Activate, Heartbeat, Cordon, HeartbeatLost, Crash, Shutdown, registry
<1>2. CASE Reconciling(n)
  BY <1>2 DEF Reconciling, ReconcileBegins, ReconcileLists, ReconcileLooks, ReconcileOffline, ReconcileVisits,
     ReconcileTerminalizes, ReconcileStops, ReconcileRecordsStopped, ReconcileWithdraws,
     ReconcileRecordsStarting, ReconcileBoots, ReconcileGates, ReconcileGivesUp, ReconcileRecordsReady,
     ReconcileSweeps, registry
<1> QED
  BY <1>1, <1>2

LEMMA ReturnChanges ==
  ASSUME Inv, NEW h \in Handlers, NEW result, Return(h, result), hs[h].pc # "idle"
  PROVE  hs' # hs
<1>1. hs'[h] = NoH
  BY DEF Return, SetH, Inv, TypeOK
<1> QED
  BY <1>1 DEF NoH

LEMMA HandlerPasses == ASSUME Inv, NEW h \in Handlers, Handling(h) PROVE UNCHANGED pass \/ hs' # hs
<1>1. hs[h].pc # "idle"
  BY DEF Handling, HEnters, HReads, HClaims, HVerifies, HDiagnoses, HRecords, HBoots, HGates, HProbesStart,
     HRereads, HCommits, HFails, HCleans, HRecordsFailed, HCompletes, HProbes, HAdvises, HWithdraws, HHalts,
     HTerminalizes
<1>2. UNCHANGED pass \/ \E result : Return(h, result)
  <2>1. CASE HEnters(h) \/ HReads(h) \/ HClaims(h)
    <3>1. CASE HEnters(h)
      BY <3>1 DEF HEnters
    <3>2. CASE HReads(h)
      <4>1. hs[h].r \in Replicas
        BY <1>1, HandlerAtWork
      <4>2. PICK v : v = Validity(hs[h].r, hs[h].lease, now)
        OBVIOUS
      <4>3. v \in {"stale", "expired", "moved", "valid"}
        BY <4>1, <4>2, ValidCurrent
      <4> QED
        BY <3>2, <4>2, <4>3 DEF HReads
    <3>3. CASE HClaims(h)
      <4>1. cmds[hs[h].r].status \in {"none", "running", "succeeded", "failed"}
        BY <1>1, HandlerAtWork DEF Inv, TypeOK, Command
      <4> QED
        BY <3>3, <4>1 DEF HClaims
    <3> QED
      BY <2>1, <3>1, <3>2, <3>3
  <2>2. CASE ~(HEnters(h) \/ HReads(h) \/ HClaims(h))
    BY <2>2 DEF Handling, HVerifies, HDiagnoses, HRecords, HBoots, HGates, HProbesStart, HRereads, HCommits,
       HFails, HCleans, HRecordsFailed, HCompletes, HProbes, HAdvises, HWithdraws, HHalts, HTerminalizes, Commit
  <2> QED
    BY <2>1, <2>2
<1> QED
  BY <1>1, <1>2, ReturnChanges

(* What a pass decides by itself, it decides right: no assignment that is     *)
(* live is failed but on an agent's word (convergeReplica).                  *)
THEOREM DropsAreDead == Spec => DropsOnlyDead
<1>1. ASSUME Inv, [Next]_vars PROVE DropStep
  <2> SUFFICES ASSUME NEW r \in Replicas, pass' # pass, hs' = hs, pass.pc # "drop",
                      reps[r].state \in Active, reps'[r].state = "failed"
               PROVE  ~StillLive(r)
    BY DEF DropStep
  <2>1. reps'[r].state # reps[r].state /\ reps'[r] # reps[r]
    BY DEF Active, Terminal
  <2>2. Scheduling
    BY <1>1, <2>1, AgentPasses, HandlerPasses
       DEF Next, Tick, Wish, LaneRenews, ProcessFails, ProcessSettles, RenewCommand, registry, vars
  <2>3. CASE PassValidates \/ PassRenews
    BY <1>1, <2>1, <2>3, ValidatedDead, RenewedDead
  <2>4. CASE \E q \in Replicas : PassExpires(q)
    BY <1>1, <2>1, <2>4, ExpiredDead, DropOne DEF PassExpires
  <2>5. CASE PassClaims
    <3>1. reps'[r] = reps[r] \/ Claims
      BY <2>5 DEF PassClaims, Claims, Refused
    <3> QED
      BY <1>1, <2>1, <3>1, ClaimRows DEF ClaimedRow
  <2> QED
    BY <2>1, <2>2, <2>3, <2>4, <2>5
       DEF Scheduling, PassBegins, PassLists, PassCalls, PassGivesUp, PassDrops, PassPlaces, PassVisits, registry
<1>2. Inv /\ [Next]_vars => [DropStep]_vars
  BY <1>1
<1> QED
  BY <1>2, Invariance, PTL DEF Spec, DropsOnlyDead, DropStep
=============================================================================
