------------------------------ MODULE NodeLife ------------------------------
(***************************************************************************)
(* The lives of one node's standalone agent (agentrun.Run) against the     *)
(* controller's node registration and registry relay: a life listens, asks *)
(* for the node's status, activates the next generation, reconciles, opens *)
(* its listener to commands, then sends heartbeats and relayed reads from  *)
(* one loop until it stops, quiesces and releases the lease.               *)
(*                                                                         *)
(* A request is checked (replay cache, scope window, reads of the node's   *)
(* row) in one step and written by another transaction in the next; an     *)
(* answer can be lost, and a request its sender gave up may still be       *)
(* written.  Two lives can overlap: the fence is the generation.  Of the   *)
(* relayed calls the reconcile's list stands for all; what they write is   *)
(* in Replicas.                                                            *)
(***************************************************************************)
EXTENDS Integers, FiniteSets

CONSTANTS
    Lives,        \* starts of the agent's process, numbered in their order
    NodeTtl,      \* HeartbeatTTL, in ticks
    ScopeTtl,     \* MaxControlPlaneScopeTTL, in ticks
    LifeCommands, \* bound: commands a life executes at once
    LifeFaults,   \* bound: lost answers, refusals of the controller, crashes
    LifeTime      \* bound: the time the instance ends

ASSUME LifeAssumption ==
    /\ Lives \subseteq Nat /\ LifeTime \in Nat \ {0}
    /\ {NodeTtl, ScopeTtl, LifeCommands, LifeFaults} \subseteq Nat

VARIABLES
    ticks,
    node,   \* the runtime_nodes row: [gen, until]; gen 0: no row
    seen,   \* the replay caches: each key without a generation, until when
    life,   \* each life: [at, gen, open, cmds]
    requests,   \* requests under way, and answers not yet heard
    woes    \* faults so far

nlVars == <<ticks, node, seen, life, requests, woes>>

\* The calls whose replay key has no generation, in the order a process makes
\* them: their nonces (agent-1, agent-2, relay-1) are the same in every life.
Unscoped == {"status", "activate", "list"}
LifeOps == Unscoped \cup {"heartbeat", "reconcile", "release"}
LifeAnswers == {"none", "ok", "replay", "stale", "expired", "unavailable"}
LifeAts == {"off", "status", "activate", "list", "loop", "heartbeat", "reconcile",
            "quiesce", "release", "gone"}
LifeTimes == 0 .. LifeTime + NodeTtl + ScopeTtl

Request == [by : Lives, op : LifeOps, gen : Nat, exp : Nat, sent : LifeTimes, heard : BOOLEAN,
            at : {"sent", "checked", "done"}, until : LifeTimes, ans : LifeAnswers, found : Nat]

Unborn == [at |-> "off", gen |-> 0, open |-> FALSE, cmds |-> 0]

NlInit ==
    /\ ticks = 1 /\ node = [gen |-> 0, until |-> 0] /\ seen = [o \in Unscoped |-> 0]
    /\ life = [l \in Lives |-> Unborn] /\ requests = {} /\ woes = 0

-----------------------------------------------------------------------------
(* The agent.                                                               *)

SetLife(l, row) == life' = [life EXCEPT ![l] = row]

Goes(l, at) == SetLife(l, [life[l] EXCEPT !.at = at])

LifeOnly == UNCHANGED <<ticks, node, seen>>

\* registrationScope: a request of l, which waits for the answer.
LifeCall(l, op) == [by |-> l, op |-> op, gen |-> life[l].gen, exp |-> 0,
                sent |-> ticks, heard |-> TRUE, at |-> "sent", until |-> 0, ans |-> "none",
                found |-> 0]

\* NewRelayScope: the agent's store asks over the relay, without a generation.
RelayCall(l) == [LifeCall(l, "reconcile") EXCEPT !.gen = 0]

Calling(l) == {q \in requests : q.by = l /\ q.heard}

\* Cancelling the run's context gives up the call in flight: the controller may
\* still serve it.
GivenUp(l) == {IF q.by = l THEN [q EXCEPT !.heard = FALSE] ELSE q :
                 q \in {p \in requests : p.by # l \/ p.at # "done"}}

\* The listener is up, not accepting; the status is asked.
LifeStarts(l) ==
    /\ life[l].at = "off" /\ \A k \in Lives : k < l => life[k].at # "off"
    /\ Goes(l, "status") /\ requests' = requests \cup {LifeCall(l, "status")}
    /\ LifeOnly /\ UNCHANGED woes

\* quiesce: the context is cancelled and the listener closed to new commands.
Quits(l) ==
    SetLife(l, [life[l] EXCEPT !.at = "quiesce", !.open = FALSE])

\* Mutant of FatalAnswer: a stale generation is retried.
FatalWhenExpired(ans) == ans = "expired"

\* RuntimeNodeHeartbeatFatal, ReconcileNodeErrorFatal.
FatalAnswer(ans) == ans \in {"stale", "expired"}

Hears(l, q, op) == q \in Calling(l) /\ q.at = "done" /\ q.op = op
CallOver(q) == requests' = requests \ {q}
Then(q, next) == requests' = (requests \ {q}) \cup {next}

\* expectedActivationGeneration: a lease that is live is somebody's.
HearsStatus(l, q) ==
    /\ Hears(l, q, "status")
    /\ IF q.ans = "ok" /\ q.until <= ticks
         THEN /\ Goes(l, "activate")
              /\ Then(q, [LifeCall(l, "activate") EXCEPT !.exp = q.found])
         ELSE Quits(l) /\ CallOver(q)

\* The boot reconcile begins with the list of the node's replicas.
HearsActivate(l, q) ==
    /\ Hears(l, q, "activate")
    /\ IF q.ans = "ok"
         THEN /\ SetLife(l, [life[l] EXCEPT !.at = "list", !.gen = q.exp + 1])
              /\ Then(q, [RelayCall(l) EXCEPT !.op = "list"])
         ELSE Quits(l) /\ CallOver(q)

HearsList(l, q) ==
    /\ Hears(l, q, "list") /\ CallOver(q)
    /\ IF q.ans = "ok" THEN SetLife(l, [life[l] EXCEPT !.at = "loop", !.open = TRUE]) ELSE Quits(l)

HearsInLoop(l, q) ==
    /\ Hears(l, q, "heartbeat") \/ Hears(l, q, "reconcile")
    /\ CallOver(q) /\ IF FatalAnswer(q.ans) THEN Quits(l) ELSE Goes(l, "loop")

HearsRelease(l, q) == Hears(l, q, "release") /\ CallOver(q) /\ Goes(l, "gone")

HearsAnswer(l) ==
    /\ \E q \in requests : \/ HearsStatus(l, q) \/ HearsActivate(l, q) \/ HearsList(l, q)
                       \/ HearsInLoop(l, q) \/ HearsRelease(l, q)
    /\ LifeOnly /\ UNCHANGED woes

\* The client's timeout, a broken connection: the call fails, as one answered
\* registry_unavailable; the request may still be served.
HearsNothing(l) ==
    /\ woes < LifeFaults /\ woes' = woes + 1
    /\ Calling(l) # {}
    /\ requests' = GivenUp(l)
    /\ \/ life[l].at \in {"heartbeat", "reconcile"} /\ Goes(l, "loop")
       \/ life[l].at = "release" /\ Goes(l, "gone")
       \/ life[l].at \in {"status", "activate", "list"} /\ Quits(l)
    /\ LifeOnly

\* The loop's tickers: one call at a time.
HeartbeatDue(l) ==
    /\ life[l].at = "loop"
    /\ Goes(l, "heartbeat") /\ requests' = requests \cup {LifeCall(l, "heartbeat")}
    /\ LifeOnly /\ UNCHANGED woes

ReconcileDue(l) ==
    /\ life[l].at = "loop"
    /\ Goes(l, "reconcile") /\ requests' = requests \cup {RelayCall(l)}
    /\ LifeOnly /\ UNCHANGED woes

\* The process is told to stop, or its server fails.
StopAsked(l) ==
    /\ life[l].at \in {"status", "activate", "list", "loop", "heartbeat", "reconcile"}
    /\ Quits(l) /\ requests' = GivenUp(l)
    /\ LifeOnly /\ UNCHANGED woes

\* Everything has ended within the deadline: releaseLease.
Quiesced(l) ==
    /\ life[l].at = "quiesce" /\ life[l].cmds = 0
    /\ IF life[l].gen > 0
         THEN Goes(l, "release") /\ requests' = requests \cup {LifeCall(l, "release")}
         ELSE Goes(l, "gone") /\ UNCHANGED requests
    /\ LifeOnly /\ UNCHANGED woes

\* Mutant of QuiesceTimesOut: the lease is released all the same.
ReleasesAnyway(l) ==
    /\ life[l].at = "quiesce" /\ life[l].cmds > 0 /\ life[l].gen > 0
    /\ Goes(l, "release") /\ requests' = requests \cup {LifeCall(l, "release")}
    /\ LifeOnly /\ UNCHANGED woes

\* A command outlasts the deadline: the process exits, the lease stays.
QuiesceTimesOut(l) ==
    /\ life[l].at = "quiesce" /\ life[l].cmds > 0
    /\ SetLife(l, [life[l] EXCEPT !.at = "gone", !.cmds = 0]) /\ UNCHANGED requests
    /\ LifeOnly /\ UNCHANGED woes

LifeCrashes(l) ==
    /\ woes < LifeFaults /\ woes' = woes + 1
    /\ life[l].at \notin {"off", "gone"}
    /\ SetLife(l, [life[l] EXCEPT !.at = "gone", !.open = FALSE, !.cmds = 0]) /\ requests' = GivenUp(l)
    /\ LifeOnly

\* handleStart, handleStop, ...: a command passes the gate, and ends.
CommandIn(l) ==
    /\ life[l].open /\ life[l].cmds < LifeCommands
    /\ SetLife(l, [life[l] EXCEPT !.cmds = @ + 1])
    /\ LifeOnly /\ UNCHANGED <<requests, woes>>

CommandOut(l) ==
    /\ life[l].cmds > 0
    /\ SetLife(l, [life[l] EXCEPT !.cmds = @ - 1])
    /\ LifeOnly /\ UNCHANGED <<requests, woes>>

-----------------------------------------------------------------------------
(* The controller.                                                          *)

Replayed(q) == q.op \in Unscoped /\ seen[q.op] > ticks
InWindow(q) == q.sent + ScopeTtl > ticks
NodeAlive   == node.until > ticks
Binding(q)  == node.gen = q.gen

\* ensureRegisteredNode, with the lease for a heartbeat.
Registered(q) ==
    IF ~Binding(q) THEN "stale" ELSE IF q.op = "heartbeat" /\ ~NodeAlive THEN "expired" ELSE "ok"

\* nextGeneration and ExpectedGeneration.
Activatable(q) == IF NodeAlive \/ q.exp # node.gen THEN "stale" ELSE "ok"

\* The relay's ensureRegisteredNode: any generation of the node will do.
RelayRegistered(q) == IF node.gen = 0 THEN "unavailable" ELSE IF ~NodeAlive THEN "expired" ELSE "ok"

Verdict(q) ==
    IF Replayed(q) THEN "replay"
    ELSE IF ~InWindow(q) THEN "unavailable"
    ELSE IF q.op = "status" THEN "ok"
    ELSE IF q.op = "activate" THEN Activatable(q)
    ELSE IF q.op \in {"heartbeat", "release"} THEN Registered(q)
    ELSE RelayRegistered(q)

\* The answer of q goes to whoever still waits for it.
Answered(q, ans) ==
    IF q.heard THEN {[q EXCEPT !.at = "done", !.ans = ans, !.sent = 0]} ELSE {}

Writes(q) == q.op \in {"activate", "heartbeat", "release"}

\* Consume: the key is remembered until the scope expires, whatever comes of it.
Consumes(q) == seen' = IF q.op \in Unscoped /\ ~Replayed(q)
                         THEN [seen EXCEPT ![q.op] = q.sent + ScopeTtl] ELSE seen

\* handleStatus: answered from the row; handleActivate, handleHeartbeat,
\* handleRelease: refused, or left to the store.
Checks(q) ==
    /\ q \in requests /\ q.at = "sent" /\ q.op \notin {"list", "reconcile"} /\ Consumes(q)
    /\ requests' = (requests \ {q}) \cup
         IF Verdict(q) = "ok" /\ Writes(q)
           THEN {[q EXCEPT !.at = "checked", !.sent = 0,
                           !.until = IF q.op = "release" THEN 0 ELSE ticks + NodeTtl]}
         ELSE IF Verdict(q) = "ok"
           THEN Answered([q EXCEPT !.until = node.until, !.found = node.gen], "ok")
         ELSE Answered(q, Verdict(q))
    /\ UNCHANGED <<ticks, node, life, woes>>

\* handleListByNode, and the other routes of the relay.
RelayChecks(q) ==
    /\ q \in requests /\ q.at = "sent" /\ q.op \in {"list", "reconcile"} /\ Consumes(q)
    /\ requests' = (requests \ {q}) \cup Answered(q, Verdict(q))
    /\ UNCHANGED <<ticks, node, life, woes>>

\* Mutant of Matches: an activation overwrites the row it finds.
ActivatesBlindly(q) ==
    /\ q.op = "heartbeat" => node.gen = q.gen /\ q.until > ticks
    /\ q.op = "release"   => node.gen = q.gen /\ NodeAlive

\* ActivateRuntimeNode, RenewRuntimeNodeLease, ReleaseRuntimeNodeLease: what the
\* statement's WHERE asks of the row.
Matches(q) ==
    /\ q.op = "activate"  => node.gen = q.exp
    /\ q.op = "heartbeat" => node.gen = q.gen /\ q.until > ticks
    /\ q.op = "release"   => node.gen = q.gen /\ NodeAlive

NodeWritten(q) ==
    [gen   |-> IF q.op = "activate" THEN q.exp + 1 ELSE node.gen,
     until |-> IF q.op = "release" THEN 0 ELSE q.until]

Commits(q) ==
    /\ q \in requests /\ q.at = "checked"
    /\ node' = IF Matches(q) THEN NodeWritten(q) ELSE node
    /\ requests' = (requests \ {q}) \cup
         Answered([q EXCEPT !.until = 0], IF Matches(q) THEN "ok" ELSE "stale")
    /\ UNCHANGED <<ticks, seen, life, woes>>

\* EnsureActiveController or the database fails, a cache is at capacity.
Unavailable(q) ==
    /\ woes < LifeFaults /\ woes' = woes + 1
    /\ q \in requests /\ q.at # "done"
    /\ requests' = (requests \ {q}) \cup Answered([q EXCEPT !.until = 0], "unavailable")
    /\ UNCHANGED <<ticks, node, seen, life>>

\* A request that was given up is not served, or not to its end.
Dropped(q) ==
    /\ q \in requests /\ ~q.heard /\ requests' = requests \ {q}
    /\ UNCHANGED <<ticks, node, seen, life, woes>>

\* cellpd restarts: the caches are empty.
CachesLost ==
    /\ woes < LifeFaults /\ woes' = woes + 1
    /\ seen' = [o \in Unscoped |-> 0]
    /\ UNCHANGED <<ticks, node, life, requests>>

LifeTicks ==
    /\ ticks < LifeTime /\ ticks' = ticks + 1
    /\ UNCHANGED <<node, seen, life, requests, woes>>

LifeSteps(l) ==
    \/ LifeStarts(l) \/ HearsNothing(l) \/ StopAsked(l) \/ Quiesced(l) \/ QuiesceTimesOut(l)
    \/ LifeCrashes(l) \/ CommandIn(l) \/ CommandOut(l)
    \/ HearsAnswer(l) \/ HeartbeatDue(l) \/ ReconcileDue(l)

ServerSteps ==
    \/ \E q \in requests : Checks(q) \/ RelayChecks(q) \/ Commits(q) \/ Unavailable(q) \/ Dropped(q)
    \/ CachesLost

NlNext == LifeTicks \/ ServerSteps \/ \E l \in Lives : LifeSteps(l)

NlSpec == NlInit /\ [][NlNext]_nlVars

\* The agent's goroutines and the controller's handlers run; both tickers of the
\* loop keep firing and select chooses among those that are ready, so a
\* heartbeat is sent again and again; a wait has a deadline.
NlFairness ==
    \A l \in Lives :
         /\ WF_nlVars(\E q \in requests : q.by = l /\ (Checks(q) \/ RelayChecks(q)))
         /\ WF_nlVars(\E q \in requests : q.by = l /\ Commits(q))
         /\ WF_nlVars(HearsAnswer(l))
         /\ SF_nlVars(HeartbeatDue(l))
         /\ WF_nlVars(Quiesced(l)) /\ WF_nlVars(QuiesceTimesOut(l))

NlFair == NlSpec /\ NlFairness

-----------------------------------------------------------------------------
(* What must hold.                                                          *)

\* The variables have their types, and a life waits for at most one answer.
NlTypeOK ==
    /\ ticks \in 0 .. LifeTime /\ node \in [gen : Nat, until : LifeTimes]
    /\ seen \in [Unscoped -> LifeTimes] /\ woes \in 0 .. LifeFaults
    /\ life \in [Lives -> [at : LifeAts, gen : Nat, open : BOOLEAN,
                           cmds : 0 .. LifeCommands]]
    /\ requests \subseteq Request /\ \A l \in Lives : Cardinality(Calling(l)) <= 1

\* No two lives hold the same generation, however their activations, lost
\* answers and restarts interleave: everything else is fenced by it.
OneLifePerGeneration ==
    \A k, l \in Lives : k # l /\ life[k].gen > 0 => life[k].gen # life[l].gen

\* The fence of everything a node does.
NodesFenced == NlTypeOK /\ OneLifePerGeneration

\* The lease of a generation is given back only when the life that held it
\* neither executes a command nor accepts one: a node seen as gone is idle.
ReleasedIdle ==
    [][(node'.gen = node.gen /\ node'.until < node.until /\ node'.until = 0) =>
         \A l \in Lives : life[l].gen = node.gen => life[l].cmds = 0 /\ ~life[l].open]_nlVars

\* A life whose generation was taken over finds out and ends, by its heartbeats.
SupersededEnds ==
    \A l \in Lives : (life[l].gen > 0 /\ node.gen > life[l].gen) ~> (life[l].at = "gone")

\* "ReplayCache rejects duplicate command nonces" (agent/transport/replay.go:9): a
\* request that was never sent before is not one.  It is, when a life starts
\* within ScopeTtl of an earlier start: nonces count from 1 in each process.
FreshNotRejected == \A q \in requests : q.ans # "replay"
=============================================================================
