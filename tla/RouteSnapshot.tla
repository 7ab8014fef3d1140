---------------------------- MODULE RouteSnapshot ----------------------------
(***************************************************************************)
(* The route snapshot: the registry's routing tables with their revision,  *)
(* the gateway's last-known-good copy of them, the pollers that refresh    *)
(* that copy (the gateway's ticker and whoever waits for a publication),   *)
(* and a deploy that waits until its version is published.                 *)
(*                                                                         *)
(* A build of a snapshot reads everything in one transaction, so it is one *)
(* action.  Pollers are not serialised: a poll is four steps.  All         *)
(* replicas are on one node, and each version has at most one endpoint;    *)
(* leases are the times they end, as in the tables.                        *)
(***************************************************************************)
EXTENDS Integers, FiniteSets

CONSTANTS
    SnVersions,   \* versions
    SnElastic,    \* those that are enrolled
    Fresh,        \* the version whose deploy waits for its publication
    Pollers,      \* who polls; the waiting deploy is one of them
    Waiter,       \* that deploy
    EndpointTtl,  \* the lease of an endpoint, in ticks
    MaxClock,     \* bound: the time the instance ends
    MaxRev,       \* bound: route_revision
    PollErrors    \* bound: reads of the registry that fail

ASSUME SnAssumption ==
    /\ Fresh \in SnElastic /\ SnElastic \subseteq SnVersions /\ Waiter \in Pollers
    /\ MaxClock \in Nat \ {0} /\ {EndpointTtl, MaxRev, PollErrors} \subseteq Nat

VARIABLES
    clock,
    table,   \* each version: [status, until, route]; until 0: no endpoint row
    cordon,  \* runtime_nodes.cordoned
    rev,     \* control_plane_meta.route_revision
    held,    \* RouteSnapshotHolder: [rev, eps]
    poll,    \* each poller's PollOnce: [at, rev, last, eps]
    wait,    \* the deploy
    failed   \* reads that have failed

snVars == <<clock, table, cordon, rev, held, poll, wait, failed>>

Times == 0 .. MaxClock + EndpointTtl

\* An endpoint of a snapshot; a legacy route has no lease.
Ep(v, t) == [v |-> v, until |-> t]

NoPoll == [at |-> "rest", rev |-> 0, last |-> 0, eps |-> {}]

SnInit ==
    /\ clock = 1 /\ cordon = FALSE /\ rev = 0
    /\ table = [v \in SnVersions |->
                  [status |-> IF v = Fresh THEN "deploy_ready" ELSE "ready",
                   until |-> 0, route |-> FALSE]]
    /\ held = [rev |-> 0, eps |-> {}]
    /\ poll = [p \in Pollers |-> NoPoll]
    /\ wait = [at |-> "qualify", rev |-> 0] /\ failed = 0

-----------------------------------------------------------------------------
(* The tables.                                                              *)

\* elasticPublicEndpointSetsTx and qualificationEndpointSetsTx: live endpoints
\* on a node that is not cordoned.
Routable(v) == v \in SnElastic /\ table[v].until > clock /\ ~cordon

\* legacyRouteEndpointSetsTx, and the enrolled versions that are ready.
Published(v) ==
    /\ table[v].status = "ready"
    /\ IF v \in SnElastic THEN Routable(v) ELSE table[v].route

PublicSets == {Ep(v, IF v \in SnElastic THEN table[v].until ELSE 0) :
                 v \in {w \in SnVersions : Published(w)}}

QualifiedSets == {v \in SnVersions : table[v].status = "deploy_ready" /\ Routable(v)}

Bump == rev < MaxRev /\ rev' = rev + 1

TablesOnly == UNCHANGED <<clock, cordon, held, poll, wait, failed>>

\* RecordObservation or CommitAgentStart of a ready replica.
EndpointAppears(v) ==
    /\ v \in SnElastic /\ table[v].until <= clock /\ ~cordon
    /\ table' = [table EXCEPT ![v].until = clock + EndpointTtl]
    /\ Bump /\ TablesOnly

\* Mutant of EndpointRenewed: the revision stays.
RenewedQuietly(v) ==
    /\ v \in SnElastic /\ table[v].until > clock /\ table[v].until < clock + EndpointTtl /\ ~cordon
    /\ table' = [table EXCEPT ![v].until = clock + EndpointTtl]
    /\ UNCHANGED rev /\ TablesOnly

\* RenewAssignmentLease: the endpoint's lease moves with the assignment's.
EndpointRenewed(v) ==
    /\ v \in SnElastic /\ table[v].until > clock /\ table[v].until < clock + EndpointTtl /\ ~cordon
    /\ table' = [table EXCEPT ![v].until = clock + EndpointTtl]
    /\ Bump /\ TablesOnly

\* A replica is drained, stopped or failed: its endpoint row is deleted.
EndpointLeaves(v) ==
    /\ table[v].until # 0
    /\ table' = [table EXCEPT ![v].until = 0]
    /\ Bump /\ TablesOnly

\* UpdateVersionStatus, CompareAndSetElasticVersionStatus: into or out of ready.
StatusMoves(v) ==
    /\ v # Fresh \/ wait.at \in {"done", "gave up"}
    /\ table' = [table EXCEPT ![v].status = IF @ = "ready" THEN "deploy_ready" ELSE "ready"]
    /\ Bump /\ TablesOnly

\* SetRoute, SetRouteActive.
RouteSwitched(v) ==
    /\ v \notin SnElastic
    /\ table' = [table EXCEPT ![v].route = ~@]
    /\ Bump /\ TablesOnly

\* CordonRuntimeNode, ReleaseRuntimeNodeLease: the revision stays as it is.
Cordoned ==
    /\ ~cordon /\ cordon' = TRUE
    /\ UNCHANGED <<clock, table, rev, held, poll, wait, failed>>

SnTick ==
    /\ clock < MaxClock /\ clock' = clock + 1
    /\ UNCHANGED <<table, cordon, rev, held, poll, wait, failed>>

-----------------------------------------------------------------------------
(* PollOnce.                                                                *)

SetPoll(p, row) == poll' = [poll EXCEPT ![p] = row]

\* Whoever waits goes on to its own look at the copy once its poll is over.
PollOver(p) ==
    /\ SetPoll(p, NoPoll)
    /\ wait' = IF p # Waiter THEN wait
               ELSE [wait EXCEPT !.at = IF @ = "poll" THEN "look" ELSE "done"]

\* The ticker polls at any time; the waiter when its loop says so.
PollReads(p) ==
    /\ poll[p].at = "rest"
    /\ p = Waiter => wait.at \in {"poll", "again"}
    /\ SetPoll(p, [NoPoll EXCEPT !.at = "compare", !.rev = rev])
    /\ UNCHANGED <<clock, table, cordon, rev, held, wait, failed>>

PollCompares(p) ==
    /\ poll[p].at = "compare"
    /\ IF poll[p].rev <= held.rev THEN PollOver(p)
       ELSE SetPoll(p, [poll[p] EXCEPT !.at = "build", !.last = held.rev]) /\ UNCHANGED wait
    /\ UNCHANGED <<clock, table, cordon, rev, held, failed>>

PollBuilds(p) ==
    /\ poll[p].at = "build"
    /\ SetPoll(p, [poll[p] EXCEPT !.at = "apply", !.rev = rev, !.eps = PublicSets])
    /\ UNCHANGED <<clock, table, cordon, rev, held, wait, failed>>

\* ValidateRouteSnapshot: the revision read before the build is not compared
\* with the one that is held by now.
Acceptable(p) ==
    /\ poll[p].rev > poll[p].last
    /\ \A e \in poll[p].eps : e.v \in SnElastic => e.until > clock

\* Mutant of PollApplies: the copy keeps its own revision number.
AppliesEndpointsOnly(p) ==
    /\ poll[p].at = "apply"
    /\ held' = IF Acceptable(p) THEN [rev |-> poll[p].last, eps |-> poll[p].eps] ELSE held
    /\ PollOver(p)
    /\ UNCHANGED <<clock, table, cordon, rev, failed>>

PollApplies(p) ==
    /\ poll[p].at = "apply"
    /\ held' = IF Acceptable(p) THEN [rev |-> poll[p].rev, eps |-> poll[p].eps] ELSE held
    /\ PollOver(p)
    /\ UNCHANGED <<clock, table, cordon, rev, failed>>

\* GetRouteRevision or the build fails: the copy stays as it is.
PollFails(p) ==
    /\ failed < PollErrors /\ failed' = failed + 1
    /\ \/ poll[p].at = "rest" /\ p = Waiter /\ wait.at \in {"poll", "again"}
       \/ poll[p].at = "build"
    /\ PollOver(p)
    /\ UNCHANGED <<clock, table, cordon, rev, held>>

-----------------------------------------------------------------------------
(* The end of a deploy: WaitPublished, ready, WaitPublicServingPublished.    *)

WaitsOnly == UNCHANGED <<clock, cordon, held, poll, failed>>

\* WaitRouteSnapshotPublished on the qualification view; the version becomes
\* ready.
QualifyEnds ==
    /\ wait.at = "qualify" /\ Fresh \in QualifiedSets
    /\ wait' = [at |-> "poll", rev |-> rev]
    /\ table' = [table EXCEPT ![Fresh].status = "ready"]
    /\ Bump /\ WaitsOnly

\* LookupElasticUpstream wants a live lease, LookupUpstreamFromSnapshot does not:
\* an endpoint of the copy is enough.
Looks ==
    /\ wait.at = "look"
    /\ wait' = [wait EXCEPT !.at =
                  IF held.rev >= wait.rev /\ \E e \in held.eps : e.v = Fresh
                  THEN "done" ELSE "build"]
    /\ UNCHANGED <<table, rev>> /\ WaitsOnly

\* The waiter's own build: published in the registry, it polls once more and
\* returns whatever that poll did.
WaitBuilds ==
    /\ wait.at = "build"
    /\ wait' = [wait EXCEPT !.at = IF rev >= wait.rev /\ Published(Fresh) THEN "again" ELSE "poll"]
    /\ UNCHANGED <<table, rev>> /\ WaitsOnly

\* defaultSnapshotWaitTimeout, or a build that fails.
WaitGivesUp ==
    /\ wait.at \in {"qualify", "build"}
    /\ wait' = [wait EXCEPT !.at = "gave up"]
    /\ UNCHANGED <<table, rev>> /\ WaitsOnly

TableStep(v) ==
    \/ EndpointAppears(v) \/ EndpointRenewed(v) \/ EndpointLeaves(v)
    \/ StatusMoves(v) \/ RouteSwitched(v)

PollStep(p) == PollReads(p) \/ PollCompares(p) \/ PollBuilds(p) \/ PollApplies(p)

SnNext ==
    \/ \E v \in SnVersions : TableStep(v)
    \/ Cordoned \/ SnTick
    \/ \E p \in Pollers : PollStep(p) \/ PollFails(p)
    \/ QualifyEnds \/ Looks \/ WaitBuilds \/ WaitGivesUp

SnSpec == SnInit /\ [][SnNext]_snVars

\* The ticker of StartSnapshotPoller polls again and again.
SnFairness == \A p \in Pollers \ {Waiter} : WF_snVars(PollStep(p))

-----------------------------------------------------------------------------
SnTypeOK ==
    /\ clock \in 1 .. MaxClock /\ rev \in 0 .. MaxRev /\ cordon \in BOOLEAN
    /\ table \in [SnVersions -> [status : {"deploy_ready", "ready"}, until : Times, route : BOOLEAN]]
    /\ held.rev \in 0 .. rev /\ held.eps \subseteq [v : SnVersions, until : Times]
    /\ \A p \in Pollers : poll[p].at \in {"rest", "compare", "build", "apply"}
    /\ wait.at \in {"qualify", "poll", "look", "build", "again", "done", "gave up"}

Live(eps) == {e \in eps : e.v \in SnElastic => e.until > clock}

\* A copy whose revision is the registry's routes what the registry would
\* publish now: every write that changes the routes moves the revision, except
\* the end of a node, which the copy outlives until the endpoint's lease ends.
HeldIsCurrent ==
    held.rev = rev =>
        /\ PublicSets \subseteq Live(held.eps)
        /\ ~cordon => Live(held.eps) = PublicSets

\* The copy of the gateway is the registry's of its revision.
CopyCurrent == SnTypeOK /\ HeldIsCurrent

\* When the tables come to rest, the copy comes to hold their last revision,
\* though a slow poll may take it back to an earlier one on the way.
HolderCatchesUp == <>[](held.rev = rev)

\* elastic/contract/snapshot.go: "revision must increase monotonically".  The
\* copy that the gateway routes by is never replaced by an earlier one.
HeldNeverGoesBack == [][held'.rev >= held.rev]_snVars

\* orch/route_snapshot_ack.go: "waits until the gateway LKG snapshot includes a
\* routable endpoint": when the wait ends well, the copy held one at that moment.
AckMeansRoutable ==
    [][wait.at # "done" /\ wait'.at = "done" =>
         \E e \in held'.eps : e.v = Fresh /\ e.until > clock]_snVars

=============================================================================
