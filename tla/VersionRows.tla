----------------------------- MODULE VersionRows -----------------------------
(***************************************************************************)
(* The rows of one project's versions from POST /versions to the purge:    *)
(* the API's create call (three transactions), the deploy that forks from  *)
(* a parent, destroy and archive (five calls each), and the garbage        *)
(* collector that removes what was destroyed long ago.  Module DeployJobs  *)
(* details the deploy and ProdSwitch the life of a ready version; here     *)
(* they are as coarse as the fates of the rows allow.                      *)
(***************************************************************************)
EXTENDS Integers, FiniteSets

CONSTANTS
    VrVersions,   \* version ids
    NoVr,         \* parent_version_id or prod_version_id IS NULL
    VrParentOf,     \* parent_version_id of each version, or NoVr
    Callers,      \* API requests under way at once
    QueueMax,     \* CELLP_QUEUE_MAX
    VrCrashes     \* bound: times cellpd stops

ASSUME VrAssumption ==
    /\ NoVr \notin VrVersions
    /\ VrParentOf \in [VrVersions -> VrVersions \cup {NoVr}]
    /\ IsFiniteSet(Callers)
    /\ QueueMax \in Nat \ {0} /\ VrCrashes \in Nat

VARIABLES
    vrows,   \* each version: its row, its job and the rows that refer to it
    vprod,   \* projects.prod_version_id
    calls,   \* each request: [op, v, at]
    cut,     \* versions one of whose calls or deploys was cut short by a stop
    stops

vrVars == <<vrows, vprod, calls, cut, stops>>

VrStatuses == {"none", "pending", "deploying", "deploy_ready", "ready", "failed",
               "draining", "archived", "destroyed"}

\* kin: replica, endpoint, command, policy and desire rows.  aged: updated_at
\* is before the purge's cutoff.
NoVersionRow == [status |-> "none", job |-> "none", stage |-> "none", route |-> "none",
                 kin |-> FALSE, aged |-> FALSE]

NoRequest == [op |-> "none", v |-> NoVr, at |-> "none"]

VrInit ==
    /\ vrows = [v \in VrVersions |-> NoVersionRow]
    /\ vprod = NoVr
    /\ calls = [c \in Callers |-> NoRequest]
    /\ cut = {} /\ stops = 0

Is(v, s) == vrows[v].status \in s

Children(v) == {w \in VrVersions : VrParentOf[w] = v}

PendingJobs == {v \in VrVersions : vrows[v].job = "pending"}

In(c, op, at) == calls[c].op = op /\ calls[c].at = at

Busy(v) == \E c \in Callers : calls[c].v = v

Step(c, at) == calls' = [calls EXCEPT ![c].at = at]

Over(c) == calls' = [calls EXCEPT ![c] = NoRequest]

Opens(c, op, v, at) ==
    calls[c] = NoRequest /\ calls' = [calls EXCEPT ![c] = [op |-> op, v |-> v, at |-> at]]

Keep == UNCHANGED <<vprod, cut, stops>>

\* UpdateVersionStatus: nothing when the row is gone; a write makes it young again.
VrStatus(v, s) ==
    vrows' = IF Is(v, {"none"}) THEN vrows
             ELSE [vrows EXCEPT ![v].status = s, ![v].aged = FALSE]

\* SetRouteActive(false): an UPDATE, so nothing when there is no route.
RouteOff(v) == vrows' = [vrows EXCEPT ![v].route = IF @ = "none" THEN @ ELSE "off"]

-----------------------------------------------------------------------------
(* POST /versions: handleCreateVersion.                                     *)

RoomInQueue == Cardinality(PendingJobs) < QueueMax

CreateCounts(c, v) ==
    /\ RoomInQueue
    /\ Opens(c, "create", v, "insert")
    /\ UNCHANGED vrows /\ Keep

\* The id is the primary key: a version that exists ends the call with an error.
CreateInserts(c) ==
    LET v == calls[c].v IN
    /\ In(c, "create", "insert")
    /\ IF Is(v, {"none"})
       THEN vrows' = [vrows EXCEPT ![v].status = "pending"] /\ Step(c, "enqueue")
       ELSE UNCHANGED vrows /\ Over(c)
    /\ Keep

CreateEnqueues(c) ==
    /\ In(c, "create", "enqueue")
    /\ vrows' = [vrows EXCEPT ![calls[c].v].job = "pending"]
    /\ Over(c) /\ Keep

-----------------------------------------------------------------------------
(* The deploy of a version, by the worker that holds its job.               *)

DeployAt(v, s) == vrows[v].job = "claimed" /\ vrows[v].stage = s

DeployClaims(v) ==
    /\ vrows[v].job = "pending"
    /\ vrows' = [vrows EXCEPT ![v].job = "claimed", ![v].stage = "parent",
                              ![v].status = "deploying"]
    /\ UNCHANGED calls /\ Keep

\* After the fork of the parent's data branch (which may fail, like any step):
\* D1DeployPlanForVersion and BindingBranchPlanForVersion, parentBranchable.
DeployChecksParent(v) ==
    /\ DeployAt(v, "parent")
    /\ VrParentOf[v] # NoVr => Is(VrParentOf[v], {"ready", "deploy_ready", "archived"})
    /\ vrows' = [vrows EXCEPT ![v].stage = "rows"]
    /\ UNCHANGED calls /\ Keep

\* Policy, desire, replica and route; the version becomes ready, and prod of a
\* project that has none.
VrDeployServes(v) ==
    /\ DeployAt(v, "rows")
    /\ vrows' = [vrows EXCEPT ![v].job = "done", ![v].stage = "none", ![v].status = "ready",
                              ![v].kin = TRUE, ![v].route = "on"]
    /\ vprod' = IF vprod = NoVr THEN v ELSE vprod
    /\ UNCHANGED <<calls, cut, stops>>

\* Any step may fail; the version is marked before its compensation runs.
VrDeployFails(v) ==
    /\ vrows[v].job = "claimed"
    /\ vrows' = [vrows EXCEPT ![v].job = "undoing", ![v].status = "failed",
                              ![v].stage = "none"]
    /\ UNCHANGED calls /\ Keep

Compensated(v) ==
    /\ vrows[v].job = "undoing"
    /\ vrows' = [vrows EXCEPT ![v].job = "done",
                              ![v].route = IF @ = "none" THEN @ ELSE "off"]
    /\ UNCHANGED calls /\ Keep

-----------------------------------------------------------------------------
(* A ready version: it cools and warms again, is archived, woken, promoted. *)

Cools(v) ==
    /\ Is(v, {"ready"}) /\ vprod # v
    /\ VrStatus(v, "deploy_ready") /\ UNCHANGED calls /\ Keep

Warms(v) ==
    /\ Is(v, {"deploy_ready"})
    /\ VrStatus(v, "ready") /\ UNCHANGED calls /\ Keep

ArchiveReads(c, v) ==
    /\ Is(v, {"ready"}) /\ vprod # v
    /\ Opens(c, "archive", v, "drain") /\ UNCHANGED vrows /\ Keep

VrWakeReads(c, v) ==
    /\ Is(v, {"archived"})
    /\ Opens(c, "wake", v, "route") /\ UNCHANGED vrows /\ Keep

\* SetRoute inserts the row or switches it on.
WakeRoutes(c) ==
    /\ In(c, "wake", "route")
    /\ ~Is(calls[c].v, {"none"})
    /\ vrows' = [vrows EXCEPT ![calls[c].v].route = "on"]
    /\ Step(c, "ready") /\ Keep

WakeEnds(c) ==
    /\ In(c, "wake", "ready")
    /\ VrStatus(calls[c].v, "ready") /\ Over(c) /\ Keep

PromoteReads(c, v) ==
    /\ Is(v, {"ready"}) /\ vprod # v
    /\ Opens(c, "promote", v, "commit") /\ UNCHANGED vrows /\ Keep

\* CommitProdPromote: the new prod's route row must exist, its status is not
\* looked at again.
VrPromoteCommits(c) ==
    LET v == calls[c].v IN
    /\ In(c, "promote", "commit")
    /\ IF vrows[v].route = "none" THEN UNCHANGED <<vrows, vprod>>
       ELSE vprod' = v /\ vrows' = [vrows EXCEPT ![v].route = "on"]
    /\ Over(c) /\ UNCHANGED <<cut, stops>>

-----------------------------------------------------------------------------
(* DELETE: Destroy, and the calls it shares with Archive.                   *)

\* CountChildVersions: the children that keep a version from being destroyed.
Counted(v) == {w \in Children(v) : Is(w, {"ready", "archived"})}

DestroyReads(c, v) ==
    /\ Is(v, {"ready", "failed", "draining", "archived"})
    /\ Counted(v) = {}
    /\ Opens(c, "destroy", v, "drain") /\ UNCHANGED vrows /\ Keep

Drains(c) ==
    /\ calls[c].at = "drain"
    /\ VrStatus(calls[c].v, "draining") /\ Step(c, "route") /\ Keep

Unroutes(c) ==
    /\ calls[c].op \in {"archive", "destroy"} /\ calls[c].at = "route"
    /\ RouteOff(calls[c].v)
    /\ Step(c, IF calls[c].op = "destroy" THEN "branch" ELSE "last") /\ Keep

\* runtime.Stop and branch.Destroy; the error of either is ignored.
DestroysBranch(c) ==
    /\ In(c, "destroy", "branch")
    /\ Step(c, "last") /\ UNCHANGED vrows /\ Keep

LastStatus(c) ==
    /\ calls[c].at = "last"
    /\ VrStatus(calls[c].v, IF calls[c].op = "archive" THEN "archived" ELSE "destroyed")
    /\ Over(c) /\ Keep

-----------------------------------------------------------------------------
(* The garbage collector, every CELLP_GC_INTERVAL.                          *)

\* No call and no deploy lasts as long as the retention.
Ages(v) ==
    /\ Is(v, {"destroyed"}) /\ ~vrows[v].aged /\ ~Busy(v)
    /\ vrows' = [vrows EXCEPT ![v].aged = TRUE]
    /\ UNCHANGED calls /\ Keep

Purgeable(v) == Is(v, {"destroyed"}) /\ vrows[v].aged /\ vprod # v

\* Mutant of Purged: the jobs of the version stay.
PurgedButJobs(row) ==
    IF row.route = "on" THEN [row EXCEPT !.kin = FALSE]
    ELSE [NoVersionRow EXCEPT !.job = row.job]

\* PurgeDestroyedVersions: an active route keeps the version's row and its own,
\* and nothing else.
Purged(row) ==
    IF row.route = "on" THEN [row EXCEPT !.kin = FALSE, !.job = "none"]
    ELSE NoVersionRow

PurgeVersions ==
    /\ \E v \in VrVersions : Purgeable(v)
    /\ vrows' = [v \in VrVersions |-> IF Purgeable(v) THEN Purged(vrows[v]) ELSE vrows[v]]
    /\ UNCHANGED calls /\ Keep

\* PurgeCompletedJobs; a job ends long before it is purged.
PurgeJobs ==
    /\ \E v \in VrVersions : vrows[v].job = "done"
    /\ vrows' = [v \in VrVersions |->
                   IF vrows[v].job = "done" THEN [vrows[v] EXCEPT !.job = "none"] ELSE vrows[v]]
    /\ UNCHANGED calls /\ Keep

-----------------------------------------------------------------------------
\* cellpd stops: requests are gone, jobs are claimed again by the next process.
CellpdStops ==
    /\ stops < VrCrashes /\ stops' = stops + 1
    /\ cut' = cut \cup ({calls[c].v : c \in Callers} \ {NoVr})
    /\ calls' = [c \in Callers |-> NoRequest]
    /\ UNCHANGED <<vrows, vprod>>

CallStep(c) ==
    \/ \E v \in VrVersions :
          \/ CreateCounts(c, v) \/ ArchiveReads(c, v) \/ VrWakeReads(c, v)
          \/ PromoteReads(c, v) \/ DestroyReads(c, v)
    \/ CreateInserts(c) \/ CreateEnqueues(c) \/ WakeRoutes(c) \/ WakeEnds(c)
    \/ VrPromoteCommits(c) \/ Drains(c) \/ Unroutes(c) \/ DestroysBranch(c) \/ LastStatus(c)

VersionStep(v) ==
    \/ DeployClaims(v) \/ DeployChecksParent(v) \/ VrDeployServes(v)
    \/ VrDeployFails(v) \/ Compensated(v) \/ Cools(v) \/ Warms(v) \/ Ages(v)

VrNext ==
    \/ \E c \in Callers : CallStep(c)
    \/ \E v \in VrVersions : VersionStep(v)
    \/ PurgeVersions \/ PurgeJobs \/ CellpdStops

VrSpec == VrInit /\ [][VrNext]_vrVars

-----------------------------------------------------------------------------
VrTypeOK ==
    /\ vrows \in [VrVersions ->
                    [status : VrStatuses, job : {"none", "pending", "claimed", "undoing", "done"},
                     stage : {"none", "parent", "rows"}, route : {"none", "on", "off"},
                     kin : BOOLEAN, aged : BOOLEAN]]
    /\ vprod \in VrVersions \cup {NoVr}
    /\ \A c \in Callers :
          calls[c] = NoRequest \/
          calls[c] \in [op : {"create", "archive", "wake", "promote", "destroy"}, v : VrVersions,
                        at : {"insert", "enqueue", "drain", "route", "branch", "ready",
                              "commit", "last"}]

\* The count, the insert and the enqueue of a create are three transactions, so
\* the pending jobs may pass QueueMax, but by no more than the other requests
\* that were past their own count.
QueueOvershoot ==
    Cardinality(PendingJobs) + Cardinality({c \in Callers : calls[c].op = "create"})
        <= QueueMax + Cardinality(Callers) - 1

\* Nothing refers to a version that is gone: no route, job, replica, policy or
\* desire outlives the purge of its version, and prod_version_id names a row.
NoDanglingRows ==
    /\ \A v \in VrVersions : Is(v, {"none"}) =>
          vrows[v].job = "none" /\ vrows[v].route = "none" /\ ~vrows[v].kin
    /\ vprod # NoVr => ~Is(vprod, {"none"})

\* A version is left where no call can take it further (pending without a job,
\* or draining with nobody draining it) only when a stop of cellpd cut a call
\* at it short.
StuckOnlyByStop ==
    \A v \in VrVersions \ cut :
        /\ Is(v, {"pending"}) => vrows[v].job = "pending" \/ Busy(v)
        /\ Is(v, {"draining"}) => Busy(v)

\* What is left of a version, wherever its life or a call at it ended, fits together.
RowsSound == VrTypeOK /\ QueueOvershoot /\ NoDanglingRows /\ StuckOnlyByStop

\* docs/plans/SURGE-E0-START-PACK.md: the new status (deploy_ready) does not get
\* around the rule of child and parent.  A version that is ready or has only
\* cooled down keeps its parent from being destroyed.
ParentOutlivesChild ==
    [][\A v \in VrVersions, w \in VrVersions :
         (VrParentOf[w] = v /\ Is(w, {"ready", "deploy_ready", "archived"}))
            => \A c \in Callers : ~(calls[c] = NoRequest /\ calls'[c].op = "destroy"
                                     /\ calls'[c].v = v)]_vrVars

=============================================================================
