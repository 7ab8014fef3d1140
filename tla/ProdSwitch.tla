----------------------------- MODULE ProdSwitch -----------------------------
(***************************************************************************)
(* Production of one project and the life of its versions once they serve:   *)
(* the promote saga, archive and wake, destroy, the archive reaper and the   *)
(* cron reconciliation after a promotion (internal/orch), the calls the API *)
(* makes of them, over the projects, versions and routes tables              *)
(* (internal/registry).                                                      *)
(*                                                                         *)
(* An API call is a goroutine.  Nothing keeps two of them, the reaper or a   *)
(* deploy apart: each registry call is a transaction of its own, hence an   *)
(* action, and any other call may come in between.  MaxCalls bounds how many *)
(* are under way, so that the calls of an instance with MaxCalls = 1 are     *)
(* made one after the other.                                                 *)
(*                                                                         *)
(* How a version gets to be deployed is DeployJobs; here its deploy is the   *)
(* four steps that meet production.  Replicas and desires of elastic         *)
(* versions are not modelled: whether one is routable is left open, and so,  *)
(* with "move", is where its replica runs.                                  *)
(***************************************************************************)
EXTENDS Integers, FiniteSets

CONSTANTS
  Versions,     \* versions of the project
  ParentOf,     \* the version a version is forked from, NoVersion for a root
  Elastic,      \* the versions whose serving policy is elastic-enrolled
  Slots,        \* goroutines of the API server
  Reaper,       \* the archive reaper's goroutine
  NoVersion,    \* prod_version_id IS NULL
  Blank,        \* prod_version_id = ''
  Ops,          \* what the API is asked for, and whether the reaper runs
  MaxCalls,     \* bound: calls, reconciliations and deploys at one time
  MaxFaults,    \* bound: registry or tool calls that fail
  MaxCuts       \* bound: calls that are cut short

ASSUME VersionsAssumption ==
  /\ NoVersion \notin Versions /\ Blank \notin Versions /\ NoVersion # Blank
  /\ ParentOf \in [Versions -> Versions \cup {NoVersion}]
  /\ Elastic \subseteq Versions /\ IsFiniteSet(Versions)
ASSUME ActorsAssumption ==
  /\ IsFiniteSet(Slots) /\ Slots \cap Versions = {} /\ Reaper \notin Slots \cup Versions
  /\ Ops \subseteq {"promote", "archive", "wake", "destroy", "pin", "reap", "move"}
ASSUME BoundsAssumption == MaxCalls \in Nat /\ MaxFaults \in Nat /\ MaxCuts \in Nat

VARIABLES
  project,   \* the project's row
  versions,  \* the rows of versions and routes, with what celld and offshoot keep
  main,      \* the version last promoted onto offshoot's main branch
  dep,       \* the deploys
  call,      \* the calls under way
  cron,      \* the reconciliation a call left behind
  pass,      \* the reaper's pass
  faults, cuts

vars == <<project, versions, main, dep, call, cron, pass, faults, cuts>>

-----------------------------------------------------------------------------
Actors  == Slots \cup {Reaper}
Prods   == Versions \cup {NoVersion, Blank}
Project == [prod : Prods, previous : Versions \cup {NoVersion}, kept : BOOLEAN]
  \* kept: previous_prod_at is less than RollbackKeep ago

VersionRow ==
  [status : {"deploying", "ready", "archived", "draining", "destroyed"},
   route  : {"none", "active", "inactive"},
   pinned : BOOLEAN,
   armed  : BOOLEAN,   \* the deployed manifest has its cron triggers
   up     : {"down", "recorded", "elsewhere"},
             \* a process runs, at the route's upstream or at another address
   data   : BOOLEAN]   \* the data branch exists

Deploy == [pc : {"new", "deploy", "serve", "bootstrap", "done"}, arm : BOOLEAN, boot : BOOLEAN]

UndoPCs    == {"gateoff", "undocas", "undotarget", "undoagain", "undoold"}
PromotePCs == {"validate", "readprod", "drain", "deactivate", "gate", "commit", "activate"}
ArchivePCs == {"acheck", "adrain", "aroute", "aset"}
WakePCs    == {"wroute", "wready"}
DestroyPCs == {"dcheck", "ddrain", "droute", "ddata", "dset"}

Call == [pc  : {"idle"} \cup PromotePCs \cup UndoPCs \cup ArchivePCs \cup WakePCs \cup DestroyPCs,
         v   : Versions \cup {NoVersion},
         old : Versions \cup {NoVersion},   \* oldProd, NoVersion for ""
         was : Prods]                       \* what GetProject returned

Cron == [pc : {"idle", "read", "step"}, new : Versions \cup {NoVersion},
         old : Versions \cup {NoVersion}, prod : Prods]

Pass == [pc : {"off", "listed", "on"}, rows : SUBSET Versions, project : Project]

NoCall  == [pc |-> "idle", v |-> NoVersion, old |-> NoVersion, was |-> NoVersion]
NoCron  == [pc |-> "idle", new |-> NoVersion, old |-> NoVersion, prod |-> NoVersion]
NewProject == [prod |-> NoVersion, previous |-> NoVersion, kept |-> FALSE]
NoPass  == [pc |-> "off", rows |-> {}, project |-> NewProject]

Init ==
  /\ project = NewProject
  /\ versions = [v \in Versions |-> [status |-> "deploying", route |-> "none", pinned |-> FALSE,
                                     armed |-> FALSE, up |-> "down", data |-> TRUE]]
  /\ main = NoVersion
  /\ dep = [v \in Versions |-> [pc |-> "new", arm |-> FALSE, boot |-> FALSE]]
  /\ call = [a \in Actors |-> NoCall]
  /\ cron = [s \in Slots |-> NoCron]
  /\ pass = NoPass
  /\ faults = 0 /\ cuts = 0

-----------------------------------------------------------------------------
(* The transactions.                                                        *)

Underway == {a \in Actors : call[a].pc # "idle"} \cup {s \in Slots : cron[s].pc # "idle"}
              \cup {v \in Versions : dep[v].pc \notin {"new", "done"}}
              \cup (IF pass.pc = "off" THEN {} ELSE {Reaper})
Room == Cardinality(Underway) < MaxCalls

Fault   == faults < MaxFaults /\ faults' = faults + 1 /\ UNCHANGED cuts
NoFault == UNCHANGED <<faults, cuts>>

SetVersion(v, row) == versions' = [versions EXCEPT ![v] = row]
SetStatus(v, s)    == SetVersion(v, [versions[v] EXCEPT !.status = s])

(* SetRouteActive updates a row, it inserts none. *)
Switched(row, r)  == IF row.route = "none" THEN row ELSE [row EXCEPT !.route = r]
SetRoute(v, r)    == SetVersion(v, Switched(versions[v], r))

(* SetProdVersionCAS compares with NULL when it expects "", and writes "" as *)
(* it is.  A prod that is replaced becomes the previous one.                 *)
CASHolds(expected) == project.prod = expected
Swapped(expected, new) ==
  [prod     |-> IF new = NoVersion THEN Blank ELSE new,
   previous |-> IF expected = NoVersion THEN project.previous ELSE expected,
   kept     |-> IF expected = NoVersion THEN project.kept ELSE TRUE]

(* A write whose error the code drops: it is done, or it is not. *)
Dropping(write) == (write /\ NoFault) \/ (UNCHANGED <<project, versions>> /\ Fault)

SetCall(a, row) == call' = [call EXCEPT ![a] = row]
Go(a, pc)       == SetCall(a, [call[a] EXCEPT !.pc = pc])
Done(a)         == SetCall(a, NoCall)
Start(a, v, pc) == Room /\ call[a].pc = "idle" /\ SetCall(a, [NoCall EXCEPT !.v = v, !.pc = pc])

-----------------------------------------------------------------------------
(* The deploy of a version, from the moment runDeploy reads the project.     *)

(* CronShouldArm *)
ShouldArm(prod, v) == prod \in {NoVersion, Blank, v}

DeployReadsProject(v) ==
  /\ dep[v].pc = "new" /\ Room
  /\ dep' = [dep EXCEPT ![v] = [pc |-> "deploy", arm |-> ShouldArm(project.prod, v),
                                boot |-> project.prod = NoVersion]]
  /\ UNCHANGED <<project, versions, main, call, cron, pass>> /\ NoFault

DeployBundle(v) ==
  /\ dep[v].pc = "deploy"
  /\ dep' = [dep EXCEPT ![v].pc = "serve"]
  /\ SetVersion(v, [versions[v] EXCEPT !.armed = dep[v].arm])
  /\ UNCHANGED <<project, main, call, cron, pass>> /\ NoFault

(* The route of a version that is not ready is not used: one action. *)
DeployServes(v) ==
  /\ dep[v].pc = "serve"
  /\ dep' = [dep EXCEPT ![v].pc = "bootstrap"]
  /\ SetVersion(v, [versions[v] EXCEPT !.status = "ready", !.route = "active", !.up = "recorded"])
  /\ UNCHANGED <<project, main, call, cron, pass>> /\ NoFault

DeployBootstraps(v) ==
  /\ dep[v].pc = "bootstrap"
  /\ dep' = [dep EXCEPT ![v].pc = "done"]
  /\ \/ /\ project' = IF dep[v].boot /\ CASHolds(NoVersion) THEN Swapped(NoVersion, v) ELSE project
        /\ NoFault
     \/ dep[v].boot /\ UNCHANGED project /\ Fault
  /\ UNCHANGED <<versions, main, call, cron, pass>>

Deploying(v) ==
  DeployReadsProject(v) \/ DeployBundle(v) \/ DeployServes(v) \/ DeployBootstraps(v)

-----------------------------------------------------------------------------
(* Promote. *)

PromoteRead(s, v) ==
  /\ "promote" \in Ops /\ cron[s].pc = "idle"
  /\ versions[v].status = "ready"
  /\ Start(s, v, "validate")
  /\ UNCHANGED <<project, versions, main, dep, cron, pass>> /\ NoFault

(* An endpoint of the version is in the snapshot. *)
MayBeRouted(v) ==
  versions[v].status = "ready" /\ (v \in Elastic \/ versions[v].route = "active")

(* validatePromoteTarget; for an elastic version it starts a replica and      *)
(* waits, in vain perhaps.                                                  *)
PromoteValidate(s) ==
  LET v == call[s].v IN
  /\ call[s].pc = "validate"
  /\ \/ MayBeRouted(v) /\ Go(s, "readprod")
     \/ (v \in Elastic \/ ~MayBeRouted(v)) /\ Done(s)
  /\ UNCHANGED <<project, versions, main, dep, cron, pass>> /\ NoFault

(* The current prod is promoted again: only the reconciliation is repeated.  *)
PromoteReadProd(s) ==
  LET v   == call[s].v
      old == IF project.prod \in Versions THEN project.prod ELSE NoVersion IN
  /\ call[s].pc = "readprod"
  /\ IF old = v
     THEN Done(s) /\ cron' = [cron EXCEPT ![s] = [NoCron EXCEPT !.pc = "read", !.new = v]]
     ELSE /\ SetCall(s, [call[s] EXCEPT !.pc = IF old = NoVersion THEN "gate" ELSE "drain",
                                        !.old = old, !.was = project.prod])
          /\ UNCHANGED cron
  /\ UNCHANGED <<project, versions, main, dep, pass>> /\ NoFault

(* branch.Drain *)
DrainOld(s) ==
  /\ call[s].pc = "drain" /\ Go(s, "deactivate")
  /\ Dropping(SetRoute(call[s].old, "inactive") /\ UNCHANGED project)
  /\ UNCHANGED <<main, dep, cron, pass>>

DeactivateOld(s) ==
  /\ call[s].pc = "deactivate"
  /\ \/ SetRoute(call[s].old, "inactive") /\ Go(s, "gate") /\ NoFault
     \/ Go(s, "undoold") /\ UNCHANGED versions /\ Fault
  /\ UNCHANGED <<project, main, dep, cron, pass>>

UndoOldNext(s) == IF call[s].old = NoVersion THEN Done(s) ELSE Go(s, "undoagain")

(* branch.Promote: offshoot promote --onto main. *)
HardGate(s) ==
  /\ call[s].pc = "gate"
  /\ \/ main' = call[s].v /\ Go(s, "commit") /\ NoFault
     \/ Go(s, "gateoff") /\ UNCHANGED main /\ Fault
  /\ UNCHANGED <<project, versions, dep, cron, pass>>

GateRefused(s) ==
  /\ call[s].pc = "gateoff" /\ UndoOldNext(s)
  /\ Dropping(SetRoute(call[s].v, "inactive") /\ UNCHANGED project)
  /\ UNCHANGED <<main, dep, cron, pass>>

(* Mutant of Commit: the pointer moves and the route does not.               *)
CommitPointerOnly(s) ==
  /\ call[s].pc = "commit"
  /\ IF CASHolds(call[s].old) /\ versions[call[s].v].route # "none"
     THEN project' = Swapped(call[s].old, call[s].v) /\ Go(s, "activate")
     ELSE UndoOldNext(s) /\ UNCHANGED project
  /\ UNCHANGED <<versions, main, dep, cron, pass>> /\ NoFault

(* CommitProdPromote: the prod pointer and the route, or neither. *)
Commit(s) ==
  LET v == call[s].v IN
  /\ call[s].pc = "commit"
  /\ \/ /\ CASHolds(call[s].old) /\ versions[v].route # "none"
        /\ project' = Swapped(call[s].old, v) /\ SetRoute(v, "active")
        /\ Go(s, "activate") /\ NoFault
     \/ /\ ~CASHolds(call[s].old) \/ versions[v].route = "none"
        /\ UndoOldNext(s) /\ UNCHANGED <<project, versions>> /\ NoFault
     \/ UndoOldNext(s) /\ UNCHANGED <<project, versions>> /\ Fault
  /\ UNCHANGED <<main, dep, cron, pass>>

(* ensurePromotedProdActivation, which can fail for an elastic version; then *)
(* the cron reconciliation is left to a goroutine of its own.               *)
Activate(s) ==
  LET v == call[s].v IN
  /\ call[s].pc = "activate"
  /\ \/ /\ Done(s) /\ NoFault
        /\ cron' = [cron EXCEPT ![s] = [NoCron EXCEPT !.pc = "read", !.new = v, !.old = call[s].old]]
     \/ v \in Elastic /\ Go(s, "undocas") /\ UNCHANGED cron /\ Fault
  /\ UNCHANGED <<project, versions, main, dep, pass>>

(* runCompensation: what was done is undone in reverse, errors are dropped.  *)
UndoCAS(s) ==
  /\ call[s].pc = "undocas" /\ Go(s, "undotarget")
  /\ Dropping(/\ project' = IF CASHolds(call[s].v) THEN Swapped(call[s].v, call[s].old) ELSE project
              /\ UNCHANGED versions)
  /\ UNCHANGED <<main, dep, cron, pass>>

UndoTarget(s) ==
  /\ call[s].pc = "undotarget" /\ UndoOldNext(s)
  /\ Dropping(SetRoute(call[s].v, "inactive") /\ UNCHANGED project)
  /\ UNCHANGED <<main, dep, cron, pass>>

(* Mutant of UndoOld: the old prod's route stays off. *)
UndoOldDropped(s) ==
  /\ call[s].pc \in {"undoagain", "undoold"}
  /\ IF call[s].pc = "undoagain" THEN Go(s, "undoold") ELSE Done(s)
  /\ UNCHANGED <<project, versions, main, dep, cron, pass>> /\ NoFault

(* The deactivation and the drain are undone in the same way. *)
UndoOld(s) ==
  /\ call[s].pc \in {"undoagain", "undoold"}
  /\ IF call[s].pc = "undoagain" THEN Go(s, "undoold") ELSE Done(s)
  /\ Dropping(SetRoute(call[s].old, "active") /\ UNCHANGED project)
  /\ UNCHANGED <<main, dep, cron, pass>>

Promoting(s) ==
  \/ \E v \in Versions : PromoteRead(s, v)
  \/ PromoteValidate(s) \/ PromoteReadProd(s) \/ DrainOld(s) \/ DeactivateOld(s)
  \/ HardGate(s) \/ GateRefused(s) \/ Commit(s) \/ Activate(s)
  \/ UndoCAS(s) \/ UndoTarget(s) \/ UndoOld(s)

-----------------------------------------------------------------------------
(* ReconcileCronAfterProdChange: the project is read once, then the new prod *)
(* and the old one are deployed again with or without their cron triggers.  *)

CronReads(s) ==
  /\ cron[s].pc = "read"
  /\ cron' = [cron EXCEPT ![s].pc = "step", ![s].prod = project.prod]
  /\ UNCHANGED <<project, versions, main, dep, call, pass>> /\ NoFault

CronNext(s) ==
  cron' = [cron EXCEPT ![s] = IF @.new # NoVersion /\ @.old # NoVersion
                              THEN [@ EXCEPT !.new = NoVersion] ELSE NoCron]

(* Mutant of CronStep: the version that is not armed is left as it is.       *)
CronArmsOnly(s) ==
  LET v == IF cron[s].new # NoVersion THEN cron[s].new ELSE cron[s].old IN
  /\ cron[s].pc = "step"
  /\ IF versions[v].status = "ready" /\ ShouldArm(cron[s].prod, v)
     THEN SetVersion(v, [versions[v] EXCEPT !.armed = TRUE]) ELSE UNCHANGED versions
  /\ CronNext(s) /\ UNCHANGED <<project, main, dep, call, pass>> /\ NoFault

(* A version that does not serve is skipped; so is one to be disarmed whose  *)
(* route is off and whose recorded upstream does not answer.  An upstream   *)
(* that does not answer otherwise, or a failed deploy, ends it.             *)
CronStep(s) ==
  LET v       == IF cron[s].new # NoVersion THEN cron[s].new ELSE cron[s].old
      arm     == ShouldArm(cron[s].prod, v)
      ready   == versions[v].status = "ready"
      healthy == versions[v].up = "recorded"
      skipped == ~ready \/ (~arm /\ versions[v].route # "active" /\ ~healthy) IN
  /\ cron[s].pc = "step"
  /\ \/ /\ ready /\ healthy
        /\ SetVersion(v, [versions[v] EXCEPT !.armed = arm]) /\ CronNext(s) /\ NoFault
     \/ /\ skipped
        /\ CronNext(s) /\ UNCHANGED versions /\ NoFault
     \/ /\ ready /\ ~healthy /\ ~skipped
        /\ cron' = [cron EXCEPT ![s] = NoCron] /\ UNCHANGED versions /\ NoFault
     \/ /\ ready /\ ~skipped
        /\ cron' = [cron EXCEPT ![s] = NoCron] /\ UNCHANGED versions /\ Fault
  /\ UNCHANGED <<project, main, dep, call, pass>>

-----------------------------------------------------------------------------
(* Archive, by the API or by the reaper. *)

(* Archive reads the version, then the project. *)
Archivable(v) == versions[v].status = "ready" /\ ~versions[v].pinned

ArchiveRead(s, v) ==
  /\ "archive" \in Ops /\ cron[s].pc = "idle"
  /\ Archivable(v)
  /\ Start(s, v, "acheck")
  /\ UNCHANGED <<project, versions, main, dep, cron, pass>> /\ NoFault

(* Mutant of ArchiveCheck: the prod pointer is not looked at. *)
ArchiveUnchecked(a) ==
  /\ call[a].pc = "acheck" /\ Go(a, "adrain")
  /\ UNCHANGED <<project, versions, main, dep, cron, pass>> /\ NoFault

ArchiveCheck(a) ==
  /\ call[a].pc = "acheck"
  /\ IF project.prod = call[a].v THEN Done(a) ELSE Go(a, "adrain")
  /\ UNCHANGED <<project, versions, main, dep, cron, pass>> /\ NoFault

ArchiveDrain(a) ==
  /\ call[a].pc = "adrain" /\ Go(a, "aroute")
  /\ Dropping(SetStatus(call[a].v, "draining") /\ UNCHANGED project)
  /\ UNCHANGED <<main, dep, cron, pass>>

(* Mutant of ArchiveRoute: the process is stopped, the route stays. *)
ArchiveStopOnly(a) ==
  /\ call[a].pc = "aroute" /\ Go(a, "aset")
  /\ SetVersion(call[a].v, [versions[call[a].v] EXCEPT !.up = "down"])
  /\ UNCHANGED <<project, main, dep, cron, pass>> /\ NoFault

(* runtime.Stop stops the process started per version, and no replica. *)
Stopped(v, row) == IF v \in Elastic THEN row ELSE [row EXCEPT !.up = "down"]

ArchiveRoute(a) ==
  LET v == call[a].v IN
  /\ call[a].pc = "aroute" /\ Go(a, "aset")
  /\ \/ SetVersion(v, Stopped(v, Switched(versions[v], "inactive"))) /\ NoFault
     \/ SetVersion(v, Stopped(v, versions[v])) /\ Fault
  /\ UNCHANGED <<project, main, dep, cron, pass>>

ArchiveSet(a) ==
  /\ call[a].pc = "aset" /\ Done(a)
  /\ Dropping(SetStatus(call[a].v, "archived") /\ UNCHANGED project)
  /\ UNCHANGED <<main, dep, cron, pass>>

(* RunArchiveReaperOnce: one list, one read of the project for all of it.    *)
(* Which versions are past their grace and idle is left to the clock.       *)
ReaperLists ==
  /\ "reap" \in Ops /\ pass.pc = "off" /\ Room
  /\ \E rows \in SUBSET {v \in Versions : Archivable(v)} \ {{}} :
       pass' = [NoPass EXCEPT !.pc = "listed", !.rows = rows]
  /\ UNCHANGED <<project, versions, main, dep, call, cron>> /\ NoFault

ReaperReadsProject ==
  /\ pass.pc = "listed"
  /\ pass' = [pass EXCEPT !.pc = "on", !.project = project]
  /\ UNCHANGED <<project, versions, main, dep, call, cron>> /\ NoFault

(* Mutant of MayArchive: the previous prod is not kept. *)
MayArchiveIdle(v) == pass.project.prod # v

(* What MayArchive reads in the project. *)
MayArchive(v) ==
  /\ pass.project.prod # v
  /\ ~(pass.project.previous = v /\ pass.project.kept)

ReaperTries(v) ==
  /\ pass.pc = "on" /\ v \in pass.rows /\ call[Reaper].pc = "idle"
  /\ pass' = [pass EXCEPT !.rows = @ \ {v}]
  /\ IF MayArchive(v) /\ Archivable(v)
     THEN SetCall(Reaper, [NoCall EXCEPT !.v = v, !.pc = "acheck"])
     ELSE UNCHANGED call
  /\ UNCHANGED <<project, versions, main, dep, cron>> /\ NoFault

ReaperEnds ==
  /\ pass.pc = "on" /\ pass.rows = {} /\ call[Reaper].pc = "idle"
  /\ pass' = NoPass
  /\ UNCHANGED <<project, versions, main, dep, call, cron>> /\ NoFault

(* RollbackKeep has passed since previous_prod_at. *)
KeepExpires ==
  /\ "reap" \in Ops /\ project.kept
  /\ project' = [project EXCEPT !.kept = FALSE]
  /\ UNCHANGED <<versions, main, dep, call, cron, pass>> /\ NoFault

Archiving ==
  \/ \E s \in Slots, v \in Versions : ArchiveRead(s, v)
  \/ \E a \in Actors : ArchiveCheck(a) \/ ArchiveDrain(a) \/ ArchiveRoute(a) \/ ArchiveSet(a)
  \/ ReaperLists \/ ReaperReadsProject \/ ReaperEnds \/ KeepExpires
  \/ \E v \in Versions : ReaperTries(v)

-----------------------------------------------------------------------------
(* Wake. *)

WakeRead(s, v) ==
  /\ "wake" \in Ops /\ cron[s].pc = "idle"
  /\ versions[v].status = "archived"
  /\ Start(s, v, IF v \in Elastic THEN "wready" ELSE "wroute")
  /\ UNCHANGED <<project, versions, main, dep, cron, pass>> /\ NoFault

(* runtime.Start, and SetRoute, which inserts or updates. *)
WakeRoute(s) ==
  LET v == call[s].v IN
  /\ call[s].pc = "wroute"
  /\ \/ SetVersion(v, [versions[v] EXCEPT !.route = "active", !.up = "recorded"])
        /\ Go(s, "wready") /\ NoFault
     \/ Done(s) /\ UNCHANGED versions /\ Fault
  /\ UNCHANGED <<project, main, dep, cron, pass>>

(* A replica of an elastic version is placed anew, on any port. *)
WakeReady(s) ==
  LET v == call[s].v IN
  /\ call[s].pc = "wready" /\ Done(s)
  /\ \/ \E u \in IF v \in Elastic THEN {"recorded", "elsewhere"} ELSE {versions[v].up} :
           SetVersion(v, [versions[v] EXCEPT !.status = "ready", !.up = u]) /\ NoFault
     \/ UNCHANGED versions /\ Fault
  /\ UNCHANGED <<project, main, dep, cron, pass>>

Waking(s) == WakeReady(s) \/ WakeRoute(s) \/ \E v \in Versions : WakeRead(s, v)

-----------------------------------------------------------------------------
(* Destroy.  The prod pointer is not looked at. *)

DestroyRead(s, v) ==
  /\ "destroy" \in Ops /\ cron[s].pc = "idle"
  /\ versions[v].status \in {"ready", "draining", "archived"}
  /\ Start(s, v, "dcheck")
  /\ UNCHANGED <<project, versions, main, dep, cron, pass>> /\ NoFault

(* CountChildVersions *)
LiveChildren(v) == {c \in Versions : ParentOf[c] = v /\ versions[c].status \in {"ready", "archived"}}

DestroyCheck(s) ==
  /\ call[s].pc = "dcheck"
  /\ IF LiveChildren(call[s].v) = {} THEN Go(s, "ddrain") ELSE Done(s)
  /\ UNCHANGED <<project, versions, main, dep, cron, pass>> /\ NoFault

(* Mutant of DestroyDrain: the data goes before the status. *)
DestroyDataFirst(s) ==
  /\ call[s].pc = "ddrain" /\ Go(s, "droute")
  /\ SetVersion(call[s].v, [versions[call[s].v] EXCEPT !.data = FALSE])
  /\ UNCHANGED <<project, main, dep, cron, pass>> /\ NoFault

DestroyDrain(s) ==
  /\ call[s].pc = "ddrain" /\ Go(s, "droute")
  /\ Dropping(SetStatus(call[s].v, "draining") /\ UNCHANGED project)
  /\ UNCHANGED <<main, dep, cron, pass>>

DestroyRoute(s) ==
  LET v == call[s].v IN
  /\ call[s].pc = "droute" /\ Go(s, "ddata")
  /\ \/ SetVersion(v, Stopped(v, Switched(versions[v], "inactive"))) /\ NoFault
     \/ SetVersion(v, Stopped(v, versions[v])) /\ Fault
  /\ UNCHANGED <<project, main, dep, cron, pass>>

DestroyData(s) ==
  /\ call[s].pc = "ddata" /\ Go(s, "dset")
  /\ Dropping(SetVersion(call[s].v, [versions[call[s].v] EXCEPT !.data = FALSE]) /\ UNCHANGED project)
  /\ UNCHANGED <<main, dep, cron, pass>>

DestroySet(s) ==
  /\ call[s].pc = "dset" /\ Done(s)
  /\ Dropping(SetStatus(call[s].v, "destroyed") /\ UNCHANGED project)
  /\ UNCHANGED <<main, dep, cron, pass>>

Destroying(s) ==
  \/ \E v \in Versions : DestroyRead(s, v)
  \/ DestroyCheck(s) \/ DestroyDrain(s) \/ DestroyRoute(s) \/ DestroyData(s) \/ DestroySet(s)

-----------------------------------------------------------------------------
(* handlePin and handleUnpin, each one call of the registry. *)
Pin(v) ==
  /\ "pin" \in Ops /\ Room
  /\ versions[v].status \in {"ready", "archived"} /\ ~versions[v].pinned
  /\ SetVersion(v, [versions[v] EXCEPT !.pinned = TRUE])
  /\ UNCHANGED <<project, main, dep, call, cron, pass>> /\ NoFault

Unpin(v) ==
  /\ "pin" \in Ops /\ Room /\ versions[v].pinned
  /\ SetVersion(v, [versions[v] EXCEPT !.pinned = FALSE])
  /\ UNCHANGED <<project, main, dep, call, cron, pass>> /\ NoFault

(* The scheduler stops the replica of an elastic version and places another; *)
(* the route keeps the address of the one that was qualified.                *)
ReplicaMoves(v) ==
  /\ "move" \in Ops /\ v \in Elastic /\ versions[v].status = "ready"
  /\ \E u \in {"down", "elsewhere"} \ {versions[v].up} :
       SetVersion(v, [versions[v] EXCEPT !.up = u])
  /\ UNCHANGED <<project, main, dep, call, cron, pass>> /\ NoFault

(* A call of the API runs under the context of its request, and so do its    *)
(* compensations: once the client has gone, no step of it succeeds.  A       *)
(* restart of cellpd cuts a call short as well, the reaper and the           *)
(* reconciliation with it.                                                  *)
CutShort(a) ==
  /\ cuts < MaxCuts /\ cuts' = cuts + 1 /\ UNCHANGED faults
  /\ \/ /\ call[a].pc # "idle" /\ Done(a)
        /\ pass' = IF a = Reaper THEN NoPass ELSE pass
        /\ UNCHANGED cron
     \/ /\ a \in Slots /\ cron[a].pc # "idle"
        /\ cron' = [cron EXCEPT ![a] = NoCron]
        /\ UNCHANGED <<call, pass>>
  /\ UNCHANGED <<project, versions, main, dep>>

Next ==
  \/ \E v \in Versions : Deploying(v) \/ Pin(v) \/ Unpin(v) \/ ReplicaMoves(v)
  \/ \E s \in Slots : Promoting(s) \/ CronReads(s) \/ CronStep(s) \/ Waking(s) \/ Destroying(s)
  \/ Archiving
  \/ \E a \in Actors : CutShort(a)

Spec == Init /\ [][Next]_vars

-----------------------------------------------------------------------------
(* Every variable keeps the type of the tables and locals it stands for.     *)
TypeOK ==
  /\ project \in Project
  /\ versions \in [Versions -> VersionRow]
  /\ main \in Versions \cup {NoVersion}
  /\ dep \in [Versions -> Deploy]
  /\ call \in [Actors -> Call]
  /\ cron \in [Slots -> Cron]
  /\ pass \in Pass
  /\ faults \in 0..MaxFaults /\ cuts \in 0..MaxCuts

Quiet == Underway = {}

(* However the promotions before went, complete, refused at the gate, beaten *)
(* at the compare-and-set or undone after it: once no call is under way the  *)
(* route of a ready prod is on, even if one call to the registry or a tool   *)
(* failed.  Promote, its compensations, Archive and Destroy switch routes    *)
(* off.  (Cut short, or with a compensation that fails too, Promote leaves   *)
(* the old prod's route off.)                                               *)
ProdServes ==
  Quiet /\ faults <= 1 /\ cuts = 0 => \A v \in Versions :
    project.prod = v /\ versions[v].status = "ready" => versions[v].route = "active"

(* Archive and the reaper never archive the version that is prod, nor does a *)
(* promotion or its undoing make an archived version prod.                  *)
NeverArchiveProd ==
  \A v \in Versions : project.prod = v => versions[v].status # "archived"

(* With one call at a time the rows keep their types and prod its status.    *)
RowsKept == TypeOK /\ NeverArchiveProd

(* A promotion that fails and is undone leaves the prod pointer it found.    *)
FailedPromoteKeepsProd ==
  [][\A s \in Slots :
       call[s].pc \in UndoPCs /\ call'[s].pc = "idle" /\ cuts' = cuts => project'.prod = call[s].was]_vars

(* Once the reconciliations are done and unless one was cut short, of the    *)
(* versions that run only prod has its cron triggers.  (For versions that do *)
(* not move: the reconciliation asks the address recorded at deploy.)        *)
OnlyProdArmed ==
  Quiet /\ cuts = 0 => \A v \in Versions :
    /\ versions[v].status = "ready" /\ versions[v].armed /\ versions[v].up # "down"
    => project.prod \in {v, NoVersion, Blank}

(* No call brings a destroyed version back. *)
DestroyedIsFinal ==
  [][\A v \in Versions : versions[v].status = "destroyed" => versions'[v].status = "destroyed"]_vars

(* A version that serves, or that wake may bring back, has its data branch.  *)
ServedHasData ==
  \A v \in Versions : versions[v].status \in {"ready", "archived"} => versions[v].data

(* An archived version has no process of its own and its route is off,       *)
(* whatever promotions it was drained by and restored from before.          *)
ArchivedIsOff ==
  \A v \in Versions \ Elastic :
    versions[v].status = "archived" /\ cuts = 0 /\ (\A a \in Actors : call[a].v # v)
    => versions[v].route = "inactive" /\ versions[v].up = "down"

(* The reaper does not take the previous prod while it is kept for rollback. *)
RollbackKept ==
  [][\A v \in Versions :
       call[Reaper].v = v /\ versions'[v].status = "archived" /\ versions[v].status # "archived"
       => ~(project.previous = v /\ project.kept)]_vars

(* Both, whatever calls come one after the other.                            *)
LifeKept == DestroyedIsFinal /\ RollbackKept
=============================================================================
