---------------------------- MODULE ServingDesire ----------------------------
(***************************************************************************)
(* The serving desire of one enrolled version: how many replicas are       *)
(* wanted, and why.  Seven kinds of process write that row with a          *)
(* generation compare-and-set, each from what it read before: cold         *)
(* requests (gateway/activator), operator commands (serve), the end of a   *)
(* deploy, a promotion, the cron reconcile and a wake (orch).  The         *)
(* scheduler's pass reads it and moves the replica, and the version's      *)
(* status between deploy_ready and ready.                                  *)
(*                                                                         *)
(* A number of replicas is 0 or 1.  rep stands for the version's replicas, *)
(* which module Replicas models in detail.                                 *)
(***************************************************************************)
EXTENDS Integers, FiniteSets

CONSTANTS
    Operators, Flights, Deploys, Promotes, Crons, Wakes,  \* processes of each kind
    SdCasts,          \* the sets of processes that act together in a behaviour
    CasAttempts,      \* qualificationDesireCASAttempts and maxAttempts
    ProdScaleToZero   \* CELLP_PROD_SCALE_TO_ZERO

Processes == Operators \cup Flights \cup Deploys \cup Promotes \cup Crons \cup Wakes

\* A process is of one kind: an operator is no other, nor is a wake.
ASSUME SdAssumption ==
    /\ CasAttempts \in Nat \ {0}
    /\ ProdScaleToZero \in BOOLEAN
    /\ SdCasts \subseteq SUBSET Processes
    /\ IsFiniteSet(Operators)
    /\ Operators \cap (Flights \cup Deploys \cup Promotes \cup Crons \cup Wakes) = {}
    /\ Wakes \cap (Flights \cup Deploys \cup Promotes \cup Crons) = {}

VARIABLES
    desire,   \* serving_desires: [n, gen, why]; gen 0: no row
    policy,   \* serving_policies: the minimum; 1 is resident_required
    vers,     \* the version: [status, route, prod]
    rep,      \* its replica: "none", "starting" or "ready"
    lock,     \* this process holds the controller guard
    pin,      \* operatorServingEnsurer.active: [count, owns, before]
    job,      \* each process: [at, cas, seen, tries]
    sdPass,   \* the scheduler's pass: [at, min, des, ready]
    cast      \* the processes of this behaviour

sdVars == <<desire, policy, vers, rep, lock, pin, job, sdPass, cast>>

Reasons == {"idle", "ensure", "promote", "cron", "qualify"}

DesireRow(n, g, why) == [n |-> n, gen |-> g, why |-> why]

Places == {"start", "join", "mine", "check", "ensure", "after", "run", "leave", "quit", "drop",
           "wait", "resident", "preResident", "preRaise", "routable",
           "commit", "raise", "policy", "wake", "live", "release", "done", "failed"}

\* A version that is served or cold, at rest; one whose deploy has just set it
\* ready and still holds its own qualification desire; and an archived one.
SdStarts ==
    {<<[status |-> s, route |-> FALSE, prod |-> FALSE], DesireRow(0, 1, "idle"), "none">>
        : s \in {"ready", "deploy_ready", "archived"}}
    \cup {<<[status |-> "ready", route |-> TRUE, prod |-> FALSE], DesireRow(1, 1, "qualify"), "ready">>}

Suits(c, s) ==
    /\ (c \cap Deploys # {}) <=> (s[2].why = "qualify")
    /\ (c \cap Wakes # {}) <=> (s[1].status = "archived")

SdInit ==
    /\ cast \in SdCasts
    /\ \E s \in SdStarts :
          /\ Suits(cast, s)
          /\ vers = s[1] /\ desire = s[2] /\ rep = s[3]
    /\ policy = 0
    /\ lock = TRUE
    /\ pin = [count |-> 0, owns |-> FALSE, before |-> DesireRow(0, 0, "idle")]
    /\ job = [p \in Processes |-> [at |-> "start", cas |-> FALSE,
                                   seen |-> DesireRow(0, 0, "idle"), tries |-> 0]]
    /\ sdPass = [at |-> "rest", min |-> 0, des |-> DesireRow(0, 0, "idle"), ready |-> FALSE]

At(p, l) == p \in cast /\ job[p].at = l

Going(p, l) == [job EXCEPT ![p] = [at |-> l, cas |-> FALSE, seen |-> @.seen, tries |-> 0]]

SdGo(p, l) == job' = Going(p, l)

\* CompareAndSetDesired: the generation is part of the UPDATE's WHERE.
Fits(row) == desire.gen = row.gen

DesireWritten(row, n, why) == DesireRow(n, row.gen + 1, why)

\* A conflict: read again, until the attempts are used up.
Retry(p, gaveUp) ==
    job' = IF job[p].tries + 1 < CasAttempts
           THEN [job EXCEPT ![p].cas = FALSE, ![p].tries = @ + 1]
           ELSE Going(p, gaveUp)

-----------------------------------------------------------------------------
(* Loops that raise the desire for a promotion or for crons.               *)

\* Where each loop goes on, where it goes when its attempts are used up
\* (ensurePromotedProdActivation only leaves the loop), and its reason.
After(l) == CASE l = "preResident" -> "preRaise"
              [] l = "preRaise"    -> "routable"
              [] l = "raise"       -> "resident"
              [] l = "resident"    -> "done"

GivesUp(l) == IF l \in {"preRaise", "raise"} THEN After(l) ELSE "failed"

ReasonOf(l) == IF l \in {"preRaise", "raise"} THEN "promote" ELSE "cron"

RaiseRead(p, l) ==
    /\ At(p, l) /\ ~job[p].cas
    /\ IF desire.n >= 1
       THEN SdGo(p, After(l))
       ELSE job' = [job EXCEPT ![p].cas = TRUE, ![p].seen = desire]
    /\ UNCHANGED <<desire, policy, vers, rep, lock, pin, sdPass, cast>>

RaiseWrite(p, l) ==
    /\ At(p, l) /\ job[p].cas
    /\ \/ /\ Fits(job[p].seen)
          /\ desire' = DesireWritten(job[p].seen, 1, ReasonOf(l))
          /\ SdGo(p, After(l))
       \/ /\ ~Fits(job[p].seen)
          /\ Retry(p, GivesUp(l))
          /\ UNCHANGED desire
    /\ UNCHANGED <<policy, vers, rep, lock, pin, sdPass, cast>>

-----------------------------------------------------------------------------
(* EnsureCapacity: of a cold request, and of the first operator.           *)

FlightStarts(f) ==
    /\ f \in Flights /\ At(f, "start")
    /\ SdGo(f, "check")
    /\ UNCHANGED <<desire, policy, vers, rep, lock, pin, sdPass, cast>>

Ensured(p) == IF p \in Operators THEN "after" ELSE "wait"

NotEnsured(p) == IF p \in Operators THEN "leave" ELSE "failed"

Eligible == vers.status \in {"deploy_ready", "ready"}

\* The guard, the version and the policy, read before the desire.
EnsureChecks(p) ==
    /\ At(p, "check")
    /\ SdGo(p, IF lock /\ Eligible THEN "ensure" ELSE NotEnsured(p))
    /\ UNCHANGED <<desire, policy, vers, rep, lock, pin, sdPass, cast>>

EnsureReads(p) ==
    /\ At(p, "ensure") /\ ~job[p].cas
    /\ IF desire.n >= 1
       THEN SdGo(p, Ensured(p))
       ELSE job' = [job EXCEPT ![p].cas = TRUE, ![p].seen = desire]
    /\ UNCHANGED <<desire, policy, vers, rep, lock, pin, sdPass, cast>>

\* EnsureActivationDesired validates again inside its transaction; it may also
\* find that no node has a free slot.
EnsureWrites(p) ==
    /\ At(p, "ensure") /\ job[p].cas
    /\ \/ /\ ~lock \/ ~Eligible
          /\ SdGo(p, NotEnsured(p)) /\ UNCHANGED desire
       \/ /\ lock /\ Eligible /\ desire.n >= 1
          /\ SdGo(p, Ensured(p)) /\ UNCHANGED desire
       \/ /\ lock /\ Eligible /\ desire.n = 0 /\ Fits(job[p].seen)
          /\ \/ /\ desire' = DesireWritten(job[p].seen, 1, "ensure")
                /\ SdGo(p, Ensured(p))
             \/ /\ SdGo(p, NotEnsured(p)) /\ UNCHANGED desire
       \/ /\ lock /\ Eligible /\ desire.n = 0 /\ ~Fits(job[p].seen)
          /\ IF job[p].tries + 1 < CasAttempts
             THEN job' = [job EXCEPT ![p].at = "check", ![p].cas = FALSE, ![p].tries = @ + 1]
             ELSE SdGo(p, NotEnsured(p))
          /\ UNCHANGED desire
    /\ UNCHANGED <<policy, vers, rep, lock, pin, sdPass, cast>>

\* The flight polls the snapshot until its version is served there, or its
\* wait ends.
FlightEnds(f) ==
    /\ f \in Flights /\ At(f, "wait")
    /\ \/ rep = "ready" /\ vers.status = "ready" /\ SdGo(f, "done")
       \/ SdGo(f, "failed")
    /\ UNCHANGED <<desire, policy, vers, rep, lock, pin, sdPass, cast>>

-----------------------------------------------------------------------------
(* Operator commands: one pin, shared.                                     *)

OpEnters(o) ==
    /\ o \in Operators /\ At(o, "start")
    /\ pin' = IF pin.count = 0
              THEN [count |-> 1, owns |-> FALSE, before |-> DesireRow(0, 0, "idle")]
              ELSE [pin EXCEPT !.count = @ + 1]
    /\ SdGo(o, IF pin.count = 0 THEN "mine" ELSE "join")
    /\ UNCHANGED <<desire, policy, vers, rep, lock, sdPass, cast>>

\* pinDesire's first read: a version that is held keeps that pin.
OpReads(o) ==
    /\ At(o, "mine")
    /\ \/ /\ desire.n >= 1
          /\ pin' = [pin EXCEPT !.before = desire]
          /\ SdGo(o, "join")
       \/ /\ desire.n = 0
          /\ job' = [job EXCEPT ![o].at = "check", ![o].seen = desire]
          /\ pin' = [pin EXCEPT !.before = desire]
       \/ SdGo(o, "leave") /\ UNCHANGED pin
    /\ UNCHANGED <<desire, policy, vers, rep, lock, sdPass, cast>>

\* The read after EnsureCapacity says whether the pin is the operators' own.
\* When that read fails, nobody will lower what was raised.
OpRecords(o) ==
    /\ At(o, "after")
    /\ \/ /\ pin' = [pin EXCEPT !.owns = desire.n >= 1 /\ desire.gen # pin.before.gen]
          /\ SdGo(o, "join")
       \/ SdGo(o, "quit") /\ UNCHANGED pin
    /\ UNCHANGED <<desire, policy, vers, rep, lock, sdPass, cast>>

\* live and waitLive: the command runs once a replica is ready.
OpRuns(o) ==
    /\ At(o, "join")
    /\ SdGo(o, "leave") \/ (rep = "ready" /\ SdGo(o, "run"))
    /\ UNCHANGED <<desire, policy, vers, rep, lock, pin, sdPass, cast>>

OpStops(o) ==
    /\ At(o, "run")
    /\ SdGo(o, "leave")
    /\ UNCHANGED <<desire, policy, vers, rep, lock, pin, sdPass, cast>>

\* Mutant of LastOut: whoever leaves takes the pin along.
AnyOut(p) == p.count >= 1

LastOut(p) == p.count = 1

\* finish: the entry is deleted under mu; the desire is lowered afterwards.
OpLeaves(o) ==
    /\ At(o, "leave") \/ At(o, "quit")
    /\ pin' = IF LastOut(pin)
              THEN [count |-> 0, owns |-> FALSE, before |-> DesireRow(0, 0, "idle")]
              ELSE [pin EXCEPT !.count = @ - 1]
    /\ SdGo(o, IF LastOut(pin) /\ pin.owns THEN "drop"
             ELSE IF At(o, "quit") THEN "failed" ELSE "done")
    /\ UNCHANGED <<desire, policy, vers, rep, lock, sdPass, cast>>

\* dropPin reads, then writes once: a conflict is not tried again.
OpDropReads(o) ==
    /\ At(o, "drop") /\ ~job[o].cas
    /\ IF desire.n >= 1 /\ desire.why = "ensure"
       THEN job' = [job EXCEPT ![o].cas = TRUE, ![o].seen = desire]
       ELSE SdGo(o, "done")
    /\ UNCHANGED <<desire, policy, vers, rep, lock, pin, sdPass, cast>>

OpDropWrites(o) ==
    /\ At(o, "drop") /\ job[o].cas
    /\ desire' = IF Fits(job[o].seen) THEN DesireWritten(job[o].seen, 0, "idle") ELSE desire
    /\ SdGo(o, "done")
    /\ UNCHANGED <<policy, vers, rep, lock, pin, sdPass, cast>>

-----------------------------------------------------------------------------
(* The end of a deploy, the cron reconcile, a promotion and a wake.        *)

\* finalizeQualificationIdleDesire: not for a resident policy, and only the
\* desire this job holds; then the crons' residency (armed or not).
DeployReads(d) ==
    /\ d \in Deploys /\ At(d, "start") /\ ~job[d].cas
    /\ \/ /\ policy = 0 /\ desire.why = "qualify"
          /\ job' = [job EXCEPT ![d].cas = TRUE, ![d].seen = desire]
       \/ /\ policy > 0 \/ desire.why # "qualify"
          /\ \E l \in {"resident", "done"} : SdGo(d, l)
    /\ UNCHANGED <<desire, policy, vers, rep, lock, pin, sdPass, cast>>

DeployWrites(d) ==
    /\ d \in Deploys /\ At(d, "start") /\ job[d].cas
    /\ \/ /\ Fits(job[d].seen)
          /\ desire' = DesireWritten(job[d].seen, 0, "idle")
          /\ \E l \in {"resident", "done"} : SdGo(d, l)
       \/ /\ ~Fits(job[d].seen)
          /\ Retry(d, "failed") /\ UNCHANGED desire
    /\ UNCHANGED <<policy, vers, rep, lock, pin, sdPass, cast>>

\* ensureCronServingPolicy: the policy becomes resident before the desire.
CronPolicy(c) ==
    /\ c \in Crons /\ At(c, "start") /\ vers.status = "ready"
    /\ policy' = 1
    /\ SdGo(c, "resident")
    /\ UNCHANGED <<desire, vers, rep, lock, pin, sdPass, cast>>

\* Routed == the version is in the public snapshot.
Routed == vers.status = "ready" /\ rep = "ready"

\* validatePromoteTarget: a version without an endpoint is raised first, and
\* the crons of its bundle, when it would be the first prod, before that.
PromoteStarts(p) ==
    /\ p \in Promotes /\ At(p, "start") /\ vers.status = "ready"
    /\ IF Routed THEN SdGo(p, "commit") ELSE \E l \in {"preResident", "preRaise"} : SdGo(p, l)
    /\ UNCHANGED <<desire, policy, vers, rep, lock, pin, sdPass, cast>>

\* waitPromoteRoutableSnapshot gives up after defaultQualificationWait.
PromoteWaits(p) ==
    /\ At(p, "routable")
    /\ SdGo(p, "failed") \/ (Routed /\ SdGo(p, "commit"))
    /\ UNCHANGED <<desire, policy, vers, rep, lock, pin, sdPass, cast>>

\* CommitProdPromote: prod and the route in one transaction, whatever the
\* version's status is by now.
PromoteCommits(p) ==
    /\ At(p, "commit")
    /\ vers' = [vers EXCEPT !.prod = TRUE, !.route = TRUE]
    /\ SdGo(p, "raise")
    /\ UNCHANGED <<desire, policy, rep, lock, pin, sdPass, cast>>

\* wakeElastic sets the status first.  Its own entry to the loop writes the
\* desire even when it is raised already; only a later round leaves it alone.
WakeStarts(w) ==
    /\ w \in Wakes /\ At(w, "start") /\ vers.status = "archived"
    /\ vers' = [vers EXCEPT !.status = "ready"]
    /\ SdGo(w, "wake")
    /\ UNCHANGED <<desire, policy, rep, lock, pin, sdPass, cast>>

\* seen.n = 0 in the first round is "raised"; pass it on in tries' place.
WakeReads(w) ==
    /\ At(w, "wake") /\ ~job[w].cas
    /\ job' = IF job[w].tries > 0 /\ desire.n >= 1
              THEN [job EXCEPT ![w] = [at |-> "live", cas |-> TRUE, seen |-> desire, tries |-> 0]]
              ELSE [job EXCEPT ![w].cas = TRUE, ![w].seen = desire]
    /\ UNCHANGED <<desire, policy, vers, rep, lock, pin, sdPass, cast>>

\* cas at "live" and at "release" stands for the local variable raised.
WakeWrites(w) ==
    LET waiting == [at |-> "live", cas |-> job[w].tries > 0 \/ job[w].seen.n = 0,
                    seen |-> job[w].seen, tries |-> 0]
    IN  /\ At(w, "wake") /\ job[w].cas
        /\ \/ /\ Fits(job[w].seen)
              /\ desire' = DesireWritten(job[w].seen, 1, "promote")
              /\ job' = [job EXCEPT ![w] = waiting]
           \/ /\ ~Fits(job[w].seen)
              /\ job' = IF job[w].tries + 1 < CasAttempts
                        THEN [job EXCEPT ![w].cas = FALSE, ![w].tries = @ + 1]
                        ELSE [job EXCEPT ![w] = waiting]
              /\ UNCHANGED desire
        /\ UNCHANGED <<policy, vers, rep, lock, pin, sdPass, cast>>

\* The wait for a live replica; when it fails nothing is lowered.
WakeWaits(w) ==
    /\ At(w, "live")
    /\ \/ SdGo(w, "failed")
       \/ /\ rep = "ready"
          /\ job' = [job EXCEPT ![w].at = IF job[w].cas THEN "release" ELSE "done",
                                ![w].cas = FALSE]
    /\ UNCHANGED <<desire, policy, vers, rep, lock, pin, sdPass, cast>>

\* releaseWakePin: what it read last in the loop is what it restores.
WakeReleases(w) ==
    /\ At(w, "release") /\ ~job[w].cas
    /\ IF desire.n >= 1 /\ desire.why = "promote"
       THEN job' = [job EXCEPT ![w].cas = TRUE, ![w].tries = desire.gen]
       ELSE SdGo(w, "done")
    /\ UNCHANGED <<desire, policy, vers, rep, lock, pin, sdPass, cast>>

WakeRestores(w) ==
    LET before == job[w].seen
    IN  /\ At(w, "release") /\ job[w].cas
        /\ desire' = IF desire.gen # job[w].tries THEN desire
                     ELSE IF before.n >= 1 THEN DesireRow(before.n, desire.gen + 1, before.why)
                     ELSE DesireRow(0, desire.gen + 1, "idle")
        /\ SdGo(w, "done")
        /\ UNCHANGED <<policy, vers, rep, lock, pin, sdPass, cast>>

-----------------------------------------------------------------------------
(* The scheduler: one pass at a time (tickMu).                             *)

\* Tick lists the policies once, before anything is read of a version.
PassStarts ==
    /\ sdPass.at = "rest" /\ lock
    /\ sdPass' = [sdPass EXCEPT !.at = "desire", !.min = policy]
    /\ UNCHANGED <<desire, policy, vers, rep, lock, pin, job, cast>>

PassReads ==
    /\ sdPass.at = "desire"
    /\ sdPass' = [sdPass EXCEPT !.at = "move", !.des = desire]
    /\ UNCHANGED <<desire, policy, vers, rep, lock, pin, job, cast>>

\* resolveDesired clamps to the policy; an archived version wants nothing.
Wanted == IF vers.status = "archived" THEN 0
          ELSE IF sdPass.des.n < sdPass.min THEN sdPass.min ELSE sdPass.des.n

\* Retire, converge or place: one step of module Replicas, which may also come
\* to nothing (no capacity, a call that fails).
PassMoves ==
    /\ sdPass.at = "move"
    /\ \/ rep' = rep
       \/ Wanted = 0 /\ rep' = "none"
       \/ Wanted = 1 /\ rep = "none" /\ rep' = "starting"
       \/ Wanted = 1 /\ rep = "starting" /\ rep' = "ready"
    /\ sdPass' = [sdPass EXCEPT !.at = "status"]
    /\ UNCHANGED <<desire, policy, vers, lock, pin, job, cast>>

\* reconcileVersionServingStatus: the version, the replicas, the view and the
\* route as they are now, the desire and the policy as they were.
PassDecides ==
    LET warm == vers.status = "deploy_ready" /\ sdPass.des.why = "ensure" /\ rep = "ready"
        cool == /\ vers.status = "ready" /\ sdPass.min = 0 /\ sdPass.des.n = 0
                /\ rep = "none" /\ ~vers.route
    IN  /\ sdPass.at = "status"
        /\ sdPass' = [sdPass EXCEPT !.at = IF (warm \/ cool) /\ lock THEN "cas" ELSE "rest",
                                !.ready = warm]
        /\ UNCHANGED <<desire, policy, vers, rep, lock, pin, job, cast>>

\* CompareAndSetElasticVersionStatus: the desire's generation, the policy and
\* the reason are checked with the status, in one transaction.
MayWarm == vers.status = "deploy_ready" /\ desire.why = "ensure"

\* Mutant of MayCool: the pass has seen the policy and the pointer already.
MayCoolReady == vers.status = "ready"

MayCool ==
    /\ vers.status = "ready" /\ policy = 0
    /\ ProdScaleToZero \/ ~vers.prod

PassWrites ==
    /\ sdPass.at = "cas"
    /\ vers' = IF desire # sdPass.des THEN vers
               ELSE IF sdPass.ready /\ MayWarm /\ desire.n >= 1
                    THEN [vers EXCEPT !.status = "ready"]
               ELSE IF ~sdPass.ready /\ MayCool THEN [vers EXCEPT !.status = "deploy_ready"]
               ELSE vers
    /\ sdPass' = [sdPass EXCEPT !.at = "rest"]
    /\ UNCHANGED <<desire, policy, rep, lock, pin, job, cast>>

SdPass == PassStarts \/ PassReads \/ PassMoves \/ PassDecides \/ PassWrites

\* External: the replica's node or celld fails.
ReplicaLost ==
    /\ rep # "none" /\ rep' = "none"
    /\ UNCHANGED <<desire, policy, vers, lock, pin, job, sdPass, cast>>

\* The guard row is taken away from this process (--force by another).
GuardLost ==
    /\ lock /\ lock' = FALSE
    /\ UNCHANGED <<desire, policy, vers, rep, pin, job, sdPass, cast>>

ProcessStep(p) ==
    \/ \E l \in {"preResident", "preRaise", "raise", "resident"} : RaiseRead(p, l) \/ RaiseWrite(p, l)
    \/ FlightStarts(p) \/ EnsureChecks(p) \/ EnsureReads(p) \/ EnsureWrites(p) \/ FlightEnds(p)
    \/ OpEnters(p) \/ OpReads(p) \/ OpRecords(p) \/ OpRuns(p) \/ OpStops(p)
    \/ OpLeaves(p) \/ OpDropReads(p) \/ OpDropWrites(p)
    \/ DeployReads(p) \/ DeployWrites(p) \/ CronPolicy(p)
    \/ PromoteStarts(p) \/ PromoteWaits(p) \/ PromoteCommits(p)
    \/ WakeStarts(p) \/ WakeReads(p) \/ WakeWrites(p) \/ WakeWaits(p)
    \/ WakeReleases(p) \/ WakeRestores(p)

SdNext == SdPass \/ ReplicaLost \/ GuardLost \/ \E p \in Processes : ProcessStep(p)

SdSpec == SdInit /\ [][SdNext]_sdVars

\* The scheduler's loop goes on for as long as the process holds the guard.
SdFairness == WF_sdVars(SdPass)

-----------------------------------------------------------------------------

SdTypeOK ==
    /\ desire \in [n : 0..1, gen : Nat, why : Reasons]
    /\ policy \in 0..1
    /\ vers \in [status : {"ready", "deploy_ready", "archived"}, route : BOOLEAN, prod : BOOLEAN]
    /\ rep \in {"none", "starting", "ready"}
    /\ lock \in BOOLEAN
    /\ pin \in [count : Nat, owns : BOOLEAN, before : [n : 0..1, gen : Nat, why : Reasons]]
    /\ pin.count = Cardinality({o \in Operators :
                        job[o].at \notin {"start", "drop", "done", "failed"}})
    /\ job \in [Processes -> [at : Places, cas : BOOLEAN, tries : Nat,
                              seen : [n : 0..1, gen : Nat, why : Reasons]]]
    /\ sdPass \in [at : {"rest", "desire", "move", "status", "cas"}, min : 0..1, ready : BOOLEAN,
                 des : [n : 0..1, gen : Nat, why : Reasons]]

\* While the operators' pin is their own and nobody has woken the version, an
\* operator's command that runs has its demand: no operator that left took it.
OperatorPinHolds ==
    (pin.owns /\ \A w \in Wakes : job[w].at = "start") => desire.n >= 1

\* When only operators have acted, and each is out without an error, the
\* version scales to zero again.
OnlyOperators == \A p \in Processes \ Operators : job[p].at = "start"

PinsReturned ==
    (/\ OnlyOperators /\ cast \cap Deploys = {}
     /\ \A o \in Operators : job[o].at \in {"start", "done"}
     /\ pin.count = 0)
    => desire.n = 0

\* The operators' shared pin is theirs for as long as one of them needs it, and
\* is given back.
PinsHold == SdTypeOK /\ OperatorPinHolds /\ PinsReturned

\* The version is made cold only when, at that moment, nobody wants it and its
\* policy keeps no replica, however old the reads of the pass are.
CooledUnwanted ==
    [][vers.status = "ready" /\ vers'.status = "deploy_ready"
          => desire.n = 0 /\ policy = 0 /\ (vers.prod => ProdScaleToZero)]_sdVars

\* A deploy_ready version whose replica has become ready is ready again, or
\* the replica is lost, the guard is lost, or the demand is withdrawn.
ActivatedBecomesReady ==
    (vers.status = "deploy_ready" /\ desire.n = 1 /\ rep = "ready") ~>
        (vers.status = "ready" \/ rep # "ready" \/ ~lock \/ desire.n = 0)

=============================================================================
