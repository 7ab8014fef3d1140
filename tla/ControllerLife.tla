---------------------------- MODULE ControllerLife ----------------------------
(***************************************************************************)
(* The life of a cellpd process (serve.Run): it acquires the singleton     *)
(* controller guard, starts its workers, serves, and cleans up, in the     *)
(* order of serve.go and under one deadline, before it gives back the      *)
(* lease of its embedded agent and the guard.  Several processes of one    *)
(* machine are started one after another or together; any can crash.       *)
(*                                                                         *)
(* The workers are taken together by the stage of the cleanup that waits   *)
(* for them: the ingress listeners; the servers (API, gateway, dashboard,  *)
(* TLS, activator); the loops (snapshot poller, autoscaler, scheduler,     *)
(* metrics, orchestrator, gc, archive reaper, remote control); the         *)
(* embedded agent; the celld processes of runtime.Manager.                 *)
(***************************************************************************)
EXTENDS Integers, FiniteSets

CONSTANTS
    Cellpds,      \* processes, numbered in the order of their start
    NoCellpd,     \* holder_id IS NULL
    GuardTries,   \* maxAttempts of TryAcquireControllerGuard
    CellpdFaults  \* bound: crashes, failed starts, failed stops

ASSUME CellpdAssumption ==
    /\ NoCellpd \notin Cellpds /\ Cellpds \subseteq Nat
    /\ {GuardTries, CellpdFaults} \subseteq Nat

VARIABLES
    guard,   \* controller_guard: its holder, whose pid is recorded with it
    cellpd,  \* each process
    setbacks  \* faults so far

clVars == <<guard, cellpd, setbacks>>

CleanupStages == {"ingress", "servers", "loops", "agent", "celld", "lease", "free"}
Tracked == {"ingress", "servers", "loops", "agent"}
Writers == Tracked \ {"ingress"}
CellpdAts == {"off", "read", "clear", "set", "boot", "run", "exit", "gone"} \cup CleanupStages
Process == [at : CellpdAts, cur : Cellpds \cup {NoCellpd}, tries : Nat,
            up : SUBSET (Tracked \cup {"celld"}), served : BOOLEAN, cancelled : BOOLEAN,
            late : BOOLEAN, quiesced : BOOLEAN, leased : BOOLEAN, cron : BOOLEAN]

NoProcess == [at |-> "off", cur |-> NoCellpd, tries |-> 0, up |-> {}, served |-> FALSE,
              cancelled |-> FALSE, late |-> FALSE, quiesced |-> TRUE, leased |-> FALSE,
              cron |-> FALSE]

ClInit == guard = NoCellpd /\ cellpd = [p \in Cellpds |-> NoProcess] /\ setbacks = 0

SetCellpd(p, q) == cellpd' = [cellpd EXCEPT ![p] = q]
Stage(p, at) == SetCellpd(p, [cellpd[p] EXCEPT !.at = at])

\* pidAlive.
PidAlive(p) == p # NoCellpd /\ cellpd[p].at \notin {"off", "gone"}

Mishap == setbacks < CellpdFaults /\ setbacks' = setbacks + 1

\* A process that is dead; the lease it had, if any, ends by itself.
Gone == [NoProcess EXCEPT !.at = "gone"]

-----------------------------------------------------------------------------
(* The guard.                                                               *)

Launched(p) ==
    /\ cellpd[p].at = "off" /\ \A o \in Cellpds : o < p => cellpd[o].at # "off"
    /\ Stage(p, "read") /\ UNCHANGED <<guard, setbacks>>

\* Another holder's guard is cleared if its process is dead.
ReadsGuard(p) ==
    /\ cellpd[p].at = "read"
    /\ IF guard \in {NoCellpd, p} THEN Stage(p, "set")
       ELSE IF PidAlive(guard) THEN SetCellpd(p, Gone)
       ELSE SetCellpd(p, [cellpd[p] EXCEPT !.at = "clear", !.cur = guard])
    /\ UNCHANGED <<guard, setbacks>>

TriesAgain(p) ==
    IF cellpd[p].tries + 1 >= GuardTries THEN SetCellpd(p, Gone)
    ELSE SetCellpd(p, [cellpd[p] EXCEPT !.at = "read", !.tries = @ + 1, !.cur = NoCellpd])

\* Mutant of ClearsGuard: whoever holds it now loses it.
ClearsAnyGuard(p) ==
    /\ cellpd[p].at = "clear"
    /\ guard' = NoCellpd /\ SetCellpd(p, [cellpd[p] EXCEPT !.at = "set", !.cur = NoCellpd])
    /\ UNCHANGED setbacks

\* The update's WHERE names the dead holder.
ClearsGuard(p) ==
    /\ cellpd[p].at = "clear"
    /\ IF guard = cellpd[p].cur
         THEN guard' = NoCellpd /\ SetCellpd(p, [cellpd[p] EXCEPT !.at = "set", !.cur = NoCellpd])
         ELSE UNCHANGED guard /\ TriesAgain(p)
    /\ UNCHANGED setbacks

SetsGuard(p) ==
    /\ cellpd[p].at = "set"
    /\ IF guard \in {NoCellpd, p}
         THEN guard' = p /\ SetCellpd(p, [cellpd[p] EXCEPT !.at = "boot", !.tries = 0])
       ELSE UNCHANGED guard /\ TriesAgain(p)
    /\ UNCHANGED setbacks

-----------------------------------------------------------------------------
(* The start.                                                               *)

\* What serve.Run starts next.
NextUp(up) ==
    IF "loops" \notin up THEN "loops" ELSE IF "ingress" \notin up THEN "ingress"
    ELSE IF "agent" \notin up THEN "agent" ELSE "servers"

\* startElasticAgent leaves a lease behind it; after the servers Run only waits.
Boots(p) ==
    LET c == NextUp(cellpd[p].up \ {"celld"})
    IN /\ cellpd[p].at = "boot" /\ (c = "agent" => ~cellpd[p].cancelled)
       /\ SetCellpd(p, [cellpd[p] EXCEPT !.up = @ \cup {c},
                          !.leased = @ \/ c = "agent", !.served = @ \/ c = "servers",
                          !.at = IF c = "servers" THEN "run" ELSE @])
       /\ UNCHANGED <<guard, setbacks>>

\* The boot reconcile of the listeners fails, at the first or a later port, or
\* the agent's, or the context is cancelled under it: Run returns, and the cleanup
\* runs with what was started.
BootFails(p) ==
    LET c == NextUp(cellpd[p].up \ {"celld"})
    IN /\ cellpd[p].at = "boot" /\ c \in {"ingress", "agent"}
       /\ IF c = "agent" /\ cellpd[p].cancelled THEN UNCHANGED setbacks ELSE Mishap
       /\ \E some \in SUBSET ({c} \cap {"ingress"}) :
            SetCellpd(p, [cellpd[p] EXCEPT !.at = "ingress", !.cancelled = @ \/ c = "agent",
                                           !.up = @ \cup some])
       /\ UNCHANGED guard

\* A deploy, a promotion or an archive under way reconciles the listeners: those
\* that CloseAll has closed are opened again.
OpensIngress(p) ==
    /\ cellpd[p].at # "boot" /\ cellpd[p].up \cap {"loops", "servers"} # {}
    /\ SetCellpd(p, [cellpd[p] EXCEPT !.up = @ \cup {"ingress"}])
    /\ UNCHANGED <<guard, setbacks>>

\* The orchestrator and the agent start celld processes; so does the goroutine
\* that a promotion leaves behind, which nothing waits for.
RunsCelld(p) ==
    /\ cellpd[p].up \cap {"loops", "agent"} # {} \/ cellpd[p].cron
    /\ SetCellpd(p, [cellpd[p] EXCEPT !.up = @ \cup {"celld"}])
    /\ UNCHANGED <<guard, setbacks>>

\* enqueueCronReconcileAfterProdChange: context.Background(), five minutes.
CronBegins(p) ==
    /\ "servers" \in cellpd[p].up /\ ~cellpd[p].cron
    /\ SetCellpd(p, [cellpd[p] EXCEPT !.cron = TRUE]) /\ UNCHANGED <<guard, setbacks>>

CronEnds(p) ==
    /\ cellpd[p].cron
    /\ SetCellpd(p, [cellpd[p] EXCEPT !.cron = FALSE]) /\ UNCHANGED <<guard, setbacks>>

\* A signal cancels the context everything runs with; so does a fatal error.
StopSignal(p) ==
    /\ cellpd[p].at \in {"boot", "run"} /\ ~cellpd[p].cancelled
    /\ SetCellpd(p, [cellpd[p] EXCEPT !.cancelled = TRUE])
    /\ UNCHANGED <<guard, setbacks>>

\* The select of Run.
RunReturns(p) ==
    /\ cellpd[p].at = "run" /\ cellpd[p].cancelled
    /\ Stage(p, "ingress") /\ UNCHANGED <<guard, setbacks>>

Crashes(p) ==
    /\ Mishap /\ PidAlive(p) /\ SetCellpd(p, Gone) /\ UNCHANGED guard

-----------------------------------------------------------------------------
(* The cleanup.                                                             *)

NextCleanup(c) ==
    IF c = "ingress" THEN "servers" ELSE IF c = "servers" THEN "loops"
    ELSE IF c = "loops" THEN "agent" ELSE "celld"

Cleaning(p) == cellpd[p].at \in CleanupStages

\* Has worker c been told to end?
Told(p, c) ==
    \/ c = "ingress" /\ Cleaning(p)
    \/ c = "servers" /\ Cleaning(p) /\ cellpd[p].at # "ingress"
    \/ c \in {"loops", "agent"} /\ cellpd[p].cancelled

Ends(p, c) ==
    /\ c \in cellpd[p].up \cap Tracked /\ Told(p, c)
    /\ SetCellpd(p, [cellpd[p] EXCEPT !.up = @ \ {c}]) /\ UNCHANGED <<guard, setbacks>>

\* Mutant of Deadline: the deadline begins with the shutdown of the servers.
DeadlineOfServers(p) ==
    /\ Cleaning(p) /\ ~cellpd[p].late /\ cellpd[p].served
    /\ SetCellpd(p, [cellpd[p] EXCEPT !.late = TRUE]) /\ UNCHANGED <<guard, setbacks>>

\* runShutdownTimeout: one deadline for every wait.
Deadline(p) ==
    /\ Cleaning(p) /\ ~cellpd[p].late
    /\ SetCellpd(p, [cellpd[p] EXCEPT !.late = TRUE]) /\ UNCHANGED <<guard, setbacks>>

\* The channels of servers that were never started are closed by nobody.
Ended(p, c) == c \notin cellpd[p].up /\ (c = "servers" => cellpd[p].served)

Moved(p, c, ok) ==
    SetCellpd(p, [cellpd[p] EXCEPT !.at = NextCleanup(c), !.quiesced = @ /\ ok,
                    !.cancelled = @ \/ c = "servers"])

WaitsFor(p, c) ==
    /\ c \in Tracked /\ cellpd[p].at = c
    /\ Ended(p, c) /\ Moved(p, c, TRUE)
    /\ UNCHANGED <<guard, setbacks>>

\* Mutant of GivesUpOn: the error is reported, not remembered.
GivesUpQuietly(p, c) ==
    /\ c \in Tracked /\ cellpd[p].at = c /\ cellpd[p].late
    /\ Moved(p, c, TRUE)
    /\ UNCHANGED <<guard, setbacks>>

\* markQuiescence.
GivesUpOn(p, c) ==
    /\ c \in Tracked /\ cellpd[p].at = c /\ cellpd[p].late
    /\ Moved(p, c, FALSE)
    /\ UNCHANGED <<guard, setbacks>>

\* rm.StopAll.
StopsAll(p) ==
    /\ cellpd[p].at = "celld"
    /\ SetCellpd(p, [cellpd[p] EXCEPT !.at = "lease", !.up = @ \ {"celld"}])
    /\ UNCHANGED <<guard, setbacks>>

StopAllFails(p) ==
    /\ Mishap /\ cellpd[p].at = "celld"
    /\ SetCellpd(p, [cellpd[p] EXCEPT !.at = "lease", !.quiesced = FALSE])
    /\ UNCHANGED guard

ReleasesLease(p) ==
    /\ cellpd[p].at = "lease"
    /\ SetCellpd(p, [cellpd[p] EXCEPT !.at = "free", !.leased = @ /\ ~cellpd[p].quiesced])
    /\ UNCHANGED <<guard, setbacks>>

ReleaseLeaseFails(p) ==
    /\ Mishap /\ cellpd[p].at = "lease" /\ cellpd[p].leased /\ cellpd[p].quiesced
    /\ SetCellpd(p, [cellpd[p] EXCEPT !.at = "free", !.quiesced = FALSE])
    /\ UNCHANGED guard

\* releaseControllerGuardIfQuiesced; nothing reads late and served after it.
FreesGuard(p) ==
    /\ cellpd[p].at = "free"
    /\ guard' = IF cellpd[p].quiesced /\ guard = p THEN NoCellpd ELSE guard
    /\ SetCellpd(p, [cellpd[p] EXCEPT !.at = "exit", !.late = FALSE, !.served = FALSE])
    /\ UNCHANGED setbacks

Exits(p) ==
    /\ cellpd[p].at = "exit" /\ SetCellpd(p, Gone) /\ UNCHANGED <<guard, setbacks>>

Cleans(p) ==
    \/ \E c \in Tracked : WaitsFor(p, c) \/ GivesUpOn(p, c)
    \/ StopsAll(p) \/ StopAllFails(p) \/ ReleasesLease(p) \/ ReleaseLeaseFails(p)
    \/ FreesGuard(p) \/ Exits(p)

ClStep(p) ==
    \/ Launched(p) \/ ReadsGuard(p) \/ ClearsGuard(p) \/ SetsGuard(p)
    \/ Boots(p) \/ BootFails(p) \/ OpensIngress(p) \/ RunsCelld(p) \/ CronBegins(p) \/ CronEnds(p)
    \/ StopSignal(p) \/ RunReturns(p) \/ Crashes(p) \/ Deadline(p) \/ Cleans(p)
    \/ \E c \in Tracked : Ends(p, c)

ClNext == \E p \in Cellpds : ClStep(p)

ClSpec == ClInit /\ [][ClNext]_clVars

\* A process that cleans up runs on, and its deadline is a timer.
ClFair ==
    /\ ClSpec
    /\ \A p \in Cellpds : WF_clVars(Cleans(p)) /\ WF_clVars(Deadline(p))

-----------------------------------------------------------------------------
(* What must hold.                                                          *)

\* The variables have their types.
ClTypeOK ==
    /\ guard \in Cellpds \cup {NoCellpd} /\ cellpd \in [Cellpds -> Process]
    /\ setbacks \in 0 .. CellpdFaults

\* Whatever crashes, races for the guard of a dead process, or overruns its
\* deadline: a process whose servers, loops or agent still run is the one that
\* holds the guard, so no two write.
WorkersHoldGuard ==
    \A p \in Cellpds : cellpd[p].up \cap Writers # {} => guard = p

\* The singleton writer.
GuardSound == ClTypeOK /\ WorkersHoldGuard

\* The lease of the embedded agent is given back only when nothing is left of
\* the process that could use it.
LeaseReleasedQuiet ==
    [][\A p \in Cellpds :
         cellpd[p].leased /\ ~cellpd'[p].leased /\ cellpd'[p].at # "gone" =>
           cellpd[p].up \cap Writers = {}]_clVars

\* Once the cleanup has begun the process ends, whatever its workers do.
CleanupEnds == \A p \in Cellpds : Cleaning(p) ~> (cellpd[p].at = "gone")

\* "releaseControllerGuardIfQuiesced releases the singleton writer guard only
\* after a fully quiesced shutdown" (serve/controller_guard.go:22): when the
\* guard is free nothing of the process runs.  A listener that a deploy opened
\* again after CloseAll may, and the goroutine of a promotion.
GuardFreedQuiet ==
    \A p \in Cellpds : PidAlive(p) /\ cellpd[p].at = "exit" /\ cellpd[p].quiesced =>
        cellpd[p].up = {} /\ ~cellpd[p].cron
=============================================================================
