----------------------------- MODULE DeployJobs -----------------------------
(***************************************************************************)
(* The deploy pipeline of cellp: the job queue and the per-version deploy   *)
(* operation kept in SQLite (internal/registry) and the orchestrator        *)
(* workers that deploy versions and compensate failed deploys               *)
(* (internal/orch).                                                         *)
(*                                                                         *)
(* Every registry call is one SQLite transaction (the store opens a single  *)
(* connection), hence one action.  Between two calls of a worker, anything  *)
(* may happen: other workers, a lease running out, a crash.                 *)
(*                                                                         *)
(* A lease is stored as a wall-clock deadline of which the code only asks   *)
(* whether it has passed.  The model keeps the time that is left, in ticks: *)
(* NoLease for NULL, 0 for a deadline in the past.                          *)
(***************************************************************************)
EXTENDS Integers, FiniteSets

CONSTANTS
  Jobs,        \* job ids
  Versions,    \* versions of one project
  VersionOf,   \* the version a job deploys
  Elastic,     \* the versions whose serving policy is elastic-enrolled
  Workers,     \* orchestrator worker goroutines
  NoJob,       \* deploy_operation_job_id IS NULL
  NoWorker,    \* claimed_worker_id IS NULL
  NoVersion,   \* prod_version_id IS NULL
  LeaseTicks,  \* jobLease, in ticks
  MaxEpoch,    \* bound: claims of one job
  MaxFaults,   \* bound: worker crashes, failed cleanup calls, ill-timed renewals
  MaxStalls    \* bound: ticks during which a running worker loses a lease

ASSUME JobsAssumption == VersionOf \in [Jobs -> Versions] /\ Elastic \subseteq Versions
ASSUME NullAssumption == NoJob \notin Jobs /\ NoWorker \notin Workers /\ NoVersion \notin Versions
ASSUME ReasonsAssumption ==   \* a qualification reason is no other reason
  Jobs \cap {"none", "deploy_failed", "idle", "third_party"} = {}
ASSUME BoundsAssumption ==
  LeaseTicks \in Nat \ {0} /\ MaxEpoch \in Nat /\ MaxFaults \in Nat /\ MaxStalls \in Nat

VARIABLES
  jobs,      \* the jobs table
  versions,  \* the versions table, with the version's desire, route and data branch
  prod,      \* projects.prod_version_id
  wk,        \* the workers' local state
  faults, stalls

vars == <<jobs, versions, prod, wk, faults, stalls>>

-----------------------------------------------------------------------------
NoLease  == -1
Lease    == -1 .. LeaseTicks
Epoch    == 0 .. MaxEpoch

CompSteps == {"desire", "route", "branch", "release"}   \* the steps "compensating:*"
Stages    == {"fetching", "branching", "preparing", "deploying"}
NextStage == [fetching |-> "branching", branching |-> "preparing", preparing |-> "deploying"]

JobRow == [status : {"absent", "pending", "claimed", "compensating", "completed", "failed"},
           step   : CompSteps \cup {"deploy"},
           lease  : Lease,
           worker : Workers \cup {NoWorker},
           epoch  : Epoch]

(* The reason of serving_desires: the id of the job that qualifies the      *)
(* version stands for "deploy_qualification:<job>", "third_party" for every *)
(* reason of an activator, operator, promotion or resident cron.            *)
Reasons == Jobs \cup {"none", "deploy_failed", "idle", "third_party"}

VersionRow == [status  : Stages \cup {"pending", "deploy_ready", "ready", "failed"},
               op      : Jobs \cup {NoJob},
               opEpoch : Epoch,
               opLease : Lease,
               desire  : Reasons,
               route   : {"none", "active", "inactive"},
               branch  : BOOLEAN]

DeployPCs == {"claimop", "status", "step", "work", "fork", "forked", "qualify",
              "route", "tail", "bootstrap", "cron"}
FailPCs   == {"fail", "markfailed", "failcheck", "cstart", "aborting", "failnow", "handoff"}
CompPCs   == {"ccheck", "cact", "cdestroy", "cdestroyed", "cpersist", "cerr", "cfail", "csuper"}
PCs       == {"idle", "busy", "release", "complete", "reconcile", "handback"}
               \cup DeployPCs \cup FailPCs \cup CompPCs

(* keeper: the goroutine that renews the worker's two leases.  "half" is    *)
(* the moment between the renewals; "lost" means it cancelled the context.  *)
WorkerState == [pc     : PCs,
                job    : Jobs \cup {NoJob},
                epoch  : Epoch,
                stage  : Stages \cup {"deploy_ready", "ready"},
                step   : CompSteps,
                mode   : {"deploy", "compensate"},
                keeper : {"off", "on", "half", "lost"},
                todo   : SUBSET Jobs]

Resting == [pc |-> "idle", job |-> NoJob, epoch |-> 0, stage |-> "fetching",
            step |-> "desire", mode |-> "deploy", keeper |-> "off", todo |-> {}]

Init ==
  /\ jobs = [j \in Jobs |-> [status |-> "absent", step |-> "deploy", lease |-> NoLease,
                             worker |-> NoWorker, epoch |-> 0]]
  /\ versions = [v \in Versions |->
                   [status |-> "pending", op |-> NoJob, opEpoch |-> 0, opLease |-> NoLease,
                    desire |-> "none", route |-> "none", branch |-> FALSE]]
  /\ prod = NoVersion
  /\ wk = [w \in Workers |-> Resting]
  /\ faults = 0 /\ stalls = 0

-----------------------------------------------------------------------------
(* What the transactions ask of the tables.                                 *)

(* jobHasActiveWorkerClaim *)
ActiveClaim(j) == jobs[j].status = "claimed" /\ jobs[j].lease > 0

(* The rows whose compensation is under way. *)
Compensating(j) == \/ jobs[j].status = "compensating"
                   \/ jobs[j].status = "claimed" /\ jobs[j].step \in CompSteps

OperationActive(v) == versions[v].op # NoJob /\ versions[v].opLease > 0

(* Mutant of Owns: the fence compares no epoch. *)
OwnsAnyEpoch(j, e) ==
  versions[VersionOf[j]].op = j /\ versions[VersionOf[j]].opLease # 0 /\ jobs[j].status # "absent"

(* deployOperationAssertInTx: the attempt (j, e) passes the fence of j's version. *)
Owns(j, e) ==
  LET v == VersionOf[j] IN
  /\ versions[v].op = j
  /\ versions[v].opEpoch = e
  /\ versions[v].opLease # 0
  /\ jobs[j].status # "absent"
  /\ jobs[j].epoch = e

(* ClaimVersionDeployOperation, for an attempt whose epoch is current: only  *)
(* a failed or completed holder is taken over, whatever its lease says.     *)
OperationClaimable(j) ==
  LET v == VersionOf[j] IN
  /\ jobs[j].status \in {"claimed", "compensating"}
  /\ \A o \in Jobs \ {j} : VersionOf[o] = v => ~Compensating(o)
  /\ \/ versions[v].op \in {NoJob, j}
     \/ jobs[versions[v].op].status \in {"failed", "completed"}

Running(w)  == wk[w].pc \notin {"idle", "reconcile"}
MyVersion(w) == VersionOf[wk[w].job]

(* The WHERE clause id, claimed_worker_id, claim_epoch, status = 'claimed'. *)
Mine(w) ==
  LET row == jobs[wk[w].job] IN
  row.status = "claimed" /\ row.worker = w /\ row.epoch = wk[w].epoch

Alive(w)  == wk[w].keeper # "lost"          \* the worker's context is not cancelled
\* Mutant of Fenced: a write that does not look at the operation.
Unfenced(w) == Alive(w)
Fenced(w) == Alive(w) /\ Owns(wk[w].job, wk[w].epoch)

Normalized(step) == IF step \in CompSteps THEN step ELSE "desire"

-----------------------------------------------------------------------------
(* Shapes of the updates. *)

SetWorker(w, row) == wk' = [wk EXCEPT ![w] = row]
Go(w, pc)    == SetWorker(w, [wk[w] EXCEPT !.pc = pc])
Rest(w)      == SetWorker(w, Resting)
\* Mutant of Fail: the worker takes a failed deploy for a successful one.
FailSwallowed(w) == SetWorker(w, [wk[w] EXCEPT !.pc = "release", !.keeper = "off"])
Fail(w)      == SetWorker(w, [wk[w] EXCEPT !.pc = "fail", !.keeper = "off"])  \* runDeploy returned
SetVersion(v, row) == versions' = [versions EXCEPT ![v] = row]
SetJob(j, row)     == jobs' = [jobs EXCEPT ![j] = row]
NoFault      == UNCHANGED <<faults, stalls>>
Fault        == faults < MaxFaults /\ faults' = faults + 1 /\ UNCHANGED stalls

Settle(j, status) ==
  SetJob(j, [jobs[j] EXCEPT !.status = status, !.lease = NoLease, !.worker = NoWorker])
ToCompensating(j) ==
  SetJob(j, [jobs[j] EXCEPT !.status = "compensating", !.lease = NoLease, !.worker = NoWorker,
                            !.step = Normalized(@)])

-----------------------------------------------------------------------------
(* The job queue. *)

EnqueueJob(j) ==
  /\ jobs[j].status = "absent"
  /\ SetJob(j, [jobs[j] EXCEPT !.status = "pending"])
  /\ UNCHANGED <<versions, prod, wk>> /\ NoFault

(* Mutant of Claim: the row's epoch is not advanced. *)
ClaimSameEpoch(w, j, mode) ==
  /\ SetJob(j, [jobs[j] EXCEPT !.status = "claimed", !.lease = LeaseTicks, !.worker = w,
                               !.step = IF mode = "compensate" THEN Normalized(@) ELSE @])
  /\ SetWorker(w, [Resting EXCEPT !.pc = "claimop", !.job = j, !.mode = mode,
                                  !.epoch = jobs[j].epoch,
                                  !.step = Normalized(jobs[j].step)])
  /\ UNCHANGED <<versions, prod>> /\ NoFault

Claim(w, j, mode) ==
  /\ jobs[j].epoch < MaxEpoch
  /\ SetJob(j, [jobs[j] EXCEPT !.status = "claimed", !.lease = LeaseTicks, !.worker = w,
                               !.epoch = @ + 1,
                               !.step = IF mode = "compensate" THEN Normalized(@) ELSE @])
  /\ SetWorker(w, [Resting EXCEPT !.pc = "claimop", !.job = j, !.mode = mode,
                                  !.epoch = jobs[j].epoch + 1,
                                  !.step = Normalized(jobs[j].step)])
  /\ UNCHANGED <<versions, prod>> /\ NoFault

(* Mutant of JobClaimable: a job under compensation is claimed as a deploy. *)
JobClaimableAnyStep(j) ==
  jobs[j].status = "pending" \/ (jobs[j].status = "claimed" /\ jobs[j].lease <= 0)

(* A pending job, or a deploy whose worker let its lease run out.  The      *)
(* oldest such row wins in the code; here any of them may.                  *)
JobClaimable(j) ==
  \/ jobs[j].status = "pending"
  \/ /\ jobs[j].status = "claimed" /\ jobs[j].step \notin CompSteps
     /\ jobs[j].lease <= 0

ClaimJob(w, j) ==
  /\ wk[w].pc = "idle"
  /\ JobClaimable(j)
  /\ Claim(w, j, "deploy")

(* Mutant of CompensationClaimable: a dead worker's compensation is left alone. *)
CompensationClaimableReleased(j) == jobs[j].status = "compensating"

(* tryClaimCompensatingJobCandidate: a compensating job, or one whose worker *)
(* died while compensating, once neither of its leases is active.           *)
CompensationClaimable(j) ==
  \/ jobs[j].status = "compensating"
  \/ /\ jobs[j].status = "claimed" /\ jobs[j].step \in CompSteps
     /\ jobs[j].lease = 0
     /\ ~(versions[VersionOf[j]].op = j /\ OperationActive(VersionOf[j]))

ClaimCompensatingJob(w, j) ==
  /\ wk[w].pc = "idle"
  /\ CompensationClaimable(j)
  /\ Claim(w, j, "compensate")

(* ClaimVersionDeployOperation.  Refused, a deploy puts its job back or, when *)
(* its epoch is no longer current, fails; a compensation hands its job back. *)
ClaimOperation(w) ==
  LET j == wk[w].job
      v == MyVersion(w) IN
  /\ wk[w].pc = "claimop"
  /\ IF jobs[j].epoch = wk[w].epoch /\ OperationClaimable(j)
     THEN /\ SetVersion(v, [versions[v] EXCEPT !.op = j, !.opEpoch = wk[w].epoch,
                                              !.opLease = LeaseTicks])
          /\ SetWorker(w, [wk[w] EXCEPT
               !.keeper = "on", !.pc = IF wk[w].mode = "deploy" THEN "status" ELSE "ccheck"])
     ELSE /\ Go(w, IF wk[w].mode = "compensate" THEN "handback"
                   ELSE IF jobs[j].epoch # wk[w].epoch THEN "fail" ELSE "busy")
          /\ UNCHANGED versions
  /\ UNCHANGED <<jobs, prod>> /\ NoFault

(* ErrDeployVersionBusy: ReleaseClaimedJobToPending. *)
RequeueBusy(w) ==
  LET j == wk[w].job IN
  /\ wk[w].pc = "busy"
  /\ IF Mine(w) THEN Settle(j, "pending") ELSE UNCHANGED jobs
  /\ Rest(w)
  /\ UNCHANGED <<versions, prod>> /\ NoFault

-----------------------------------------------------------------------------
(* The lease keeper of a worker: job lease first, then operation lease; the  *)
(* first renewal that is refused cancels the worker's context.              *)

RenewJobLease(w) ==
  LET j == wk[w].job IN
  /\ wk[w].keeper = "on"
  /\ IF Mine(w) /\ jobs[j].lease > 0
     THEN /\ SetJob(j, [jobs[j] EXCEPT !.lease = LeaseTicks])
          /\ SetWorker(w, [wk[w] EXCEPT !.keeper = "half"])
     ELSE /\ SetWorker(w, [wk[w] EXCEPT !.keeper = "lost"]) /\ UNCHANGED jobs
  /\ UNCHANGED <<versions, prod>> /\ NoFault

(* Renewing between the release of the operation and FailJobForAttempt       *)
(* cancels a compensation that was about to end: counted as a fault, for    *)
(* the 30 s timer has to hit the gap between two consecutive calls.         *)
RenewOperation(w) ==
  LET j == wk[w].job
      v == MyVersion(w) IN
  /\ wk[w].keeper = "half"
  /\ IF Owns(j, wk[w].epoch)
     THEN /\ SetVersion(v, [versions[v] EXCEPT !.opLease = LeaseTicks])
          /\ SetWorker(w, [wk[w] EXCEPT !.keeper = "on"])
     ELSE /\ SetWorker(w, [wk[w] EXCEPT !.keeper = "lost"]) /\ UNCHANGED versions
  /\ IF wk[w].pc = "cfail" THEN Fault ELSE NoFault
  /\ UNCHANGED <<jobs, prod>>

-----------------------------------------------------------------------------
(* runDeploy. *)

(* Any step may fail: reading the version, fetch, fork, runtime deploy, a    *)
(* qualification that times out, an assertion that finds the operation      *)
(* gone, a cancelled context.                                               *)
StepFails(w) ==
  /\ wk[w].pc \in DeployPCs
  /\ wk[w].pc = "claimop" => wk[w].mode = "deploy"
  /\ wk[w].pc = "bootstrap" => MyVersion(w) \in Elastic
  /\ Fail(w)
  /\ UNCHANGED <<jobs, versions, prod>> /\ NoFault

(* setStatusForDeploy is two transactions: the fenced status ... *)
WriteStatus(w) ==
  LET v == MyVersion(w) IN
  /\ wk[w].pc = "status" /\ Fenced(w)
  /\ SetVersion(v, [versions[v] EXCEPT !.status = wk[w].stage])
  /\ Go(w, "step")
  /\ UNCHANGED <<jobs, prod>> /\ NoFault

(* ... and the job's step, by job id alone (UpdateJobStep). *)
WriteStep(w) ==
  LET j == wk[w].job IN
  /\ wk[w].pc = "step" /\ Alive(w)
  /\ SetJob(j, [jobs[j] EXCEPT !.step = "deploy"])
  /\ Go(w, CASE wk[w].stage = "deploy_ready" -> "qualify"
              [] wk[w].stage = "ready"        -> "tail"
              [] OTHER                        -> "work")
  /\ UNCHANGED <<versions, prod>> /\ NoFault

(* The work of a stage is done; after "deploying" the operation is asserted  *)
(* and the version goes to qualification or straight to its route.          *)
EndStage(w) ==
  /\ wk[w].pc = "work" /\ Alive(w) /\ wk[w].stage # "branching"
  /\ IF wk[w].stage # "deploying"
     THEN SetWorker(w, [wk[w] EXCEPT !.pc = "status", !.stage = NextStage[@]])
     ELSE /\ Fenced(w)
          /\ IF MyVersion(w) \in Elastic
             THEN SetWorker(w, [wk[w] EXCEPT !.pc = "status", !.stage = "deploy_ready"])
             ELSE Go(w, "route")
  /\ UNCHANGED <<jobs, versions, prod>> /\ NoFault

(* branchStep: assert, run the offshoot command, assert.  A command that     *)
(* fails is only a warning unless the deploy is to fail closed.             *)
AssertBeforeFork(w) ==
  /\ wk[w].pc = "work" /\ wk[w].stage = "branching" /\ Fenced(w)
  /\ Go(w, "fork")
  /\ UNCHANGED <<jobs, versions, prod>> /\ NoFault

Fork(w) ==
  LET v == MyVersion(w) IN
  /\ wk[w].pc = "fork" /\ Alive(w)
  /\ \/ /\ SetVersion(v, [versions[v] EXCEPT !.branch = TRUE])
        /\ Go(w, "forked")
     \/ /\ SetWorker(w, [wk[w] EXCEPT !.pc = "status", !.stage = "preparing"])
        /\ UNCHANGED versions
  /\ UNCHANGED <<jobs, prod>> /\ NoFault

AssertAfterFork(w) ==
  /\ wk[w].pc = "forked" /\ Fenced(w)
  /\ SetWorker(w, [wk[w] EXCEPT !.pc = "status", !.stage = "preparing"])
  /\ UNCHANGED <<jobs, versions, prod>> /\ NoFault

(* ensureDeployQualificationDesire: the CAS loop ends with the desire owned  *)
(* by this job.  A version that branches bindings runs it while deploying.  *)
Qualify(w) ==
  LET v == MyVersion(w) IN
  /\ \/ wk[w].pc = "qualify"
     \/ wk[w].pc = "work" /\ wk[w].stage = "deploying" /\ v \in Elastic
  /\ Fenced(w)
  /\ SetVersion(v, [versions[v] EXCEPT !.desire = wk[w].job])
  /\ IF wk[w].pc = "qualify" THEN Go(w, "route") ELSE UNCHANGED wk
  /\ UNCHANGED <<jobs, prod>> /\ NoFault

SetRoute(w) ==
  LET v == MyVersion(w) IN
  /\ wk[w].pc = "route" /\ Fenced(w)
  /\ SetVersion(v, [versions[v] EXCEPT !.route = "active"])
  /\ SetWorker(w, [wk[w] EXCEPT !.pc = "status", !.stage = "ready"])
  /\ UNCHANGED <<jobs, prod>> /\ NoFault

(* finalizeQualificationIdleDesire, when the policy lets the version idle.   *)
FinalizeIdle(w) ==
  LET v == MyVersion(w) IN
  /\ wk[w].pc = "tail"
  /\ \/ UNCHANGED versions /\ (v \in Elastic => Alive(w))
     \/ /\ v \in Elastic /\ Fenced(w) /\ versions[v].desire = wk[w].job
        /\ SetVersion(v, [versions[v] EXCEPT !.desire = "idle"])
  /\ Go(w, "bootstrap")
  /\ UNCHANGED <<jobs, prod>> /\ NoFault

(* SetProdVersionCAS(project, "", v); its error is dropped. *)
BootstrapProd(w) ==
  /\ wk[w].pc = "bootstrap"
  /\ prod' = IF prod = NoVersion /\ Alive(w) THEN MyVersion(w) ELSE prod
  /\ Go(w, "cron")
  /\ UNCHANGED <<jobs, versions>> /\ NoFault

(* ensureCronResidentDesire: unfenced, at the end of qualification and of    *)
(* every deploy; it raises a desire that wants no replica.                  *)
CronResidentDesire(w) ==
  LET v == MyVersion(w) IN
  /\ Alive(w)
  /\ wk[w].pc = "cron" \/ (wk[w].pc = "bootstrap" /\ v \in Elastic)
  /\ versions[v].desire \in {"none", "deploy_failed", "idle"}
  /\ SetVersion(v, [versions[v] EXCEPT !.desire = "third_party"])
  /\ UNCHANGED <<jobs, prod, wk>> /\ NoFault

(* runDeploy returns nil and stops the lease keeper. *)
DeployDone(w) ==
  /\ wk[w].pc = "cron"
  /\ SetWorker(w, [wk[w] EXCEPT !.pc = "release", !.keeper = "off"])
  /\ UNCHANGED <<jobs, versions, prod>> /\ NoFault

(* ReleaseVersionDeployOperation: by job and epoch. *)
Released(v, j, e) ==
  IF versions[v].op = j /\ versions[v].opEpoch = e
  THEN SetVersion(v, [versions[v] EXCEPT !.op = NoJob, !.opEpoch = 0, !.opLease = NoLease])
  ELSE UNCHANGED versions

ReleaseOperation(w) ==
  /\ wk[w].pc = "release"
  /\ Released(MyVersion(w), wk[w].job, wk[w].epoch)
  /\ Go(w, "complete")
  /\ UNCHANGED <<jobs, prod>> /\ NoFault

(* CompleteJob: by job id alone. *)
CompleteJob(w) ==
  LET j == wk[w].job IN
  /\ wk[w].pc = "complete"
  /\ SetJob(j, [jobs[j] EXCEPT !.status = "completed", !.lease = NoLease])
  /\ Rest(w)
  /\ UNCHANGED <<versions, prod>> /\ NoFault

-----------------------------------------------------------------------------
(* A failed deploy (deploy_process_failure.go). *)

FinalizeFailure(w) ==
  /\ wk[w].pc = "fail"
  /\ IF Owns(wk[w].job, wk[w].epoch)
     THEN SetWorker(w, [wk[w] EXCEPT !.pc = "markfailed", !.keeper = "on"])
     ELSE Go(w, "aborting")
  /\ UNCHANGED <<jobs, versions, prod>> /\ NoFault

(* UpdateVersionStatusForDeployOperation(failed); a refusal is only logged.  *)
MarkVersionFailed(w) ==
  LET v == MyVersion(w) IN
  /\ wk[w].pc \in {"markfailed", "handoff"}
  /\ IF Fenced(w) THEN SetVersion(v, [versions[v] EXCEPT !.status = "failed"])
                  ELSE UNCHANGED versions
  /\ Go(w, IF wk[w].pc = "markfailed" THEN "failcheck" ELSE "handback")
  /\ UNCHANGED <<jobs, prod>> /\ NoFault

AssertAfterFailed(w) ==
  /\ wk[w].pc = "failcheck"
  /\ Go(w, IF Fenced(w) THEN "cstart" ELSE "aborting")
  /\ UNCHANGED <<jobs, versions, prod>> /\ NoFault

(* UpdateJobStepForAttempt: only the exact claim, with its lease running.    *)
StepWritable(w) == Alive(w) /\ Mine(w) /\ jobs[wk[w].job].lease > 0
PersistStep(w, step) ==
  IF StepWritable(w) THEN SetJob(wk[w].job, [jobs[wk[w].job] EXCEPT !.step = step])
                     ELSE UNCHANGED jobs

(* Mutant of StartCompensation: it begins with the data branch. *)
StartAtBranch(w) ==
  /\ wk[w].pc = "cstart"
  /\ PersistStep(w, "branch")
  /\ SetWorker(w, [wk[w] EXCEPT !.pc = "ccheck", !.step = "branch"])
  /\ UNCHANGED <<versions, prod>> /\ NoFault

(* compensateDeploy drops the result of its first persist. *)
StartCompensation(w) ==
  /\ wk[w].pc = "cstart"
  /\ PersistStep(w, "desire")
  /\ SetWorker(w, [wk[w] EXCEPT !.pc = "ccheck", !.step = "desire"])
  /\ UNCHANGED <<versions, prod>> /\ NoFault

(* Mutant of NeedsCompensation: only a qualification desire needs compensation. *)
NeedsRollback(j) ==
  versions[VersionOf[j]].status = "failed" /\ versions[VersionOf[j]].desire = j

(* deployFailureNeedsCompensation; what it cannot read needs compensation.   *)
NeedsCompensation(j) ==
  LET row == versions[VersionOf[j]] IN
  (row.status = "failed" /\ row.desire = j) \/ row.op = j

AbortWithoutOperation(w) ==
  /\ wk[w].pc = "aborting"
  /\ Go(w, IF ~Alive(w) \/ NeedsCompensation(wk[w].job) THEN "handoff" ELSE "failnow")
  /\ UNCHANGED <<jobs, versions, prod>> /\ NoFault

(* FailJobForAttempt *)
Failable(w) ==
  LET row == jobs[wk[w].job] IN
  Alive(w) /\ row.epoch = wk[w].epoch /\ row.status \in {"claimed", "compensating"}

(* Nothing to compensate: fail the job, or requeue it if that write errors.  *)
FailNow(w) ==
  LET j == wk[w].job IN
  /\ wk[w].pc = "failnow"
  /\ \/ /\ IF Failable(w) THEN Settle(j, "failed") ELSE UNCHANGED jobs
        /\ NoFault
     \/ Mine(w) /\ Settle(j, "pending") /\ Fault
  /\ Rest(w)
  /\ UNCHANGED <<versions, prod>>

(* MarkJobCompensatingForAttempt.  A failed deploy uses its keeper's context, *)
(* processCompensationOne the worker's own.                                 *)
HandBack(w) ==
  LET j == wk[w].job IN
  /\ wk[w].pc = "handback"
  /\ IF Mine(w) /\ (Alive(w) \/ wk[w].mode = "compensate")
     THEN ToCompensating(j) ELSE UNCHANGED jobs
  /\ Rest(w)
  /\ UNCHANGED <<versions, prod>> /\ NoFault

-----------------------------------------------------------------------------
(* The compensation state machine (elastic_deploy_compensation.go).         *)

(* compensationResourceSuperseded: another job's operation, still leased or  *)
(* held by a live claim.                                                    *)
Superseded(j) ==
  LET v == VersionOf[j]
      h == versions[v].op IN
  h \notin {NoJob, j} /\ (OperationActive(v) \/ ActiveClaim(h))

CheckOwnership(w) ==
  LET j == wk[w].job IN
  /\ wk[w].pc = "ccheck"
  /\ Go(w, IF ~Alive(w)                  THEN "cerr"
           ELSE IF Superseded(j)         THEN "csuper"
           ELSE IF Owns(j, wk[w].epoch)  THEN "cact"
           ELSE "cerr")
  /\ UNCHANGED <<jobs, versions, prod>> /\ NoFault

Undo(w, row, next) ==
  /\ SetVersion(MyVersion(w), row)
  /\ SetWorker(w, [wk[w] EXCEPT !.pc = "cpersist", !.step = next])

(* One step under the operation's fence.  The data branch is destroyed       *)
(* outside it, between two assertions.                                      *)
CompensateStep(w) ==
  LET j   == wk[w].job
      v   == MyVersion(w)
      row == versions[v] IN
  /\ wk[w].pc = "cact" /\ Fenced(w)
  /\ \/ wk[w].step = "desire" /\
        Undo(w, [row EXCEPT !.desire = IF v \in Elastic /\ @ = j THEN "deploy_failed" ELSE @],
             "route")
     \/ wk[w].step = "route" /\
        Undo(w, [row EXCEPT !.route = IF @ = "active" THEN "inactive" ELSE @], "branch")
     \/ wk[w].step = "branch" /\ Go(w, "cdestroy") /\ UNCHANGED versions
     \/ wk[w].step = "release" /\ Released(v, j, wk[w].epoch) /\ Go(w, "cfail")
  /\ UNCHANGED <<jobs, prod>> /\ NoFault

DestroyBranch(w) ==
  LET v == MyVersion(w) IN
  /\ wk[w].pc = "cdestroy" /\ Alive(w)
  /\ SetVersion(v, [versions[v] EXCEPT !.branch = FALSE])
  /\ Go(w, "cdestroyed")
  /\ UNCHANGED <<jobs, prod>> /\ NoFault

(* Mutant of DestroyFails: the error is only logged. *)
DestroyIgnored(w) ==
  /\ wk[w].pc = "cdestroy" /\ Alive(w)
  /\ Go(w, "cdestroyed")
  /\ UNCHANGED <<jobs, versions, prod>> /\ Fault

DestroyFails(w) ==
  /\ wk[w].pc = "cdestroy" /\ Alive(w)
  /\ Go(w, "cerr")
  /\ UNCHANGED <<jobs, versions, prod>> /\ Fault

AssertAfterDestroy(w) ==
  /\ wk[w].pc = "cdestroyed" /\ Fenced(w)
  /\ SetWorker(w, [wk[w] EXCEPT !.pc = "cpersist", !.step = "release"])
  /\ UNCHANGED <<jobs, versions, prod>> /\ NoFault

(* Not the owner any more, or the context is gone: ErrDeployCompensationIncomplete. *)
StepIncomplete(w) ==
  /\ wk[w].pc \in {"cact", "cdestroy", "cdestroyed"}
  /\ IF wk[w].pc = "cdestroy" THEN ~Alive(w) ELSE ~Fenced(w)
  /\ Go(w, "cerr")
  /\ UNCHANGED <<jobs, versions, prod>> /\ NoFault

PersistNext(w) ==
  /\ wk[w].pc = "cpersist"
  /\ PersistStep(w, wk[w].step)
  /\ Go(w, IF StepWritable(w) THEN "ccheck" ELSE "handback")
  /\ UNCHANGED <<versions, prod>> /\ NoFault

(* Incomplete: remember the step, whatever that returns, and hand back. *)
PersistAndHandBack(w) ==
  /\ wk[w].pc = "cerr"
  /\ PersistStep(w, wk[w].step)
  /\ Go(w, "handback")
  /\ UNCHANGED <<versions, prod>> /\ NoFault

FailCompensated(w) ==
  /\ wk[w].pc = "cfail"
  /\ IF Failable(w) THEN Settle(wk[w].job, "failed") /\ Rest(w)
                    ELSE Go(w, "cerr") /\ UNCHANGED jobs
  /\ UNCHANGED <<versions, prod>> /\ NoFault

FailSuperseded(w) ==
  /\ wk[w].pc = "csuper"
  /\ IF Failable(w) THEN Settle(wk[w].job, "failed") ELSE UNCHANGED jobs
  /\ Rest(w)
  /\ UNCHANGED <<versions, prod>> /\ NoFault

-----------------------------------------------------------------------------
(* reconcileDiscoveredDeployCompensation: a worker that finds no job to       *)
(* compensate lists the qualification desires left behind, then visits them. *)

LeftBehind(j) ==
  LET row == versions[VersionOf[j]] IN
  /\ row.desire = j
  /\ Compensating(j) \/ (row.status = "failed" /\ jobs[j].status # "absent")
  /\ ~ActiveClaim(j)

Discover(w) ==
  /\ wk[w].pc = "idle"
  /\ \A j \in Jobs : ~CompensationClaimable(j)
  /\ \E j \in Jobs : LeftBehind(j)
  /\ SetWorker(w, [wk[w] EXCEPT !.pc = "reconcile", !.todo = {j \in Jobs : LeftBehind(j)}])
  /\ UNCHANGED <<jobs, versions, prod>> /\ NoFault

(* RepairClaimedJobLeaseInvariantForCompensation, then                       *)
(* PrepareDiscoveredCompensationJob: both check the row again.              *)
Recoverable(j) ==
  \/ jobs[j].status \in {"failed", "compensating"}
  \/ /\ jobs[j].status = "claimed" /\ jobs[j].step \in CompSteps
     /\ jobs[j].lease <= 0
     /\ ~(versions[VersionOf[j]].op = j /\ OperationActive(VersionOf[j]))

Reconcile(w) ==
  /\ wk[w].pc = "reconcile"
  /\ \E j \in wk[w].todo :
       /\ IF Recoverable(j) THEN ToCompensating(j) ELSE UNCHANGED jobs
       /\ SetWorker(w, [wk[w] EXCEPT !.todo = @ \ {j},
                                     !.pc = IF wk[w].todo = {j} THEN "idle" ELSE @])
  /\ UNCHANGED <<versions, prod>> /\ NoFault

-----------------------------------------------------------------------------
(* The environment. *)

Crash(w) ==
  /\ wk[w].pc # "idle"
  /\ Rest(w)
  /\ UNCHANGED <<jobs, versions, prod>> /\ Fault

(* An activation, or any other writer, raises the desire of a version that serves. *)
ThirdPartyDesire(v) ==
  /\ versions[v].status = "ready" /\ v \in Elastic
  /\ SetVersion(v, [versions[v] EXCEPT !.desire = "third_party"])
  /\ UNCHANGED <<jobs, prod, wk>> /\ NoFault

Passed(lease) == IF lease > 0 THEN lease - 1 ELSE lease

(* A tick that takes a lease away from a worker that still runs is a stall.  *)
LosesLease(w) ==
  /\ Running(w)
  /\ \/ Mine(w) /\ jobs[wk[w].job].lease = 1
     \/ Owns(wk[w].job, wk[w].epoch) /\ versions[MyVersion(w)].opLease = 1

Tick ==
  /\ \/ \E j \in Jobs : jobs[j].lease > 0
     \/ \E v \in Versions : versions[v].opLease > 0
  /\ IF \E w \in Workers : LosesLease(w)
     THEN stalls < MaxStalls /\ stalls' = stalls + 1
     ELSE UNCHANGED stalls
  /\ jobs' = [j \in Jobs |-> [jobs[j] EXCEPT !.lease = Passed(@)]]
  /\ versions' = [v \in Versions |-> [versions[v] EXCEPT !.opLease = Passed(@)]]
  /\ UNCHANGED <<prod, wk, faults>>

-----------------------------------------------------------------------------
Deploying(w) ==
  \/ ClaimOperation(w) \/ RequeueBusy(w) \/ StepFails(w)
  \/ WriteStatus(w) \/ WriteStep(w) \/ EndStage(w)
  \/ AssertBeforeFork(w) \/ Fork(w) \/ AssertAfterFork(w)
  \/ Qualify(w) \/ SetRoute(w) \/ FinalizeIdle(w) \/ BootstrapProd(w)
  \/ CronResidentDesire(w) \/ DeployDone(w)
  \/ ReleaseOperation(w) \/ CompleteJob(w)

Failing(w) ==
  \/ FinalizeFailure(w) \/ MarkVersionFailed(w) \/ AssertAfterFailed(w)
  \/ StartCompensation(w) \/ AbortWithoutOperation(w) \/ FailNow(w) \/ HandBack(w)

Undoing(w) ==
  \/ CheckOwnership(w) \/ CompensateStep(w) \/ DestroyBranch(w) \/ DestroyFails(w)
  \/ AssertAfterDestroy(w) \/ StepIncomplete(w) \/ PersistNext(w)
  \/ PersistAndHandBack(w) \/ FailCompensated(w) \/ FailSuperseded(w)

Claiming(w) == \E j \in Jobs : ClaimJob(w, j) \/ ClaimCompensatingJob(w, j)

Discovering(w) == Discover(w) \/ Reconcile(w)

Keeping(w) == RenewJobLease(w) \/ RenewOperation(w)

Next ==
  \/ \E w \in Workers : Claiming(w) \/ Discovering(w) \/ Deploying(w) \/ Failing(w)
                          \/ Undoing(w) \/ Keeping(w) \/ Crash(w)
  \/ \E j \in Jobs : EnqueueJob(j)
  \/ \E v \in Versions : ThirdPartyDesire(v)
  \/ Tick

Spec == Init /\ [][Next]_vars

(* A worker that is not crashed goes on with its job, and time passes.  Its  *)
(* loop asks for a job and then for a compensation in every round: a claim  *)
(* that is possible in infinitely many rounds is made (strong fairness).    *)
Fairness ==
  /\ \A w \in Workers :
       /\ WF_vars(Deploying(w)) /\ WF_vars(Failing(w)) /\ WF_vars(Undoing(w))
       /\ WF_vars(Discovering(w))
       /\ SF_vars(\E j \in Jobs : ClaimJob(w, j))
       /\ SF_vars(\E j \in Jobs : ClaimCompensatingJob(w, j))
  /\ WF_vars(Tick)

FairSpec == Spec /\ Fairness

-----------------------------------------------------------------------------
TypeOK ==
  /\ jobs \in [Jobs -> JobRow]
  /\ versions \in [Versions -> VersionRow]
  /\ prod \in Versions \cup {NoVersion}
  /\ wk \in [Workers -> WorkerState]
  /\ faults \in 0 .. MaxFaults /\ stalls \in 0 .. MaxStalls

(* The deploy operation is a lock: of the workers that deploy or compensate  *)
(* the same version, at most one passes the fence of its writes, however    *)
(* many claims, expired leases and stale workers there are.                 *)
FenceExclusive ==
  \A w1, w2 \in Workers :
    /\ w1 # w2 /\ Running(w1) /\ Running(w2)
    /\ MyVersion(w1) = MyVersion(w2)
    => ~(Owns(wk[w1].job, wk[w1].epoch) /\ Owns(wk[w2].job, wk[w2].epoch))

(* Every attempt is one worker's: a running worker works for a claim that was *)
(* made, and no other worker runs under the same job and epoch.             *)
AttemptsDistinct ==
  /\ \A w \in Workers : Running(w) => /\ wk[w].job \in Jobs
                                      /\ wk[w].epoch \in 1 .. jobs[wk[w].job].epoch
  /\ \A w1, w2 \in Workers :
       w1 # w2 /\ Running(w1) /\ Running(w2) /\ wk[w1].job = wk[w2].job
         => wk[w1].epoch # wk[w2].epoch

(* ErrJobClaimedLeaseInvariant never has a cause in the store: a claimed row *)
(* names its worker and has a deadline, every other row has no deadline.    *)
ClaimedLease ==
  \A j \in Jobs :
    IF jobs[j].status = "claimed"
    THEN jobs[j].worker # NoWorker /\ jobs[j].lease # NoLease
    ELSE jobs[j].lease = NoLease

(* The operation of a version belongs to a claim its holder really made.     *)
OperationFromClaim ==
  \A v \in Versions :
    LET row == versions[v] IN
    row.op # NoJob => /\ VersionOf[row.op] = v
                      /\ row.opEpoch \in 1 .. jobs[row.op].epoch
                      /\ row.opLease # NoLease

(* The rows and who works on them fit together.                              *)
ClaimsSound == TypeOK /\ ClaimedLease /\ OperationFromClaim /\ AttemptsDistinct

(* A job ends as failed only once it has let go of its version's operation,  *)
(* however it failed: as a failed deploy, as a compensation that is done or *)
(* superseded, or by an attempt that lost its leases.                       *)
FailedHoldsNothing ==
  \A j \in Jobs : jobs[j].status = "failed" => versions[VersionOf[j]].op # j

OneJob(v) == \A i, j \in Jobs : VersionOf[i] = v /\ VersionOf[j] = v => i = j

(* When every deploy of a failed version has failed, what they did to the    *)
(* version is undone: no route is active and no qualification desire        *)
(* remains.  The API enqueues one job per version; had it two, the desire of *)
(* the one could outlast the failure of the other, until Discover finds it.  *)
FailedDeployUndone ==
  \A v \in Versions :
    /\ versions[v].status = "failed"
    /\ \A j \in Jobs : VersionOf[j] = v => jobs[j].status = "failed"
    => /\ versions[v].route # "active"
       /\ OneJob(v) => versions[v].desire \notin Jobs

Settled(j) == jobs[j].status \in {"absent", "completed", "failed"}

(* As long as every worker either keeps its leases or dies, a failed version *)
(* whose jobs have settled has no data branch left: destroying and forking  *)
(* it are not fenced.                                                       *)
FailedVersionHasNoBranch ==
  \A v \in Versions :
    /\ versions[v].status = "failed"
    /\ \A j \in Jobs : VersionOf[j] = v => Settled(j)
    => ~versions[v].branch

(* Likewise, a job is completed only when its version serves. *)
CompletedServes ==
  \A j \in Jobs : jobs[j].status = "completed" =>
    versions[VersionOf[j]].status = "ready" /\ versions[VersionOf[j]].route = "active"

(* The step of a job that is being compensated is written by the one worker  *)
(* that holds its claim, with its lease running, and as a compensation step. *)
CompensationStepFenced ==
  [][\A j \in Jobs :
       Compensating(j) /\ jobs'[j].step # jobs[j].step =>
         \E w \in Workers : /\ wk[w].pc \in CompPCs \cup {"cstart"}
                            /\ wk[w].job = j /\ StepWritable(w)]_vars

(* Every job that is enqueued ends, completed or failed. *)
EventuallySettled == \A j \in Jobs : <>[](jobs[j].status # "absent" => Settled(j))

-----------------------------------------------------------------------------
(* What the deploy operation promises: AttemptLock.  The attempts of a job   *)
(* are numbered by its claim epochs; the last one that counts is the current *)
(* epoch, unless its worker has still to ask for the operation.             *)
OwnerOf(v) ==
  IF versions[v].op # NoJob /\ Owns(versions[v].op, versions[v].opEpoch)
  THEN <<versions[v].op, versions[v].opEpoch>>
  ELSE <<NoJob, 0>>

LastAttempt(j) ==
  IF \E w \in Workers : wk[w].pc = "claimop" /\ wk[w].job = j /\ wk[w].epoch = jobs[j].epoch
  THEN jobs[j].epoch - 1
  ELSE jobs[j].epoch

Lock == INSTANCE AttemptLock WITH
  owner <- [v \in Versions |-> OwnerOf(v)],
  last  <- [j \in Jobs |-> LastAttempt(j)],
  doc   <- [v \in Versions |-> <<versions[v].status, versions[v].route>>]

(* The pipeline implements the lock: an attempt owns a version at most once, *)
(* and only the attempt that owns a version changes its status or route.    *)
ImplementsLock == Lock!Spec

=============================================================================
