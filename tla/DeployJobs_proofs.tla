------------------------- MODULE DeployJobs_proofs -------------------------
(***************************************************************************)
(* Safety of the deploy pipeline for every number of jobs, versions and     *)
(* workers.  Almost every action of DeployJobs is a small step: it replaces  *)
(* at most one row of each table by a good one and keeps the attempts of    *)
(* the workers.  Only a claim (a new attempt) and a tick are not.           *)
(* Below, the pipeline is shown to implement AttemptLock, and then, with a  *)
(* second invariant, to leave nothing of a deploy that has failed, and, with *)
(* a third, what holds besides where no running worker loses a lease.       *)
(***************************************************************************)
EXTENDS DeployJobs, TLAPS

(* The rows of the queue that ClaimedLease allows. *)
GoodJob ==
  {row \in JobRow : IF row.status = "claimed"
                    THEN row.worker # NoWorker /\ row.lease # NoLease
                    ELSE row.lease = NoLease}

(* What OperationFromClaim says of the row of one version. *)
GoodOp(v, row) ==
  row.op # NoJob => /\ VersionOf[row.op] = v
                    /\ row.opEpoch \in 1 .. jobs[row.op].epoch
                    /\ row.opLease # NoLease

(* A job that is not enqueued has never been claimed. *)
AbsentUnclaimed == \A j \in Jobs : jobs[j].status = "absent" => jobs[j].epoch = 0

GoodWorker(row) ==
  /\ row.pc = "work" => row.stage \in Stages
  /\ row.pc \in {"idle", "reconcile"} => row.keeper = "off"

(* The inductive invariant.  AttemptsDistinct is what carries the fence;     *)
(* GoodWorker is there for the shape of a worker's steps.                   *)
Inv ==
  /\ TypeOK
  /\ ClaimedLease
  /\ OperationFromClaim
  /\ AttemptsDistinct
  /\ AbsentUnclaimed
  /\ \A w \in Workers : GoodWorker(wk[w])

SameJob(j, row) ==
  row.epoch = jobs[j].epoch /\ (row.status = "absent" => jobs[j].status = "absent")

JobsStep ==
  \/ jobs' = jobs
  \/ \E j \in Jobs, row \in GoodJob : SetJob(j, row) /\ SameJob(j, row)

SameOp(v, row) ==
  /\ row.op = versions[v].op /\ row.opEpoch = versions[v].opEpoch
  /\ (row.opLease = 0 <=> versions[v].opLease = 0)

SameDoc(v, row) == row.status = versions[v].status /\ row.route = versions[v].route

(* Nobody but w moves, and w has an operation or is about to get one. *)
OnlyMoves(w) == jobs' = jobs /\ \A u \in Workers \ {w} : wk'[u] = wk[u]

(* The status and the route of a version are written under the fence. *)
Written(v, row) ==
  /\ SameOp(v, row)
  /\ \E w \in Workers : /\ Running(w) /\ wk[w].pc # "claimop" /\ v = MyVersion(w)
                        /\ Owns(wk[w].job, wk[w].epoch) /\ OnlyMoves(w)

(* The operation is taken by a worker whose claim is the job's last. *)
Granted(v, row) ==
  /\ SameDoc(v, row)
  /\ \E w \in Workers :
       /\ wk[w].pc = "claimop" /\ wk'[w].pc # "claimop" /\ v = MyVersion(w)
       /\ jobs[wk[w].job].epoch = wk[w].epoch /\ jobs[wk[w].job].status # "absent"
       /\ row.op = wk[w].job /\ row.opEpoch = wk[w].epoch /\ row.opLease # 0
       /\ OnlyMoves(w)

Harmless(v, row) == SameDoc(v, row) /\ (SameOp(v, row) \/ row.op = NoJob)

VersionsStep ==
  \/ versions' = versions
  \/ \E v \in Versions, row \in VersionRow :
       /\ SetVersion(v, row) /\ GoodOp(v, row)
       /\ Harmless(v, row) \/ Written(v, row) \/ Granted(v, row)

(* Only a claim brings a worker to "claimop". *)
Keeps(w, row) ==
  \/ row.pc \in {"idle", "reconcile"}
  \/ /\ Running(w) /\ row.job = wk[w].job /\ row.epoch = wk[w].epoch
     /\ row.pc = "claimop" => wk[w].pc = "claimop"

WorkersStep ==
  \/ wk' = wk
  \/ \E w \in Workers, row \in WorkerState : SetWorker(w, row) /\ Keeps(w, row) /\ GoodWorker(row)

CountersStep ==
  /\ prod' \in Versions \cup {NoVersion}
  /\ faults' \in 0 .. MaxFaults
  /\ stalls' \in 0 .. MaxStalls

SmallStep == JobsStep /\ VersionsStep /\ WorkersStep /\ CountersStep

(* A small step preserves the invariant, whatever action it is. *)
LEMMA SmallStepKeepsInv ==
  ASSUME Inv, SmallStep
  PROVE  Inv'
<1>1. jobs' \in [Jobs -> JobRow] /\ ClaimedLease'
  BY DEF Inv, TypeOK, ClaimedLease, SmallStep, JobsStep, SetJob, GoodJob
<1>2. \A j \in Jobs : jobs'[j].epoch \in Nat /\ jobs[j].epoch \in Nat /\ jobs'[j].epoch >= jobs[j].epoch
  BY <1>1, BoundsAssumption
  DEF Inv, TypeOK, SmallStep, JobsStep, SameJob, SetJob, GoodJob, JobRow, Epoch
<1>3. versions' \in [Versions -> VersionRow]
  BY DEF Inv, TypeOK, SmallStep, VersionsStep, SetVersion
<1>4. OperationFromClaim'
  <2>1. \A v \in Versions : GoodOp(v, versions'[v])
    BY DEF Inv, TypeOK, OperationFromClaim, SmallStep, VersionsStep, SetVersion, GoodOp
  <2>2. \A v \in Versions : versions'[v].op \in Jobs \cup {NoJob} /\ versions'[v].opEpoch \in Nat
    BY <1>3, BoundsAssumption DEF VersionRow, Epoch
  <2> QED
    BY <2>1, <2>2, <1>2 DEF GoodOp, OperationFromClaim
<1>5. wk' \in [Workers -> WorkerState]
  BY DEF Inv, TypeOK, SmallStep, WorkersStep, SetWorker
<1>6. AttemptsDistinct'
  <2>1. \A u \in Workers : wk'[u].pc \notin {"idle", "reconcile"} =>
                             Running(u) /\ wk'[u].job = wk[u].job /\ wk'[u].epoch = wk[u].epoch
    BY DEF Inv, TypeOK, SmallStep, WorkersStep, SetWorker, Keeps, Running
  <2>2. \A u \in Workers : wk[u].epoch \in Nat
    BY BoundsAssumption DEF Inv, TypeOK, WorkerState, Epoch
  <2> QED
    BY <2>1, <2>2, <1>2 DEF Inv, AttemptsDistinct, Running
<1>7. \A u \in Workers : GoodWorker(wk[u])'
  BY DEF Inv, TypeOK, SmallStep, WorkersStep, SetWorker, GoodWorker
<1>8. AbsentUnclaimed'
  BY DEF Inv, TypeOK, SmallStep, JobsStep, SetJob, SameJob, AbsentUnclaimed
<1> QED
  BY <1>1, <1>3, <1>4, <1>5, <1>6, <1>7, <1>8 DEF Inv, TypeOK, SmallStep, CountersStep

-----------------------------------------------------------------------------
(* The shapes of the updates are small steps. *)

LEMMA Numbers == NoLease \in Lease /\ 0 \in Lease /\ LeaseTicks \in Lease /\ 0 \in Epoch
                 /\ NoLease # LeaseTicks
  BY BoundsAssumption DEF Lease, NoLease, Epoch

LEMMA NormalizedIsCompensation == ASSUME NEW step PROVE Normalized(step) \in CompSteps
  BY DEF Normalized, CompSteps

LEMMA GoStep ==
  ASSUME Inv, NEW w \in Workers, Running(w),
         NEW pc \in PCs \ {"work", "idle", "reconcile", "claimop"}, Go(w, pc)
  PROVE  WorkersStep
<1> DEFINE row == [wk[w] EXCEPT !.pc = pc]
<1>1. row \in WorkerState /\ row.pc = pc /\ row.job = wk[w].job /\ row.epoch = wk[w].epoch
  BY DEF Inv, TypeOK, WorkerState
<1> QED
  BY <1>1 DEF Go, WorkersStep, Keeps, GoodWorker

LEMMA StageStep ==
  ASSUME Inv, NEW w \in Workers, Running(w),
         NEW pc \in PCs \ {"work", "idle", "reconcile", "claimop"},
         NEW stage \in Stages \cup {"deploy_ready", "ready"},
         SetWorker(w, [wk[w] EXCEPT !.pc = pc, !.stage = stage])
  PROVE  WorkersStep
<1> DEFINE row == [wk[w] EXCEPT !.pc = pc, !.stage = stage]
<1>1. row \in WorkerState /\ row.pc = pc /\ row.job = wk[w].job /\ row.epoch = wk[w].epoch
  BY DEF Inv, TypeOK, WorkerState
<1> QED
  BY <1>1 DEF WorkersStep, Keeps, GoodWorker

LEMMA StepStep ==
  ASSUME Inv, NEW w \in Workers, Running(w),
         NEW pc \in PCs \ {"work", "idle", "reconcile", "claimop"}, NEW step \in CompSteps,
         SetWorker(w, [wk[w] EXCEPT !.pc = pc, !.step = step])
  PROVE  WorkersStep
<1> DEFINE row == [wk[w] EXCEPT !.pc = pc, !.step = step]
<1>1. row \in WorkerState /\ row.pc = pc /\ row.job = wk[w].job /\ row.epoch = wk[w].epoch
  BY DEF Inv, TypeOK, WorkerState
<1> QED
  BY <1>1 DEF WorkersStep, Keeps, GoodWorker

LEMMA KeeperStep ==
  ASSUME Inv, NEW w \in Workers, Running(w), NEW k \in {"off", "on", "half", "lost"},
         \/ SetWorker(w, [wk[w] EXCEPT !.keeper = k])
         \/ \E pc \in PCs \ {"work", "idle", "reconcile", "claimop"} :
              SetWorker(w, [wk[w] EXCEPT !.pc = pc, !.keeper = k])
  PROVE  WorkersStep
<1>1. CASE SetWorker(w, [wk[w] EXCEPT !.keeper = k])
  <2> DEFINE row == [wk[w] EXCEPT !.keeper = k]
  <2>1. /\ row \in WorkerState /\ row.pc = wk[w].pc /\ row.stage = wk[w].stage
        /\ row.job = wk[w].job /\ row.epoch = wk[w].epoch
    BY DEF Inv, TypeOK, WorkerState
  <2> QED
    BY <1>1, <2>1 DEF Inv, WorkersStep, Keeps, GoodWorker, Running
<1>2. ASSUME NEW pc \in PCs \ {"work", "idle", "reconcile", "claimop"},
             SetWorker(w, [wk[w] EXCEPT !.pc = pc, !.keeper = k])
      PROVE  WorkersStep
  <2> DEFINE row == [wk[w] EXCEPT !.pc = pc, !.keeper = k]
  <2>1. row \in WorkerState /\ row.pc = pc /\ row.job = wk[w].job /\ row.epoch = wk[w].epoch
    BY DEF Inv, TypeOK, WorkerState
  <2> QED
    BY <1>2, <2>1 DEF WorkersStep, Keeps, GoodWorker
<1> QED
  BY <1>1, <1>2

LEMMA RestStep ==
  ASSUME NEW w \in Workers, Rest(w)
  PROVE  WorkersStep
<1>1. Resting \in WorkerState /\ Resting.pc = "idle" /\ Resting.keeper = "off"
  BY Numbers DEF Resting, WorkerState, PCs, Stages, CompSteps
<1> QED
  BY <1>1 DEF Rest, WorkersStep, Keeps, GoodWorker

LEMMA QuietStep ==
  ASSUME Inv, NoFault \/ Fault, prod' = prod
  PROVE  CountersStep
  BY BoundsAssumption DEF Inv, TypeOK, NoFault, Fault, CountersStep

LEMMA RowStep ==
  ASSUME NEW j \in Jobs, NEW row \in GoodJob, SameJob(j, row), SetJob(j, row)
  PROVE  JobsStep
  BY DEF JobsStep

LEMMA SettleStep ==
  ASSUME Inv, NEW j \in Jobs, NEW status \in {"pending", "failed"}, Settle(j, status)
  PROVE  JobsStep
<1> DEFINE row == [jobs[j] EXCEPT !.status = status, !.lease = NoLease, !.worker = NoWorker]
<1>1. row \in JobRow /\ row.status = status /\ row.lease = NoLease /\ row.epoch = jobs[j].epoch
  BY Numbers DEF Inv, TypeOK, JobRow
<1>2. SameJob(j, row)
  BY <1>1 DEF SameJob
<1> QED
  BY <1>1, <1>2, RowStep DEF Settle, GoodJob

LEMMA ToCompensatingStep ==
  ASSUME Inv, NEW j \in Jobs, ToCompensating(j)
  PROVE  JobsStep
<1> DEFINE row == [jobs[j] EXCEPT !.status = "compensating", !.lease = NoLease,
                                  !.worker = NoWorker, !.step = Normalized(@)]
<1>1. /\ row \in JobRow /\ row.status = "compensating" /\ row.lease = NoLease
      /\ row.epoch = jobs[j].epoch
  BY Numbers, NormalizedIsCompensation DEF Inv, TypeOK, JobRow
<1>2. SameJob(j, row)
  BY <1>1 DEF SameJob
<1> QED
  BY <1>1, <1>2, RowStep DEF ToCompensating, GoodJob

LEMMA JobStepStep ==
  ASSUME Inv, NEW j \in Jobs, NEW step \in CompSteps \cup {"deploy"},
         SetJob(j, [jobs[j] EXCEPT !.step = step])
  PROVE  JobsStep
<1> DEFINE row == [jobs[j] EXCEPT !.step = step]
<1>1. /\ row \in JobRow /\ row.status = jobs[j].status /\ row.lease = jobs[j].lease
      /\ row.worker = jobs[j].worker /\ row.epoch = jobs[j].epoch
  BY DEF Inv, TypeOK, JobRow
<1>2. row \in GoodJob
  BY <1>1 DEF Inv, ClaimedLease, GoodJob
<1>3. SameJob(j, row)
  BY <1>1 DEF SameJob
<1> QED
  BY <1>2, <1>3, RowStep

LEMMA PersistStepStep ==
  ASSUME Inv, NEW w \in Workers, wk[w].job \in Jobs, NEW step \in CompSteps, PersistStep(w, step)
  PROVE  JobsStep
  BY JobStepStep DEF PersistStep, JobsStep

LEMMA MyJob ==
  ASSUME Inv, NEW w \in Workers, Running(w)
  PROVE  wk[w].job \in Jobs /\ MyVersion(w) \in Versions /\ versions[MyVersion(w)] \in VersionRow
  BY JobsAssumption DEF Inv, TypeOK, AttemptsDistinct, MyVersion

LEMMA ContentStep ==
  ASSUME Inv, NEW v \in Versions, NEW row \in VersionRow, SetVersion(v, row),
         row.op = versions[v].op, row.opEpoch = versions[v].opEpoch,
         row.opLease = versions[v].opLease,
         row.status = versions[v].status, row.route = versions[v].route
  PROVE  VersionsStep
  BY DEF Inv, OperationFromClaim, VersionsStep, GoodOp, Harmless, SameOp, SameDoc

LEMMA FencedWriteStep ==
  ASSUME Inv, NEW w \in Workers, Running(w), wk[w].pc # "claimop", Fenced(w),
         NEW row \in VersionRow, SetVersion(MyVersion(w), row),
         row.op = versions[MyVersion(w)].op, row.opEpoch = versions[MyVersion(w)].opEpoch,
         row.opLease = versions[MyVersion(w)].opLease,
         jobs' = jobs, \E new : SetWorker(w, new)
  PROVE  VersionsStep
<1> DEFINE v == MyVersion(w)
<1>1. v \in Versions
  BY MyJob
<1>2. GoodOp(v, row) /\ SameOp(v, row)
  BY <1>1 DEF Inv, OperationFromClaim, GoodOp, SameOp
<1>3. OnlyMoves(w)
  BY DEF OnlyMoves, SetWorker, Inv, TypeOK
<1>4. Written(v, row)
  BY <1>2, <1>3 DEF Written, Fenced
<1> QED
  BY <1>1, <1>2, <1>4 DEF VersionsStep

LEMMA ReleasedStep ==
  ASSUME Inv, NEW v \in Versions, NEW j, NEW e, Released(v, j, e)
  PROVE  VersionsStep
<1> DEFINE row == [versions[v] EXCEPT !.op = NoJob, !.opEpoch = 0, !.opLease = NoLease]
<1>1. /\ row \in VersionRow /\ row.op = NoJob
      /\ row.status = versions[v].status /\ row.route = versions[v].route
  BY Numbers DEF Inv, TypeOK, VersionRow
<1> QED
  BY <1>1 DEF Released, VersionsStep, GoodOp, Harmless, SameDoc

-----------------------------------------------------------------------------
(* runDeploy and its end, one step per action. *)
LEMMA DeployingSmall ==
  ASSUME Inv, NEW w \in Workers, Deploying(w)
  PROVE  SmallStep
<1> DEFINE j == wk[w].job
           v == MyVersion(w)
<1>0. wk[w] \in WorkerState
  BY DEF Inv, TypeOK
<1>1. CASE ClaimOperation(w)
  <2>1. Running(w) /\ j \in Jobs /\ v \in Versions /\ versions[v] \in VersionRow
    BY <1>1, MyJob DEF ClaimOperation, Running
  <2>2. CASE jobs[j].epoch = wk[w].epoch /\ OperationClaimable(j)
    <3> DEFINE row == [versions[v] EXCEPT !.op = j, !.opEpoch = wk[w].epoch, !.opLease = LeaseTicks]
               pc  == IF wk[w].mode = "deploy" THEN "status" ELSE "ccheck"
    <3>1. SetVersion(v, row) /\ SetWorker(w, [wk[w] EXCEPT !.keeper = "on", !.pc = pc])
      BY <1>1, <2>2 DEF ClaimOperation
    <3>2. /\ row \in VersionRow /\ row.op = j /\ row.opEpoch = wk[w].epoch
          /\ row.opLease = LeaseTicks
      BY <1>0, <2>1, Numbers DEF VersionRow, WorkerState
    <3>3. GoodOp(v, row)
      BY <2>1, <3>2, Numbers DEF GoodOp, Inv, AttemptsDistinct, MyVersion
    <3>4. VersionsStep
      <4>1. SameDoc(v, row)
        BY <2>1 DEF SameDoc, VersionRow
      <4>2. wk'[w].pc # "claimop" /\ OnlyMoves(w)
        BY <1>0, <1>1, <3>1 DEF ClaimOperation, OnlyMoves, SetWorker, Inv, TypeOK, WorkerState
      <4>3. Granted(v, row)
        BY <1>1, <2>2, <3>2, <4>1, <4>2, BoundsAssumption
        DEF ClaimOperation, OperationClaimable, Granted
      <4> QED
        BY <2>1, <3>1, <3>2, <3>3, <4>3 DEF VersionsStep
    <3>5. SetWorker(w, [wk[w] EXCEPT !.pc = pc, !.keeper = "on"])
      BY <1>0, <3>1 DEF SetWorker, WorkerState
    <3>6. pc \in PCs \ {"work", "idle", "reconcile", "claimop"}
      BY DEF PCs, DeployPCs, CompPCs
    <3>7. WorkersStep
      BY <2>1, <3>5, <3>6, KeeperStep
    <3> QED
      BY <1>1, <3>4, <3>7, QuietStep DEF ClaimOperation, SmallStep, JobsStep
  <2>3. CASE ~(jobs[j].epoch = wk[w].epoch /\ OperationClaimable(j))
    <3>1. \E pc \in {"handback", "fail", "busy"} : Go(w, pc)
      BY <1>1, <2>3 DEF ClaimOperation
    <3>2. WorkersStep
      BY <2>1, <3>1, GoStep DEF PCs, FailPCs
    <3> QED
      BY <1>1, <2>3, <3>2, QuietStep DEF ClaimOperation, SmallStep, JobsStep, VersionsStep
  <2> QED
    BY <2>2, <2>3
<1>2. CASE RequeueBusy(w)
  <2>1. j \in Jobs
    BY <1>2, MyJob DEF RequeueBusy, Running
  <2>2. JobsStep
    BY <1>2, <2>1, SettleStep DEF RequeueBusy, JobsStep
  <2> QED
    BY <1>2, <2>2, RestStep, QuietStep DEF RequeueBusy, SmallStep, VersionsStep
<1>3. CASE StepFails(w)
  <2>1. Running(w)
    BY <1>3 DEF StepFails, Running, DeployPCs
  <2>2. SetWorker(w, [wk[w] EXCEPT !.pc = "fail", !.keeper = "off"])
    BY <1>3 DEF StepFails, Fail
  <2>3. WorkersStep
    BY <2>1, <2>2, KeeperStep DEF PCs, FailPCs
  <2> QED
    BY <1>3, <2>3, QuietStep DEF StepFails, SmallStep, JobsStep, VersionsStep
<1>4. CASE WriteStatus(w)
  <2>1. Running(w) /\ v \in Versions /\ versions[v] \in VersionRow
    BY <1>4, MyJob DEF WriteStatus, Running
  <2> DEFINE row == [versions[v] EXCEPT !.status = wk[w].stage]
  <2>2. /\ row \in VersionRow /\ row.op = versions[v].op /\ row.opEpoch = versions[v].opEpoch
        /\ row.opLease = versions[v].opLease
    BY <1>0, <2>1 DEF VersionRow, WorkerState
  <2>3. VersionsStep
    BY <1>4, <2>1, <2>2, FencedWriteStep DEF WriteStatus, Go
  <2>4. WorkersStep
    BY <1>4, <2>1, GoStep DEF WriteStatus, PCs, DeployPCs
  <2> QED
    BY <1>4, <2>3, <2>4, QuietStep DEF WriteStatus, SmallStep, JobsStep
<1>5. CASE WriteStep(w)
  <2>1. Running(w) /\ j \in Jobs
    BY <1>5, MyJob DEF WriteStep, Running
  <2>2. JobsStep
    BY <1>5, <2>1, JobStepStep DEF WriteStep
  <2>3. WorkersStep
    <3>1. CASE wk[w].stage \in Stages
      <4> DEFINE row == [wk[w] EXCEPT !.pc = "work"]
      <4>1. SetWorker(w, row)
        BY <1>5, <3>1 DEF WriteStep, Go, Stages
      <4>2. /\ row \in WorkerState /\ row.pc = "work" /\ row.stage \in Stages
            /\ row.job = j /\ row.epoch = wk[w].epoch
        BY <1>0, <3>1 DEF WorkerState, PCs, DeployPCs
      <4> QED
        BY <2>1, <4>1, <4>2 DEF WorkersStep, Keeps, GoodWorker
    <3>2. CASE wk[w].stage \in {"deploy_ready", "ready"}
      <4>1. Go(w, IF wk[w].stage = "ready" THEN "tail" ELSE "qualify")
        BY <1>5, <3>2 DEF WriteStep
      <4> QED
        BY <2>1, <4>1, GoStep DEF PCs, DeployPCs
    <3> QED
      BY <1>0, <3>1, <3>2 DEF WorkerState
  <2> QED
    BY <1>5, <2>2, <2>3, QuietStep DEF WriteStep, SmallStep, VersionsStep
<1>6. CASE EndStage(w)
  <2>1. Running(w) /\ wk[w].stage \in Stages
    BY <1>6 DEF EndStage, Running, Inv, GoodWorker
  <2>2. WorkersStep
    <3>1. CASE wk[w].stage # "deploying"
      <4>1. NextStage[wk[w].stage] \in Stages
        BY <1>6, <2>1, <3>1 DEF EndStage, NextStage, Stages
      <4> QED
        BY <1>6, <2>1, <3>1, <4>1, StageStep DEF EndStage, PCs, DeployPCs
    <3>2. CASE wk[w].stage = "deploying" /\ v \in Elastic
      BY <1>6, <2>1, <3>2, StageStep DEF EndStage, PCs, DeployPCs
    <3>3. CASE wk[w].stage = "deploying" /\ v \notin Elastic
      BY <1>6, <2>1, <3>3, GoStep DEF EndStage, PCs, DeployPCs
    <3> QED
      BY <3>1, <3>2, <3>3
  <2> QED
    BY <1>6, <2>2, QuietStep DEF EndStage, SmallStep, JobsStep, VersionsStep
<1>7. CASE AssertBeforeFork(w)
  <2>1. WorkersStep
    BY <1>7, GoStep DEF AssertBeforeFork, Running, PCs, DeployPCs
  <2> QED
    BY <1>7, <2>1, QuietStep DEF AssertBeforeFork, SmallStep, JobsStep, VersionsStep
<1>8. CASE Fork(w)
  <2>1. Running(w) /\ v \in Versions /\ versions[v] \in VersionRow
    BY <1>8, MyJob DEF Fork, Running
  <2> DEFINE row == [versions[v] EXCEPT !.branch = TRUE]
  <2>2. /\ row \in VersionRow /\ row.op = versions[v].op /\ row.opEpoch = versions[v].opEpoch
        /\ row.opLease = versions[v].opLease /\ row.status = versions[v].status
        /\ row.route = versions[v].route
    BY <2>1 DEF VersionRow
  <2>3. VersionsStep
    BY <1>8, <2>1, <2>2, ContentStep DEF Fork, VersionsStep
  <2>4. WorkersStep
    BY <1>8, <2>1, GoStep, StageStep DEF Fork, PCs, DeployPCs, Stages
  <2> QED
    BY <1>8, <2>3, <2>4, QuietStep DEF Fork, SmallStep, JobsStep
<1>9. CASE AssertAfterFork(w)
  <2>1. WorkersStep
    BY <1>9, StageStep DEF AssertAfterFork, Running, PCs, DeployPCs, Stages
  <2> QED
    BY <1>9, <2>1, QuietStep DEF AssertAfterFork, SmallStep, JobsStep, VersionsStep
<1>10. CASE Qualify(w)
  <2>1. Running(w) /\ j \in Jobs /\ v \in Versions /\ versions[v] \in VersionRow
    BY <1>10, MyJob DEF Qualify, Running
  <2> DEFINE row == [versions[v] EXCEPT !.desire = j]
  <2>2. /\ row \in VersionRow /\ row.op = versions[v].op /\ row.opEpoch = versions[v].opEpoch
        /\ row.opLease = versions[v].opLease /\ row.status = versions[v].status
        /\ row.route = versions[v].route
    BY <2>1 DEF VersionRow, Reasons
  <2>3. VersionsStep
    BY <1>10, <2>1, <2>2, ContentStep DEF Qualify
  <2>4. WorkersStep
    BY <1>10, <2>1, GoStep DEF Qualify, WorkersStep, PCs, DeployPCs
  <2> QED
    BY <1>10, <2>3, <2>4, QuietStep DEF Qualify, SmallStep, JobsStep
<1>11. CASE SetRoute(w)
  <2>1. Running(w) /\ v \in Versions /\ versions[v] \in VersionRow
    BY <1>11, MyJob DEF SetRoute, Running
  <2> DEFINE row == [versions[v] EXCEPT !.route = "active"]
  <2>2. /\ row \in VersionRow /\ row.op = versions[v].op /\ row.opEpoch = versions[v].opEpoch
        /\ row.opLease = versions[v].opLease
    BY <2>1 DEF VersionRow
  <2>3. VersionsStep
    BY <1>11, <2>1, <2>2, FencedWriteStep DEF SetRoute
  <2>4. WorkersStep
    BY <1>11, <2>1, StageStep DEF SetRoute, PCs, DeployPCs
  <2> QED
    BY <1>11, <2>3, <2>4, QuietStep DEF SetRoute, SmallStep, JobsStep
<1>12. CASE FinalizeIdle(w)
  <2>1. Running(w) /\ v \in Versions /\ versions[v] \in VersionRow
    BY <1>12, MyJob DEF FinalizeIdle, Running
  <2> DEFINE row == [versions[v] EXCEPT !.desire = "idle"]
  <2>2. /\ row \in VersionRow /\ row.op = versions[v].op /\ row.opEpoch = versions[v].opEpoch
        /\ row.opLease = versions[v].opLease /\ row.status = versions[v].status
        /\ row.route = versions[v].route
    BY <2>1 DEF VersionRow, Reasons
  <2>3. VersionsStep
    BY <1>12, <2>1, <2>2, ContentStep DEF FinalizeIdle, VersionsStep
  <2>4. WorkersStep
    BY <1>12, <2>1, GoStep DEF FinalizeIdle, PCs, DeployPCs
  <2> QED
    BY <1>12, <2>3, <2>4, QuietStep DEF FinalizeIdle, SmallStep, JobsStep
<1>13. CASE BootstrapProd(w)
  <2>1. Running(w) /\ v \in Versions
    BY <1>13, MyJob DEF BootstrapProd, Running
  <2>2. WorkersStep
    BY <1>13, <2>1, GoStep DEF BootstrapProd, PCs, DeployPCs
  <2>3. CountersStep
    BY <1>13, <2>1 DEF BootstrapProd, CountersStep, NoFault, Inv, TypeOK
  <2> QED
    BY <1>13, <2>2, <2>3 DEF BootstrapProd, SmallStep, JobsStep, VersionsStep
<1>14. CASE CronResidentDesire(w)
  <2>1. Running(w) /\ v \in Versions /\ versions[v] \in VersionRow
    BY <1>14, MyJob DEF CronResidentDesire, Running
  <2> DEFINE row == [versions[v] EXCEPT !.desire = "third_party"]
  <2>2. /\ row \in VersionRow /\ row.op = versions[v].op /\ row.opEpoch = versions[v].opEpoch
        /\ row.opLease = versions[v].opLease /\ row.status = versions[v].status
        /\ row.route = versions[v].route
    BY <2>1 DEF VersionRow, Reasons
  <2>3. VersionsStep
    BY <1>14, <2>1, <2>2, ContentStep DEF CronResidentDesire
  <2> QED
    BY <1>14, <2>3, QuietStep DEF CronResidentDesire, SmallStep, JobsStep, WorkersStep
<1>15. CASE DeployDone(w)
  <2>1. WorkersStep
    BY <1>15, KeeperStep DEF DeployDone, Running, PCs
  <2> QED
    BY <1>15, <2>1, QuietStep DEF DeployDone, SmallStep, JobsStep, VersionsStep
<1>16. CASE ReleaseOperation(w)
  <2>1. Running(w) /\ v \in Versions
    BY <1>16, MyJob DEF ReleaseOperation, Running
  <2>2. VersionsStep
    BY <1>16, <2>1, ReleasedStep DEF ReleaseOperation
  <2>3. WorkersStep
    BY <1>16, <2>1, GoStep DEF ReleaseOperation, PCs
  <2> QED
    BY <1>16, <2>2, <2>3, QuietStep DEF ReleaseOperation, SmallStep, JobsStep
<1>17. CASE CompleteJob(w)
  <2>1. Running(w) /\ j \in Jobs
    BY <1>17, MyJob DEF CompleteJob, Running
  <2> DEFINE row == [jobs[j] EXCEPT !.status = "completed", !.lease = NoLease]
  <2>2. /\ row \in JobRow /\ row.status = "completed" /\ row.lease = NoLease
        /\ row.epoch = jobs[j].epoch
    BY <2>1, Numbers DEF Inv, TypeOK, JobRow
  <2>3. row \in GoodJob
    BY <2>2 DEF GoodJob
  <2>4. SameJob(j, row)
    BY <2>1, <2>2 DEF SameJob
  <2>5. JobsStep
    BY <1>17, <2>1, <2>3, <2>4, RowStep DEF CompleteJob
  <2> QED
    BY <1>17, <2>5, RestStep, QuietStep DEF CompleteJob, SmallStep, VersionsStep
<1> QED
  BY <1>1, <1>2, <1>3, <1>4, <1>5, <1>6, <1>7, <1>8, <1>9, <1>10, <1>11, <1>12, <1>13,
     <1>14, <1>15, <1>16, <1>17 DEF Deploying

(* A deploy that failed, up to its hand-over to the compensation. *)
LEMMA FailingSmall ==
  ASSUME Inv, NEW w \in Workers, Failing(w)
  PROVE  SmallStep
<1> DEFINE j == wk[w].job
           v == MyVersion(w)
<1>1. CASE FinalizeFailure(w)
  <2>1. Running(w)
    BY <1>1 DEF FinalizeFailure, Running
  <2>2. CASE Owns(wk[w].job, wk[w].epoch)
    BY <1>1, <2>1, <2>2, KeeperStep, QuietStep
    DEF FinalizeFailure, PCs, FailPCs, SmallStep, JobsStep, VersionsStep
  <2>3. CASE ~Owns(wk[w].job, wk[w].epoch)
    BY <1>1, <2>1, <2>3, GoStep, QuietStep
    DEF FinalizeFailure, PCs, FailPCs, SmallStep, JobsStep, VersionsStep
  <2> QED
    BY <2>2, <2>3
<1>2. CASE MarkVersionFailed(w)
  <2>1. Running(w) /\ v \in Versions /\ versions[v] \in VersionRow
    BY <1>2, MyJob DEF MarkVersionFailed, Running
  <2> DEFINE row == [versions[v] EXCEPT !.status = "failed"]
             pc  == IF wk[w].pc = "markfailed" THEN "failcheck" ELSE "handback"
  <2>2. /\ row \in VersionRow /\ row.op = versions[v].op /\ row.opEpoch = versions[v].opEpoch
        /\ row.opLease = versions[v].opLease
    BY <2>1 DEF VersionRow
  <2>3. VersionsStep
    BY <1>2, <2>1, <2>2, FencedWriteStep DEF MarkVersionFailed, Go, VersionsStep
  <2>4. Go(w, pc) /\ pc \in PCs \ {"work", "idle", "reconcile", "claimop"}
    BY <1>2 DEF MarkVersionFailed, PCs, FailPCs
  <2>5. WorkersStep
    BY <2>1, <2>4, GoStep
  <2> QED
    BY <1>2, <2>3, <2>5, QuietStep DEF MarkVersionFailed, SmallStep, JobsStep
<1>3. CASE AssertAfterFailed(w)
  <2>1. Running(w)
    BY <1>3 DEF AssertAfterFailed, Running
  <2>2. \E pc \in {"cstart", "aborting"} : Go(w, pc)
    BY <1>3 DEF AssertAfterFailed
  <2>3. WorkersStep
    BY <2>1, <2>2, GoStep DEF PCs, FailPCs
  <2> QED
    BY <1>3, <2>3, QuietStep DEF AssertAfterFailed, SmallStep, JobsStep, VersionsStep
<1>4. CASE StartCompensation(w)
  <2>1. Running(w) /\ j \in Jobs
    BY <1>4, MyJob DEF StartCompensation, Running
  <2>2. JobsStep
    BY <1>4, <2>1, PersistStepStep DEF StartCompensation, CompSteps
  <2>3. WorkersStep
    BY <1>4, <2>1, StepStep DEF StartCompensation, PCs, CompPCs, CompSteps
  <2> QED
    BY <1>4, <2>2, <2>3, QuietStep DEF StartCompensation, SmallStep, VersionsStep
<1>5. CASE AbortWithoutOperation(w)
  <2>1. Running(w)
    BY <1>5 DEF AbortWithoutOperation, Running
  <2>2. \E pc \in {"handoff", "failnow"} : Go(w, pc)
    BY <1>5 DEF AbortWithoutOperation
  <2>3. WorkersStep
    BY <2>1, <2>2, GoStep DEF PCs, FailPCs
  <2> QED
    BY <1>5, <2>3, QuietStep DEF AbortWithoutOperation, SmallStep, JobsStep, VersionsStep
<1>6. CASE FailNow(w)
  <2>1. j \in Jobs
    BY <1>6, MyJob DEF FailNow, Running
  <2>2. JobsStep
    BY <1>6, <2>1, SettleStep DEF FailNow, JobsStep
  <2>3. CountersStep
    BY <1>6, QuietStep DEF FailNow
  <2> QED
    BY <1>6, <2>2, <2>3, RestStep DEF FailNow, SmallStep, VersionsStep
<1>7. CASE HandBack(w)
  <2>1. j \in Jobs
    BY <1>7, MyJob DEF HandBack, Running
  <2>2. JobsStep
    BY <1>7, <2>1, ToCompensatingStep DEF HandBack, JobsStep
  <2> QED
    BY <1>7, <2>2, RestStep, QuietStep DEF HandBack, SmallStep, VersionsStep
<1> QED
  BY <1>1, <1>2, <1>3, <1>4, <1>5, <1>6, <1>7 DEF Failing

(* The compensation state machine. *)
LEMMA UndoingSmall ==
  ASSUME Inv, NEW w \in Workers, Undoing(w)
  PROVE  SmallStep
<1> DEFINE j == wk[w].job
           v == MyVersion(w)
<1>1. CASE CheckOwnership(w)
  <2>1. Running(w)
    BY <1>1 DEF CheckOwnership, Running
  <2>2. \E pc \in {"cerr", "csuper", "cact"} : Go(w, pc)
    BY <1>1 DEF CheckOwnership
  <2>3. WorkersStep
    BY <2>1, <2>2, GoStep DEF PCs, CompPCs
  <2> QED
    BY <1>1, <2>3, QuietStep DEF CheckOwnership, SmallStep, JobsStep, VersionsStep
<1>2. CASE CompensateStep(w)
  <2>1. Running(w) /\ v \in Versions /\ versions[v] \in VersionRow
    BY <1>2, MyJob DEF CompensateStep, Running
  <2>2. ASSUME NEW row \in VersionRow, NEW next \in CompSteps, Undo(w, row, next),
               row.op = versions[v].op, row.opEpoch = versions[v].opEpoch,
               row.opLease = versions[v].opLease
        PROVE  VersionsStep /\ WorkersStep
    <3>1. VersionsStep
      BY <1>2, <2>1, <2>2, FencedWriteStep DEF Undo, CompensateStep
    <3>2. WorkersStep
      BY <2>1, <2>2, StepStep DEF Undo, PCs, CompPCs
    <3> QED
      BY <3>1, <3>2
  <2>3. VersionsStep /\ WorkersStep
    <3>1. CASE wk[w].step = "desire"
      <4> DEFINE row == [versions[v] EXCEPT
                           !.desire = IF v \in Elastic /\ @ = j THEN "deploy_failed" ELSE @]
      <4>1. /\ row \in VersionRow /\ row.op = versions[v].op
            /\ row.opEpoch = versions[v].opEpoch /\ row.opLease = versions[v].opLease
        BY <2>1 DEF VersionRow, Reasons
      <4>2. Undo(w, row, "route")
        BY <1>2, <3>1 DEF CompensateStep
      <4> QED
        BY <2>2, <4>1, <4>2 DEF CompSteps
    <3>2. CASE wk[w].step = "route"
      <4> DEFINE row == [versions[v] EXCEPT !.route = IF @ = "active" THEN "inactive" ELSE @]
      <4>1. /\ row \in VersionRow /\ row.op = versions[v].op
            /\ row.opEpoch = versions[v].opEpoch /\ row.opLease = versions[v].opLease
        BY <2>1 DEF VersionRow
      <4>2. Undo(w, row, "branch")
        BY <1>2, <3>2 DEF CompensateStep
      <4> QED
        BY <2>2, <4>1, <4>2 DEF CompSteps
    <3>3. CASE wk[w].step = "branch"
      BY <1>2, <2>1, <3>3, GoStep DEF CompensateStep, VersionsStep, PCs, CompPCs
    <3>4. CASE wk[w].step = "release"
      <4>1. Released(v, j, wk[w].epoch) /\ Go(w, "cfail")
        BY <1>2, <3>4 DEF CompensateStep
      <4> QED
        BY <2>1, <4>1, ReleasedStep, GoStep DEF PCs, CompPCs
    <3> QED
      BY <1>2, <3>1, <3>2, <3>3, <3>4 DEF CompensateStep
  <2> QED
    BY <1>2, <2>3, QuietStep DEF CompensateStep, SmallStep, JobsStep
<1>3. CASE DestroyBranch(w)
  <2>1. Running(w) /\ v \in Versions /\ versions[v] \in VersionRow
    BY <1>3, MyJob DEF DestroyBranch, Running
  <2> DEFINE row == [versions[v] EXCEPT !.branch = FALSE]
  <2>2. /\ row \in VersionRow /\ row.op = versions[v].op /\ row.opEpoch = versions[v].opEpoch
        /\ row.opLease = versions[v].opLease /\ row.status = versions[v].status
        /\ row.route = versions[v].route
    BY <2>1 DEF VersionRow
  <2>3. VersionsStep
    BY <1>3, <2>1, <2>2, ContentStep DEF DestroyBranch
  <2>4. WorkersStep
    BY <1>3, <2>1, GoStep DEF DestroyBranch, PCs, CompPCs
  <2> QED
    BY <1>3, <2>3, <2>4, QuietStep DEF DestroyBranch, SmallStep, JobsStep
<1>4. CASE DestroyFails(w)
  BY <1>4, GoStep, QuietStep
  DEF DestroyFails, Running, PCs, CompPCs, SmallStep, JobsStep, VersionsStep
<1>5. CASE AssertAfterDestroy(w)
  <2>1. WorkersStep
    BY <1>5, StepStep DEF AssertAfterDestroy, Running, PCs, CompPCs, CompSteps
  <2> QED
    BY <1>5, <2>1, QuietStep DEF AssertAfterDestroy, SmallStep, JobsStep, VersionsStep
<1>6. CASE StepIncomplete(w)
  <2>1. WorkersStep
    BY <1>6, GoStep DEF StepIncomplete, Running, PCs, CompPCs
  <2> QED
    BY <1>6, <2>1, QuietStep DEF StepIncomplete, SmallStep, JobsStep, VersionsStep
<1>7. CASE PersistNext(w)
  <2>1. Running(w) /\ j \in Jobs /\ wk[w].step \in CompSteps
    BY <1>7, MyJob DEF PersistNext, Running, Inv, TypeOK, WorkerState
  <2>2. JobsStep
    BY <1>7, <2>1, PersistStepStep DEF PersistNext
  <2>3. \E pc \in {"ccheck", "handback"} : Go(w, pc)
    BY <1>7 DEF PersistNext
  <2>4. WorkersStep
    BY <2>1, <2>3, GoStep DEF PCs, CompPCs, FailPCs
  <2> QED
    BY <1>7, <2>2, <2>4, QuietStep DEF PersistNext, SmallStep, VersionsStep
<1>8. CASE PersistAndHandBack(w)
  <2>1. Running(w) /\ j \in Jobs /\ wk[w].step \in CompSteps
    BY <1>8, MyJob DEF PersistAndHandBack, Running, Inv, TypeOK, WorkerState
  <2>2. JobsStep
    BY <1>8, <2>1, PersistStepStep DEF PersistAndHandBack
  <2>3. WorkersStep
    BY <1>8, <2>1, GoStep DEF PersistAndHandBack, PCs
  <2> QED
    BY <1>8, <2>2, <2>3, QuietStep DEF PersistAndHandBack, SmallStep, VersionsStep
<1>9. CASE FailCompensated(w)
  <2>1. Running(w) /\ j \in Jobs
    BY <1>9, MyJob DEF FailCompensated, Running
  <2>2. CASE Failable(w)
    BY <1>9, <2>1, <2>2, SettleStep, RestStep, QuietStep
    DEF FailCompensated, SmallStep, VersionsStep
  <2>3. CASE ~Failable(w)
    BY <1>9, <2>1, <2>3, GoStep, QuietStep
    DEF FailCompensated, PCs, CompPCs, SmallStep, JobsStep, VersionsStep
  <2> QED
    BY <2>2, <2>3
<1>10. CASE FailSuperseded(w)
  <2>1. j \in Jobs
    BY <1>10, MyJob DEF FailSuperseded, Running
  <2>2. JobsStep
    BY <1>10, <2>1, SettleStep DEF FailSuperseded, JobsStep
  <2> QED
    BY <1>10, <2>2, RestStep, QuietStep DEF FailSuperseded, SmallStep, VersionsStep
<1> QED
  BY <1>1, <1>2, <1>3, <1>4, <1>5, <1>6, <1>7, <1>8, <1>9, <1>10 DEF Undoing

(* The keeper, the discovery of forgotten compensations, a crash. *)
LEMMA BesidesSmall ==
  ASSUME Inv, NEW w \in Workers, Keeping(w) \/ Discovering(w) \/ Crash(w)
  PROVE  SmallStep
<1> DEFINE j == wk[w].job
           v == MyVersion(w)
<1>0. wk[w] \in WorkerState /\ GoodWorker(wk[w])
  BY DEF Inv, TypeOK
<1>1. CASE RenewJobLease(w)
  <2> DEFINE row == [jobs[j] EXCEPT !.lease = LeaseTicks]
  <2>1. Running(w) /\ j \in Jobs
    BY <1>0, <1>1, MyJob DEF RenewJobLease, Running, GoodWorker
  <2>2. /\ row \in JobRow /\ row.status = jobs[j].status /\ row.worker = jobs[j].worker
        /\ row.lease = LeaseTicks /\ row.epoch = jobs[j].epoch
    BY <2>1, Numbers DEF Inv, TypeOK, JobRow
  <2>3. jobs[j].status = "claimed" => row \in GoodJob
    BY <2>1, <2>2, Numbers DEF Inv, ClaimedLease, GoodJob
  <2>4. SameJob(j, row)
    BY <2>1, <2>2 DEF SameJob
  <2>5. JobsStep
    BY <1>1, <2>1, <2>3, <2>4, RowStep DEF RenewJobLease, Mine, JobsStep
  <2>6. \E k \in {"half", "lost"} : SetWorker(w, [wk[w] EXCEPT !.keeper = k])
    BY <1>1 DEF RenewJobLease
  <2>7. WorkersStep
    BY <2>1, <2>6, KeeperStep
  <2> QED
    BY <1>1, <2>5, <2>7, QuietStep DEF RenewJobLease, SmallStep, VersionsStep
<1>2. CASE RenewOperation(w)
  <2> DEFINE row == [versions[v] EXCEPT !.opLease = LeaseTicks]
  <2>1. Running(w) /\ j \in Jobs /\ v \in Versions /\ versions[v] \in VersionRow
    BY <1>0, <1>2, MyJob DEF RenewOperation, Running, GoodWorker
  <2>2. /\ row \in VersionRow /\ row.op = versions[v].op /\ row.opEpoch = versions[v].opEpoch
        /\ row.opLease = LeaseTicks /\ SameDoc(v, row)
    BY <2>1, Numbers DEF VersionRow, SameDoc
  <2>3. GoodOp(v, row)
    BY <2>1, <2>2, Numbers DEF Inv, OperationFromClaim, GoodOp
  <2>4. VersionsStep
    <3>1. CASE Owns(j, wk[w].epoch)
      <4>1. Harmless(v, row)
        BY <2>2, <3>1, BoundsAssumption DEF Owns, MyVersion, SameOp, Harmless
      <4> QED
        BY <1>2, <2>1, <2>2, <2>3, <3>1, <4>1 DEF RenewOperation, VersionsStep
    <3>2. CASE ~Owns(j, wk[w].epoch)
      BY <1>2, <3>2 DEF RenewOperation, VersionsStep
    <3> QED
      BY <3>1, <3>2
  <2>5. \E k \in {"on", "lost"} : SetWorker(w, [wk[w] EXCEPT !.keeper = k])
    BY <1>2 DEF RenewOperation
  <2>6. WorkersStep
    BY <2>1, <2>5, KeeperStep
  <2>7. CountersStep
    BY <1>2, QuietStep DEF RenewOperation
  <2> QED
    BY <1>2, <2>4, <2>6, <2>7 DEF RenewOperation, SmallStep, JobsStep
<1>3. CASE Discover(w)
  <2> DEFINE row == [wk[w] EXCEPT !.pc = "reconcile", !.todo = {i \in Jobs : LeftBehind(i)}]
  <2>1. row \in WorkerState /\ row.pc = "reconcile" /\ row.keeper = wk[w].keeper
    BY <1>0 DEF WorkerState, PCs
  <2>2. GoodWorker(row)
    BY <1>0, <1>3, <2>1 DEF Discover, GoodWorker
  <2>3. WorkersStep
    BY <1>3, <2>1, <2>2 DEF Discover, WorkersStep, Keeps
  <2> QED
    BY <1>3, <2>3, QuietStep DEF Discover, SmallStep, JobsStep, VersionsStep
<1>4. CASE Reconcile(w)
  <2>1. PICK i \in wk[w].todo :
          /\ IF Recoverable(i) THEN ToCompensating(i) ELSE UNCHANGED jobs
          /\ SetWorker(w, [wk[w] EXCEPT !.todo = @ \ {i},
                                        !.pc = IF wk[w].todo = {i} THEN "idle" ELSE @])
    BY <1>4 DEF Reconcile
  <2>2. i \in Jobs
    BY <1>0 DEF WorkerState
  <2>3. JobsStep
    BY <2>1, <2>2, ToCompensatingStep DEF JobsStep
  <2> DEFINE row == [wk[w] EXCEPT !.todo = @ \ {i},
                                  !.pc = IF wk[w].todo = {i} THEN "idle" ELSE @]
  <2>4. row \in WorkerState /\ row.pc \in {"idle", "reconcile"} /\ row.keeper = wk[w].keeper
    BY <1>0, <1>4 DEF Reconcile, WorkerState, PCs
  <2>5. GoodWorker(row)
    BY <1>0, <1>4, <2>4 DEF Reconcile, GoodWorker
  <2>6. WorkersStep
    BY <2>1, <2>4, <2>5 DEF WorkersStep, Keeps
  <2> QED
    BY <1>4, <2>3, <2>6, QuietStep DEF Reconcile, SmallStep, VersionsStep
<1>5. CASE Crash(w)
  BY <1>5, RestStep, QuietStep DEF Crash, SmallStep, JobsStep, VersionsStep
<1> QED
  BY <1>1, <1>2, <1>3, <1>4, <1>5 DEF Keeping, Discovering

(* A new job; a desire written by an activation. *)
LEMMA OutsideSmall ==
  ASSUME Inv, (\E j \in Jobs : EnqueueJob(j)) \/ (\E v \in Versions : ThirdPartyDesire(v))
  PROVE  SmallStep
<1>1. ASSUME NEW j \in Jobs, EnqueueJob(j) PROVE SmallStep
  <2> DEFINE row == [jobs[j] EXCEPT !.status = "pending"]
  <2>1. /\ row \in JobRow /\ row.status = "pending" /\ row.lease = jobs[j].lease
        /\ row.epoch = jobs[j].epoch
    BY DEF Inv, TypeOK, JobRow
  <2>2. row \in GoodJob
    BY <1>1, <2>1 DEF EnqueueJob, Inv, ClaimedLease, GoodJob
  <2>3. SameJob(j, row)
    BY <2>1 DEF SameJob
  <2>4. JobsStep
    BY <1>1, <2>2, <2>3, RowStep DEF EnqueueJob
  <2> QED
    BY <1>1, <2>4, QuietStep DEF EnqueueJob, SmallStep, VersionsStep, WorkersStep
<1>2. ASSUME NEW v \in Versions, ThirdPartyDesire(v) PROVE SmallStep
  <2> DEFINE row == [versions[v] EXCEPT !.desire = "third_party"]
  <2>1. /\ row \in VersionRow /\ row.op = versions[v].op /\ row.opEpoch = versions[v].opEpoch
        /\ row.opLease = versions[v].opLease /\ row.status = versions[v].status
        /\ row.route = versions[v].route
    BY DEF Inv, TypeOK, VersionRow, Reasons
  <2>2. VersionsStep
    BY <1>2, <2>1, ContentStep DEF ThirdPartyDesire
  <2> QED
    BY <1>2, <2>2, QuietStep DEF ThirdPartyDesire, SmallStep, JobsStep, WorkersStep
<1> QED
  BY <1>1, <1>2

-----------------------------------------------------------------------------
(* A claim starts a new attempt: its epoch is larger than every earlier one. *)
LEMMA ClaimKeepsInv ==
  ASSUME Inv, NEW w \in Workers, NEW j \in Jobs, NEW mode \in {"deploy", "compensate"},
         Claim(w, j, mode)
  PROVE  Inv'
<1> DEFINE row == [jobs[j] EXCEPT !.status = "claimed", !.lease = LeaseTicks, !.worker = w,
                                  !.epoch = @ + 1,
                                  !.step = IF mode = "compensate" THEN Normalized(@) ELSE @]
           new == [Resting EXCEPT !.pc = "claimop", !.job = j, !.mode = mode,
                                  !.epoch = jobs[j].epoch + 1,
                                  !.step = Normalized(jobs[j].step)]
<1>1. SetJob(j, row) /\ SetWorker(w, new) /\ UNCHANGED <<versions, prod, faults, stalls>>
  BY DEF Claim, NoFault
<1>2. jobs[j].epoch \in Nat /\ jobs[j].epoch + 1 \in 1 .. MaxEpoch
  BY BoundsAssumption DEF Claim, Inv, TypeOK, JobRow, Epoch
<1> jobs[j].epoch + 1 \in Epoch
  BY <1>2 DEF Epoch
<1> (IF mode = "compensate" THEN Normalized(jobs[j].step) ELSE jobs[j].step)
      \in CompSteps \cup {"deploy"}
  BY NormalizedIsCompensation DEF Inv, TypeOK, JobRow
<1>3. /\ row \in JobRow /\ row.status = "claimed" /\ row.worker = w
      /\ row.lease = LeaseTicks /\ row.epoch = jobs[j].epoch + 1
  BY Numbers DEF Inv, TypeOK, JobRow
<1>4. /\ new \in WorkerState /\ new.pc = "claimop" /\ new.job = j
      /\ new.epoch = jobs[j].epoch + 1
  <2>1. Resting \in WorkerState /\ "claimop" \in PCs
    BY Numbers DEF Resting, WorkerState, PCs, DeployPCs, Stages, CompSteps
  <2> QED
    BY <2>1, NormalizedIsCompensation DEF WorkerState
<1>5. jobs' \in [Jobs -> JobRow] /\ ClaimedLease'
  BY <1>1, <1>3, Numbers, NullAssumption DEF Inv, TypeOK, ClaimedLease, SetJob
<1>6. \A i \in Jobs : jobs[i].epoch \in Nat /\ jobs'[i].epoch \in Nat
                      /\ jobs'[i].epoch >= jobs[i].epoch
  BY <1>1, <1>2, <1>3, BoundsAssumption DEF Inv, TypeOK, SetJob, JobRow, Epoch
<1>7. OperationFromClaim'
  <2>1. \A v \in Versions : versions[v].op \in Jobs \cup {NoJob} /\ versions[v].opEpoch \in Nat
    BY BoundsAssumption DEF Inv, TypeOK, VersionRow, Epoch
  <2> QED
    BY <1>1, <1>6, <2>1 DEF Inv, OperationFromClaim
<1>8. wk' \in [Workers -> WorkerState] /\ \A u \in Workers : GoodWorker(wk[u])'
  BY <1>1, <1>4 DEF Inv, TypeOK, SetWorker, GoodWorker
<1>9. AttemptsDistinct'
  <2>1. \A u \in Workers : wk[u].epoch \in Nat
    BY BoundsAssumption DEF Inv, TypeOK, WorkerState, Epoch
  <2>2. wk'[w] = new /\ \A u \in Workers \ {w} : wk'[u] = wk[u]
    BY <1>1 DEF Inv, TypeOK, SetWorker
  <2>3. jobs'[j].epoch = jobs[j].epoch + 1
    BY <1>1, <1>3 DEF Inv, TypeOK, SetJob
  <2>4. \A u \in Workers : Running(u)' =>
          wk'[u].job \in Jobs /\ wk'[u].epoch \in 1 .. jobs'[wk'[u].job].epoch
    <3>1. ASSUME NEW u \in Workers \ {w}, Running(u)'
          PROVE  wk'[u].job \in Jobs /\ wk'[u].epoch \in 1 .. jobs'[wk'[u].job].epoch
      <4>1. wk'[u] = wk[u] /\ wk[u].job \in Jobs /\ wk[u].epoch \in 1 .. jobs[wk[u].job].epoch
        BY <2>2, <3>1 DEF Inv, AttemptsDistinct, Running
      <4> QED
        BY <1>6, <2>1, <4>1
    <3>2. wk'[w].job \in Jobs /\ wk'[w].epoch \in 1 .. jobs'[wk'[w].job].epoch
      BY <1>2, <1>4, <2>2, <2>3
    <3> QED
      BY <3>1, <3>2
  <2>5. \A u \in Workers \ {w} : Running(u) /\ wk[u].job = j => wk[u].epoch <= jobs[j].epoch
    BY <1>2, <2>1 DEF Inv, AttemptsDistinct
  <2>6. \A u \in Workers \ {w} : Running(u) /\ wk[u].job = j => wk[u].epoch # new.epoch
    BY <1>2, <1>4, <2>1, <2>5
  <2>7. \A u1, u2 \in Workers : u1 # u2 /\ Running(u1)' /\ Running(u2)' /\ wk'[u1].job = wk'[u2].job
                                  => wk'[u1].epoch # wk'[u2].epoch
    <3>1. \A u \in Workers \ {w} : Running(u)' /\ wk'[u].job = j => wk'[u].epoch # new.epoch
      BY <2>2, <2>6 DEF Running
    <3>2. \A u1, u2 \in Workers \ {w} :
            u1 # u2 /\ Running(u1)' /\ Running(u2)' /\ wk'[u1].job = wk'[u2].job
              => wk'[u1].epoch # wk'[u2].epoch
      BY <2>2 DEF Inv, AttemptsDistinct, Running
    <3>3. wk'[w].job = j /\ wk'[w].epoch = new.epoch
      BY <1>4, <2>2
    <3> HIDE DEF new
    <3> QED
      BY <3>1, <3>2, <3>3
  <2> QED
    BY <2>4, <2>7 DEF AttemptsDistinct
<1>10. AbsentUnclaimed'
  BY <1>1, <1>3 DEF Inv, TypeOK, SetJob, AbsentUnclaimed
<1> QED
  BY <1>1, <1>5, <1>7, <1>8, <1>9, <1>10 DEF Inv, TypeOK

(* Time changes nothing but how much is left of the leases that are set. *)
LEMMA TickKeepsInv ==
  ASSUME Inv, Tick
  PROVE  Inv'
<1>1. \A l \in Lease : Passed(l) \in Lease /\ (Passed(l) = NoLease <=> l = NoLease)
  BY BoundsAssumption DEF Passed, Lease, NoLease
<1>2. \A j \in Jobs : /\ jobs[j] \in JobRow
                      /\ jobs'[j] = [jobs[j] EXCEPT !.lease = Passed(@)]
  BY DEF Tick, Inv, TypeOK
<1>3. \A j \in Jobs : /\ jobs'[j] \in JobRow /\ jobs'[j].status = jobs[j].status
                      /\ jobs'[j].worker = jobs[j].worker /\ jobs'[j].epoch = jobs[j].epoch
                      /\ (jobs'[j].lease = NoLease <=> jobs[j].lease = NoLease)
  <2> TAKE j \in Jobs
  <2>1. jobs[j].lease \in Lease
    BY <1>2 DEF JobRow
  <2>2. Passed(jobs[j].lease) \in Lease
    BY <1>1, <2>1
  <2>3. /\ jobs'[j] \in JobRow /\ jobs'[j].status = jobs[j].status
        /\ jobs'[j].worker = jobs[j].worker /\ jobs'[j].epoch = jobs[j].epoch
        /\ jobs'[j].lease = Passed(jobs[j].lease)
    BY <1>2, <2>2 DEF JobRow
  <2> QED
    BY <1>1, <2>1, <2>3
<1>4. jobs' \in [Jobs -> JobRow] /\ ClaimedLease'
  BY <1>3 DEF Tick, Inv, ClaimedLease
<1>5. \A v \in Versions : /\ versions[v] \in VersionRow
                          /\ versions'[v] = [versions[v] EXCEPT !.opLease = Passed(@)]
  BY DEF Tick, Inv, TypeOK
<1>6. \A v \in Versions :
        /\ versions'[v] \in VersionRow /\ versions'[v].op = versions[v].op
        /\ versions'[v].opEpoch = versions[v].opEpoch
        /\ (versions'[v].opLease = NoLease <=> versions[v].opLease = NoLease)
  <2> TAKE v \in Versions
  <2>1. versions[v].opLease \in Lease
    BY <1>5 DEF VersionRow
  <2>2. Passed(versions[v].opLease) \in Lease
    BY <1>1, <2>1
  <2>3. /\ versions'[v] \in VersionRow /\ versions'[v].op = versions[v].op
        /\ versions'[v].opEpoch = versions[v].opEpoch
        /\ versions'[v].opLease = Passed(versions[v].opLease)
    BY <1>5, <2>2 DEF VersionRow
  <2> QED
    BY <1>1, <2>1, <2>3
<1>7. versions' \in [Versions -> VersionRow]
  BY <1>6 DEF Tick
<1>8. OperationFromClaim'
  BY <1>3, <1>5, <1>6 DEF Inv, OperationFromClaim, VersionRow
<1>9. AttemptsDistinct'
  BY <1>3 DEF Tick, Inv, AttemptsDistinct, Running
<1>10. stalls' \in 0 .. MaxStalls
  BY BoundsAssumption DEF Tick, Inv, TypeOK
<1>11. AbsentUnclaimed'
  BY <1>3 DEF Inv, AbsentUnclaimed
<1> QED
  BY <1>4, <1>7, <1>8, <1>9, <1>10, <1>11 DEF Tick, Inv, TypeOK

-----------------------------------------------------------------------------
LEMMA InitInv == Init => Inv
<1> SUFFICES ASSUME Init PROVE Inv
  OBVIOUS
<1>1. jobs \in [Jobs -> JobRow] /\ ClaimedLease /\ AbsentUnclaimed
  BY Numbers DEF Init, JobRow, CompSteps, ClaimedLease, AbsentUnclaimed
<1>2. versions \in [Versions -> VersionRow] /\ OperationFromClaim
  BY Numbers DEF Init, VersionRow, Reasons, Stages, OperationFromClaim
<1>3. Resting \in WorkerState /\ GoodWorker(Resting) /\ Resting.pc = "idle"
  BY Numbers DEF Resting, WorkerState, PCs, Stages, CompSteps, GoodWorker
<1>4. wk \in [Workers -> WorkerState] /\ \A w \in Workers : GoodWorker(wk[w]) /\ ~Running(w)
  <2> DEFINE rest == Resting
  <2>1. /\ wk = [w \in Workers |-> rest]
        /\ rest \in WorkerState /\ GoodWorker(rest) /\ rest.pc = "idle"
    BY <1>3 DEF Init
  <2> HIDE DEF rest
  <2> QED
    BY <2>1 DEF Running
<1>5. AttemptsDistinct
  BY <1>4 DEF AttemptsDistinct
<1>6. prod \in Versions \cup {NoVersion} /\ faults \in 0 .. MaxFaults /\ stalls \in 0 .. MaxStalls
  <2>1. prod = NoVersion /\ faults = 0 /\ stalls = 0
    BY DEF Init
  <2> QED
    BY <2>1, BoundsAssumption
<1> QED
  BY <1>1, <1>2, <1>4, <1>5, <1>6 DEF Inv, TypeOK

LEMMA StutterInv == Inv /\ UNCHANGED vars => Inv'
  BY DEF vars, Inv, TypeOK, ClaimedLease, OperationFromClaim, AttemptsDistinct, Running,
         AbsentUnclaimed

LEMMA NextInv == Inv /\ [Next]_vars => Inv'
<1> SUFFICES ASSUME Inv, [Next]_vars PROVE Inv'
  OBVIOUS
<1>1. ASSUME NEW w \in Workers, Claiming(w) PROVE Inv'
  BY <1>1, ClaimKeepsInv DEF Claiming, ClaimJob, ClaimCompensatingJob
<1>2. ASSUME NEW w \in Workers, Deploying(w) PROVE Inv'
  BY <1>2, DeployingSmall, SmallStepKeepsInv
<1>3. ASSUME NEW w \in Workers, Failing(w) PROVE Inv'
  BY <1>3, FailingSmall, SmallStepKeepsInv
<1>4. ASSUME NEW w \in Workers, Undoing(w) PROVE Inv'
  BY <1>4, UndoingSmall, SmallStepKeepsInv
<1>5. ASSUME NEW w \in Workers, Keeping(w) \/ Discovering(w) \/ Crash(w) PROVE Inv'
  BY <1>5, BesidesSmall, SmallStepKeepsInv
<1>6. CASE (\E j \in Jobs : EnqueueJob(j)) \/ (\E v \in Versions : ThirdPartyDesire(v))
  BY <1>6, OutsideSmall, SmallStepKeepsInv
<1>7. CASE Tick
  BY <1>7, TickKeepsInv
<1>8. CASE UNCHANGED vars
  BY <1>8, StutterInv
<1> QED
  BY <1>1, <1>2, <1>3, <1>4, <1>5, <1>6, <1>7, <1>8 DEF Next

-----------------------------------------------------------------------------
(* Inv holds in every reachable state, for any number of jobs, versions,     *)
(* workers, claims, faults and stalls.                                      *)
THEOREM Invariance == Spec => []Inv
  BY InitInv, NextInv, PTL DEF Spec

(* A claimed row names its worker and a deadline, the operation of a version *)
(* names a claim that a job of this version made, and the epochs of a job    *)
(* are handed out once (ErrJobClaimedLeaseInvariant never has a cause).      *)
THEOREM ClaimsCorrect == Spec => []ClaimsSound
<1>1. Inv => ClaimsSound
  BY DEF Inv, ClaimsSound
<1> QED
  BY <1>1, Invariance, PTL

(* Two workers that both pass the fence of one version hold its operation,   *)
(* so they work for the same job and the same epoch: they are one worker.   *)
LEMMA InvImpliesFence == Inv => FenceExclusive
<1> SUFFICES ASSUME Inv, NEW w1 \in Workers, NEW w2 \in Workers,
                    w1 # w2, Running(w1), Running(w2), MyVersion(w1) = MyVersion(w2),
                    Owns(wk[w1].job, wk[w1].epoch), Owns(wk[w2].job, wk[w2].epoch)
             PROVE  FALSE
  BY DEF FenceExclusive
<1>1. wk[w1].job = wk[w2].job /\ wk[w1].epoch = wk[w2].epoch
  BY DEF Owns, MyVersion
<1> QED
  BY <1>1 DEF Inv, AttemptsDistinct

(* The deploy operation excludes: at most one worker passes the fence of a   *)
(* version, for any number of workers and whatever leases run out.          *)
THEOREM FenceCorrect == Spec => []FenceExclusive
  BY Invariance, InvImpliesFence, PTL

-----------------------------------------------------------------------------
(* The deploy pipeline implements the lock of AttemptLock.  The mapping is   *)
(* the one of DeployJobs: an attempt owns a version while it passes the      *)
(* fence.  What the refinement needs of a step is how it changes the         *)
(* operations, the claims and the workers that still ask for an operation,   *)
(* and SmallStep has that for every action but a claim and a tick.           *)

(* The worker of the last claim of j has still to ask for the operation. *)
Asks(w, j) == wk[w].pc = "claimop" /\ wk[w].job = j /\ wk[w].epoch = jobs[j].epoch

LEMMA EpochsAreNumbers ==
  ASSUME Inv
  PROVE  /\ \A j \in Jobs : jobs[j].epoch \in Nat
         /\ \A w \in Workers : wk[w].epoch \in Nat
         /\ \A v \in Versions : versions[v].op \in Jobs \cup {NoJob} /\ versions[v].opEpoch \in Nat
  BY BoundsAssumption DEF Inv, TypeOK, JobRow, WorkerState, VersionRow, Epoch

(* A version whose operation is kept, let go or left to expire is owned by   *)
(* who owned it, or by nobody: a claim of a later epoch only outdates it.   *)
LEMMA OwnerKeptOrLost ==
  ASSUME Inv, Inv', NEW v \in Versions,
         \A j \in Jobs : jobs'[j].epoch >= jobs[j].epoch,
         \/ versions'[v].op = NoJob
         \/ /\ versions'[v].op = versions[v].op /\ versions'[v].opEpoch = versions[v].opEpoch
            /\ versions[v].opLease = 0 => versions'[v].opLease = 0
  PROVE  OwnerOf(v)' \in {OwnerOf(v), <<NoJob, 0>>}
<1>1. CASE ~(versions'[v].op # NoJob /\ Owns(versions[v].op, versions[v].opEpoch)')
  BY <1>1 DEF OwnerOf
<1>2. CASE versions'[v].op # NoJob /\ Owns(versions[v].op, versions[v].opEpoch)'
  <2> DEFINE o == versions[v].op
             e == versions[v].opEpoch
  <2>1. /\ versions'[v].op = o /\ versions'[v].opEpoch = e /\ versions[v].opLease # 0
        /\ o \in Jobs /\ VersionOf[o] = v /\ e \in 1 .. jobs[o].epoch /\ jobs'[o].epoch = e
    BY <1>2, EpochsAreNumbers DEF Inv, OperationFromClaim, Owns
  <2>2. jobs[o].epoch = e
    BY <2>1, EpochsAreNumbers
  <2>3. jobs[o].status # "absent"
    BY <2>1, <2>2 DEF Inv, AbsentUnclaimed
  <2>4. Owns(o, e)
    BY <2>1, <2>2, <2>3 DEF Owns
  <2>5. OwnerOf(v) = <<o, e>>
    BY <1>2, <2>1, <2>4 DEF OwnerOf
  <2>6. OwnerOf(v)' = <<o, e>>
    BY <1>2, <2>1 DEF OwnerOf
  <2> QED
    BY <2>5, <2>6
<1> QED
  BY <1>1, <1>2

LEMMA LastByAsks ==
  ASSUME NEW j \in Jobs
  PROVE  /\ (\E w \in Workers : Asks(w, j)) => LastAttempt(j) = jobs[j].epoch - 1
         /\ ~(\E w \in Workers : Asks(w, j)) => LastAttempt(j) = jobs[j].epoch
  BY DEF LastAttempt, Asks

LEMMA NextLastByAsks ==
  ASSUME NEW j \in Jobs
  PROVE  /\ (\E w \in Workers : Asks(w, j)') => LastAttempt(j)' = jobs'[j].epoch - 1
         /\ ~(\E w \in Workers : Asks(w, j)') => LastAttempt(j)' = jobs'[j].epoch
  BY DEF LastAttempt, Asks

LEMMA LastGrows ==
  ASSUME Inv, Inv', NEW j \in Jobs, jobs'[j].epoch >= jobs[j].epoch,
         jobs'[j].epoch = jobs[j].epoch =>
           \A w \in Workers : Asks(w, j)' => Asks(w, j)
  PROVE  LastAttempt(j)' >= LastAttempt(j)
<1>1. jobs[j].epoch \in Nat /\ jobs'[j].epoch \in Nat
  BY EpochsAreNumbers, BoundsAssumption DEF Inv, TypeOK, JobRow, Epoch
<1>2. CASE jobs'[j].epoch = jobs[j].epoch
  BY <1>1, <1>2, LastByAsks, NextLastByAsks
<1>3. CASE jobs'[j].epoch > jobs[j].epoch
  BY <1>1, <1>3, LastByAsks, NextLastByAsks
<1> QED
  BY <1>1, <1>2, <1>3

(* A step that writes no status and no route, and gives nobody an operation. *)
LEMMA HarmlessStepLoses ==
  ASSUME \A v \in Versions : OwnerOf(v)' \in {OwnerOf(v), <<NoJob, 0>>},
         \A j \in Jobs : LastAttempt(j)' >= LastAttempt(j),
         \A v \in Versions : /\ versions'[v].status = versions[v].status
                             /\ versions'[v].route = versions[v].route
  PROVE  Lock!Lose
  BY DEF Lock!Lose

-----------------------------------------------------------------------------
(* Of the steps that are small. *)

LEMMA SmallStepEpochs ==
  ASSUME Inv, SmallStep
  PROVE  \A j \in Jobs : jobs'[j].epoch = jobs[j].epoch
  BY DEF Inv, TypeOK, SmallStep, JobsStep, SetJob, SameJob

LEMMA SmallStepAsks ==
  ASSUME Inv, SmallStep, NEW w \in Workers, NEW j \in Jobs, Asks(w, j)'
  PROVE  Asks(w, j)
  BY SmallStepEpochs DEF Inv, TypeOK, SmallStep, WorkersStep, SetWorker, Keeps, Asks

LEMMA SmallStepRefines ==
  ASSUME Inv, Inv', SmallStep
  PROVE  Lock!Next
<1>0. /\ \A j \in Jobs : jobs'[j].epoch = jobs[j].epoch /\ jobs[j].epoch \in Nat
      /\ \A j \in Jobs : jobs'[j].epoch >= jobs[j].epoch
      /\ \A j \in Jobs : LastAttempt(j)' >= LastAttempt(j)
  BY SmallStepEpochs, SmallStepAsks, EpochsAreNumbers, LastGrows
<1>1. CASE versions' = versions
  <2>1. \A v \in Versions : OwnerOf(v)' \in {OwnerOf(v), <<NoJob, 0>>}
    BY <1>0, <1>1, OwnerKeptOrLost
  <2> QED
    BY <1>0, <1>1, <2>1, HarmlessStepLoses DEF Lock!Next
<1>2. ASSUME NEW v \in Versions, NEW row \in VersionRow, SetVersion(v, row), Harmless(v, row)
      PROVE  Lock!Next
  <2>1. versions'[v] = row /\ \A u \in Versions \ {v} : versions'[u] = versions[u]
    BY <1>2 DEF SetVersion, Inv, TypeOK
  <2>2. \A u \in Versions : OwnerOf(u)' \in {OwnerOf(u), <<NoJob, 0>>}
    BY <1>0, <1>2, <2>1, OwnerKeptOrLost DEF Harmless, SameOp
  <2> QED
    BY <1>0, <1>2, <2>1, <2>2, HarmlessStepLoses DEF Harmless, SameDoc, Lock!Next
<1>3. ASSUME NEW v \in Versions, NEW row \in VersionRow, SetVersion(v, row), Written(v, row)
      PROVE  Lock!Next
  <2>1. PICK w \in Workers : /\ Running(w) /\ wk[w].pc # "claimop" /\ v = MyVersion(w)
                             /\ Owns(wk[w].job, wk[w].epoch) /\ OnlyMoves(w)
    BY <1>3 DEF Written
  <2>2. versions'[v] = row /\ \A u \in Versions \ {v} : versions'[u] = versions[u]
    BY <1>3 DEF SetVersion, Inv, TypeOK
  <2>3. \A u \in Versions : /\ versions'[u].op = versions[u].op
                            /\ versions'[u].opEpoch = versions[u].opEpoch
                            /\ (versions'[u].opLease = 0 <=> versions[u].opLease = 0)
    BY <1>3, <2>2 DEF Written, SameOp
  <2>4. \A u \in Versions : OwnerOf(u)' = OwnerOf(u)
    <3> TAKE u \in Versions
    <3>1. CASE versions[u].op = NoJob
      BY <2>3, <3>1 DEF OwnerOf
    <3>2. CASE versions[u].op # NoJob
      <4>1. VersionOf[versions[u].op] = u
        BY <3>2 DEF Inv, OperationFromClaim
      <4>2. Owns(versions[u].op, versions[u].opEpoch)' <=> Owns(versions[u].op, versions[u].opEpoch)
        BY <2>1, <2>3, <4>1 DEF Owns, OnlyMoves
      <4> QED
        BY <2>3, <4>2 DEF OwnerOf
    <3> QED
      BY <3>1, <3>2
  <2>5. \A j \in Jobs : LastAttempt(j)' = LastAttempt(j)
    <3> TAKE j \in Jobs
    <3>1. \A u \in Workers : Asks(u, j)' <=> Asks(u, j)
      <4>1. \A u \in Workers : Asks(u, j) => Asks(u, j)'
        BY <2>1 DEF OnlyMoves, Asks
      <4> QED
        BY <4>1, SmallStepAsks
    <3> QED
      BY <1>0, <3>1, LastByAsks, NextLastByAsks
  <2>6. OwnerOf(v) # <<NoJob, 0>>
    <3>1. /\ versions[v].op = wk[w].job /\ versions[v].opEpoch = wk[w].epoch /\ wk[w].job \in Jobs
      BY <2>1, MyJob DEF Owns, MyVersion
    <3> QED
      BY <2>1, <3>1, NullAssumption DEF OwnerOf
  <2>7. Lock!Write(v)
    <3>1. \A u \in Versions \ {v} : /\ versions'[u].status = versions[u].status
                                    /\ versions'[u].route = versions[u].route
      BY <2>2
    <3> QED
      BY <2>4, <2>5, <2>6, <3>1 DEF Lock!Write, Lock!Free
  <2> QED
    BY <2>7 DEF Lock!Next
<1>4. ASSUME NEW v \in Versions, NEW row \in VersionRow, SetVersion(v, row), Granted(v, row)
      PROVE  Lock!Next
  <2>1. PICK w \in Workers :
          /\ wk[w].pc = "claimop" /\ wk'[w].pc # "claimop" /\ v = MyVersion(w)
          /\ jobs[wk[w].job].epoch = wk[w].epoch /\ jobs[wk[w].job].status # "absent"
          /\ row.op = wk[w].job /\ row.opEpoch = wk[w].epoch /\ row.opLease # 0
          /\ OnlyMoves(w)
    BY <1>4 DEF Granted
  <2>2. PICK j \in Jobs, e \in Nat :
          /\ j = wk[w].job /\ e = wk[w].epoch /\ e = jobs[j].epoch
          /\ Running(w) /\ VersionOf[j] = v
    BY <2>1, MyJob, EpochsAreNumbers DEF Running, MyVersion
  <2>3. versions'[v] = row /\ \A u \in Versions \ {v} : versions'[u] = versions[u]
    BY <1>4 DEF SetVersion, Inv, TypeOK
  <2>4. OwnerOf(v)' = <<j, e>>
    <3>1. Owns(versions[v].op, versions[v].opEpoch)'
      BY <2>1, <2>2, <2>3 DEF Owns, OnlyMoves
    <3> QED
      BY <2>1, <2>2, <2>3, <3>1, NullAssumption DEF OwnerOf
  <2>5. \A u \in Versions \ {v} : OwnerOf(u)' = OwnerOf(u)
    <3> TAKE u \in Versions \ {v}
    <3>1. CASE versions[u].op = NoJob
      BY <2>3, <3>1 DEF OwnerOf
    <3>2. CASE versions[u].op # NoJob
      <4>1. VersionOf[versions[u].op] = u
        BY <3>2 DEF Inv, OperationFromClaim
      <4>2. Owns(versions[u].op, versions[u].opEpoch)' <=> Owns(versions[u].op, versions[u].opEpoch)
        BY <2>1, <2>3, <4>1 DEF Owns, OnlyMoves
      <4> QED
        BY <2>3, <4>2 DEF OwnerOf
    <3> QED
      BY <3>1, <3>2
  <2>6. LastAttempt(j) = e - 1 /\ LastAttempt(j)' = e
    <3>1. Asks(w, j)
      BY <2>1, <2>2 DEF Asks
    <3>2. \A u \in Workers : ~Asks(u, j)'
      <4> SUFFICES ASSUME NEW u \in Workers, Asks(u, j)' PROVE FALSE
        OBVIOUS
      <4>1. u # w /\ Asks(u, j)
        BY <2>1, <2>2, SmallStepAsks DEF Asks
      <4> QED
        BY <2>1, <2>2, <4>1 DEF Inv, AttemptsDistinct, Running, Asks
    <3> QED
      BY <2>1, <2>2, <1>0, <3>1, <3>2, LastByAsks, NextLastByAsks
  <2>7. \A i \in Jobs \ {j} : LastAttempt(i)' = LastAttempt(i)
    <3> TAKE i \in Jobs \ {j}
    <3>1. \A u \in Workers : Asks(u, i)' <=> Asks(u, i)
      <4>1. \A u \in Workers : Asks(u, i) => Asks(u, i)'
        BY <2>1, <2>2 DEF OnlyMoves, Asks
      <4> QED
        BY <4>1, SmallStepAsks
    <3> QED
      BY <1>0, <3>1, LastByAsks, NextLastByAsks
  <2>8. \A u \in Versions : /\ versions'[u].status = versions[u].status
                            /\ versions'[u].route = versions[u].route
    BY <1>4, <2>3 DEF Granted, SameDoc
  <2>9. Lock!Grant(v, j)
    <3>1. [i \in Jobs |-> LastAttempt(i)]'[j] = e /\ [i \in Jobs |-> LastAttempt(i)][j] = e - 1
      BY <2>2, <2>6
    <3>2. [i \in Jobs |-> LastAttempt(i)]' = [[i \in Jobs |-> LastAttempt(i)] EXCEPT ![j] = e]
      BY <2>2, <2>6, <2>7
    <3>3. [u \in Versions |-> OwnerOf(u)]'
            = [[u \in Versions |-> OwnerOf(u)] EXCEPT ![v] = <<j, e>>]
      BY <2>4, <2>5
    <3>4. e > e - 1
      BY <2>2
    <3>5. [u \in Versions |-> <<versions[u].status, versions[u].route>>]'
            = [u \in Versions |-> <<versions[u].status, versions[u].route>>]
      BY <2>8
    <3> QED
      BY <3>1, <3>2, <3>3, <3>4, <3>5 DEF Lock!Grant
  <2> QED
    BY <2>2, <2>9 DEF Lock!Next
<1> QED
  BY <1>1, <1>2, <1>3, <1>4 DEF SmallStep, VersionsStep

-----------------------------------------------------------------------------
(* A claim: the owner of the job's earlier epoch passes the fence no more.    *)
LEMMA ClaimRefines ==
  ASSUME Inv, Inv', NEW w \in Workers, Claiming(w)
  PROVE  Lock!Next
<1>1. PICK j \in Jobs, mode \in {"deploy", "compensate"} : wk[w].pc = "idle" /\ Claim(w, j, mode)
  BY DEF Claiming, ClaimJob, ClaimCompensatingJob
<1>2. /\ versions' = versions
      /\ jobs'[j].epoch = jobs[j].epoch + 1 /\ jobs[j].epoch \in Nat
      /\ \A i \in Jobs \ {j} : jobs'[i] = jobs[i] /\ jobs[i].epoch \in Nat
      /\ wk'[w].job = j /\ \A u \in Workers \ {w} : wk'[u] = wk[u]
  <2>1. jobs[j].epoch + 1 = jobs'[j].epoch /\ \A i \in Jobs \ {j} : jobs'[i] = jobs[i]
    BY <1>1 DEF Claim, SetJob, Inv, TypeOK, JobRow
  <2>2. wk'[w].job = j /\ \A u \in Workers \ {w} : wk'[u] = wk[u]
    BY <1>1 DEF Claim, SetWorker, Inv, TypeOK, Resting
  <2> QED
    BY <1>1, <2>1, <2>2, EpochsAreNumbers DEF Claim
<1>3. \A i \in Jobs : jobs'[i].epoch >= jobs[i].epoch
  BY <1>2
<1>4. \A v \in Versions : OwnerOf(v)' \in {OwnerOf(v), <<NoJob, 0>>}
  BY <1>2, <1>3, OwnerKeptOrLost
<1>5. \A i \in Jobs : LastAttempt(i)' >= LastAttempt(i)
  <2> TAKE i \in Jobs
  <2>1. jobs'[i].epoch = jobs[i].epoch => \A u \in Workers : Asks(u, i)' => Asks(u, i)
    BY <1>2 DEF Asks
  <2> QED
    BY <1>3, <2>1, LastGrows
<1> QED
  BY <1>2, <1>4, <1>5, HarmlessStepLoses DEF Lock!Next

(* A tick: an operation whose lease passes its deadline is lost. *)
LEMMA TickRefines ==
  ASSUME Inv, Inv', Tick
  PROVE  Lock!Next
<1>1. \A j \in Jobs : jobs'[j].epoch = jobs[j].epoch /\ jobs[j].epoch \in Nat
  BY EpochsAreNumbers DEF Tick, Inv, TypeOK, JobRow
<1>2. \A v \in Versions :
        /\ versions'[v].op = versions[v].op /\ versions'[v].opEpoch = versions[v].opEpoch
        /\ versions[v].opLease = 0 => versions'[v].opLease = 0
        /\ versions'[v].status = versions[v].status /\ versions'[v].route = versions[v].route
  BY DEF Tick, Passed, Inv, TypeOK, VersionRow
<1>3. \A j \in Jobs : jobs'[j].epoch >= jobs[j].epoch
  BY <1>1
<1>4. \A v \in Versions : OwnerOf(v)' \in {OwnerOf(v), <<NoJob, 0>>}
  BY <1>2, <1>3, OwnerKeptOrLost
<1>5. \A j \in Jobs : LastAttempt(j)' >= LastAttempt(j)
  <2> TAKE j \in Jobs
  <2>1. \A u \in Workers : Asks(u, j)' => Asks(u, j)
    BY <1>1 DEF Tick, Asks
  <2> QED
    BY <1>3, <2>1, LastGrows
<1> QED
  BY <1>2, <1>4, <1>5, HarmlessStepLoses DEF Lock!Next

LEMMA StutterRefines ==
  ASSUME UNCHANGED vars
  PROVE  UNCHANGED Lock!lockVars
<1>1. \A v \in Versions : OwnerOf(v)' = OwnerOf(v)
  BY DEF vars, OwnerOf, Owns
<1>2. \A j \in Jobs : LastAttempt(j)' = LastAttempt(j)
  BY DEF vars, LastAttempt
<1> QED
  BY <1>1, <1>2 DEF vars, Lock!lockVars

LEMMA StepRefines == Inv /\ Inv' /\ [Next]_vars => [Lock!Next]_Lock!lockVars
<1> SUFFICES ASSUME Inv, Inv', [Next]_vars PROVE [Lock!Next]_Lock!lockVars
  OBVIOUS
<1>1. ASSUME NEW w \in Workers, Claiming(w) PROVE Lock!Next
  BY <1>1, ClaimRefines
<1>2. ASSUME NEW w \in Workers, Deploying(w) PROVE Lock!Next
  BY <1>2, DeployingSmall, SmallStepRefines
<1>3. ASSUME NEW w \in Workers, Failing(w) PROVE Lock!Next
  BY <1>3, FailingSmall, SmallStepRefines
<1>4. ASSUME NEW w \in Workers, Undoing(w) PROVE Lock!Next
  BY <1>4, UndoingSmall, SmallStepRefines
<1>5. ASSUME NEW w \in Workers, Keeping(w) \/ Discovering(w) \/ Crash(w) PROVE Lock!Next
  BY <1>5, BesidesSmall, SmallStepRefines
<1>6. CASE (\E j \in Jobs : EnqueueJob(j)) \/ (\E v \in Versions : ThirdPartyDesire(v))
  BY <1>6, OutsideSmall, SmallStepRefines
<1>7. CASE Tick
  BY <1>7, TickRefines
<1>8. CASE UNCHANGED vars
  BY <1>8, StutterRefines
<1> QED
  BY <1>1, <1>2, <1>3, <1>4, <1>5, <1>6, <1>7, <1>8 DEF Next

LEMMA InitRefines == Init => Lock!Init
<1> SUFFICES ASSUME Init PROVE Lock!Init
  OBVIOUS
<1>1. \A v \in Versions : /\ OwnerOf(v) = <<NoJob, 0>>
                          /\ versions[v].status = "pending" /\ versions[v].route = "none"
  BY DEF Init, OwnerOf
<1>2. \A j \in Jobs : LastAttempt(j) = 0
  <2>1. \A w \in Workers : wk[w].pc = "idle"
    BY DEF Init, Resting
  <2> QED
    BY <2>1 DEF Init, LastAttempt
<1> QED
  BY <1>1, <1>2 DEF Lock!Init

(* The deploy operation is the lock that AttemptLock specifies: an attempt   *)
(* gets a version at most once, and only its owner writes its status and    *)
(* its route, for any number of workers, claims, crashes and lost leases.   *)
THEOREM LockImplemented == Spec => ImplementsLock
<1>1. Spec => []Inv
  BY Invariance
<1> QED
  BY <1>1, InitRefines, StepRefines, PTL DEF Spec, ImplementsLock, Lock!Spec

-----------------------------------------------------------------------------
(* How a job ends as failed.  A second inductive invariant, UndoInv, follows *)
(* what is left of a deploy on its version: what an attempt, the step of a   *)
(* job's row, or the absence of an operation says is undone, is undone.      *)

(* What the compensation has undone when it stands before a step.  A version *)
(* with two jobs may keep the desire of the one while the other fails.      *)
Cleared(v, step) ==
  /\ step \in {"branch", "release"} => versions[v].route # "active"
  /\ step \in {"route", "branch", "release"} /\ OneJob(v) => versions[v].desire \notin Jobs

Exposed(v) ==
  /\ versions[v].status = "failed"
  /\ \A j \in Jobs : VersionOf[j] = v => jobs[j].status # "completed"

(* Of a worker's row: its claim is the job's last; its version's operation    *)
(* is its job's; it is its own.                                             *)
Current(row) == row.epoch = jobs[row.job].epoch
ForJob(row)  == versions[VersionOf[row.job]].op = row.job
Held(row)    == ForJob(row) /\ versions[VersionOf[row.job]].opEpoch = row.epoch

EarlyPCs == (DeployPCs \cup FailPCs \cup {"busy"}) \ {"claimop"}
Early(row) == row.pc \in EarlyPCs \/ (row.pc = "claimop" /\ row.mode = "deploy")
Serving(row) == \/ row.pc \in {"tail", "bootstrap", "cron", "release"}
                \/ row.pc = "step" /\ row.stage = "ready"
BoundPCs == {"markfailed", "failcheck", "cstart"} \cup CompPCs

Placed(row) ==
  /\ row.stage = "deploy_ready" \/ row.pc = "qualify" => VersionOf[row.job] \in Elastic
  /\ row.pc \in {"cdestroy", "cdestroyed"} => row.step = "branch"

(* Before it writes "failed", the attempt has let go of the operation. *)
LetGo(row) == row.pc \in {"failnow", "cfail", "csuper"} /\ Current(row) => ~ForJob(row)

(* Nobody compensates a job whose last attempt has not begun to. *)
Fresh(row) ==
  Early(row) /\ Current(row) =>
    jobs[row.job].status \in {"claimed", "completed"} /\ jobs[row.job].step = "deploy"

BoundToIt(row) == row.pc \in BoundPCs /\ Current(row) /\ ForJob(row) => Held(row)

ServesUnfailed(row) == Serving(row) /\ Held(row) => versions[VersionOf[row.job]].status # "failed"

Undoes(row) == \/ row.pc \in CompPCs /\ Held(row)
               \/ row.pc = "claimop" /\ row.mode = "compensate" /\ Current(row) /\ ForJob(row)

ClearedBehind(row) ==
  Undoes(row) /\ Exposed(VersionOf[row.job]) => Cleared(VersionOf[row.job], row.step)

GoodRow(row) ==
  /\ Placed(row)
  /\ LetGo(row)
  /\ Fresh(row)
  /\ BoundToIt(row)
  /\ ServesUnfailed(row)
  /\ ClearedBehind(row)

UndoneOfJob(j) ==
  /\ jobs[j].status \in {"absent", "pending"} => jobs[j].step = "deploy"
  /\ versions[VersionOf[j]].op = j /\ Exposed(VersionOf[j])
       => Cleared(VersionOf[j], jobs[j].step)

UndoneOfVersion(v) ==
  /\ versions[v].op = NoJob /\ Exposed(v) => Cleared(v, "release")
  /\ versions[v].desire \in Jobs => v \in Elastic /\ VersionOf[versions[v].desire] = v

UndoInv ==
  /\ FailedHoldsNothing
  /\ \A w \in Workers : Running(w) => GoodRow(wk[w])
  /\ \A j \in Jobs : UndoneOfJob(j)
  /\ \A v \in Versions : UndoneOfVersion(v)

-----------------------------------------------------------------------------
(* What a step may do to the tables. *)

JobsMild(w) ==
  /\ \A j \in Jobs :
       /\ jobs[j].status = "completed" => jobs'[j].status = "completed"
       /\ jobs'[j].status = "failed" =>
            jobs[j].status = "failed" \/ versions[VersionOf[j]].op # j
       /\ jobs'[j].status \in {"absent", "pending"} => jobs'[j].step = "deploy"
       /\ \/ jobs'[j].step \in {jobs[j].step, "deploy", "desire"}
          \/ versions[VersionOf[j]].op = j /\ Exposed(VersionOf[j])
               => Cleared(VersionOf[j], jobs'[j].step)
  /\ \A u \in Workers \ {w} :
       Running(u) /\ Early(wk[u]) /\ Current(wk[u]) =>
         /\ jobs'[wk[u].job].status \in {"claimed", "completed"}
         /\ jobs'[wk[u].job].step = "deploy"

SameHolder(v) == versions'[v].op = versions[v].op /\ versions'[v].opEpoch = versions[v].opEpoch

(* A version stays what it is, or less of the deploy is left on it. *)
Lowered(v) ==
  /\ SameHolder(v)
  /\ versions'[v].status = versions[v].status
  /\ versions'[v].route = "active" => versions[v].route = "active"
  /\ versions'[v].desire \in Jobs => versions'[v].desire = versions[v].desire

(* The owner of the operation deploys, or marks the version failed. *)
Raised(w, v) ==
  /\ w \in Workers /\ Running(w) /\ Early(wk[w]) /\ v = MyVersion(w)
  /\ Owns(wk[w].job, wk[w].epoch)
  /\ SameHolder(v) /\ jobs' = jobs
  /\ versions'[v].desire \in Jobs =>
       \/ versions'[v].desire = versions[v].desire
       \/ versions'[v].desire = wk[w].job /\ v \in Elastic

SameContent(v) ==
  /\ versions'[v].status = versions[v].status /\ versions'[v].route = versions[v].route
  /\ versions'[v].desire = versions[v].desire

LetGoOf(v) ==
  /\ versions'[v].op = NoJob /\ SameContent(v)
  /\ Exposed(v) => Cleared(v, "release")

GrantedTo(w, v) ==
  /\ w \in Workers /\ wk[w].pc = "claimop" /\ v = MyVersion(w) /\ Current(wk[w])
  /\ versions'[v].op = wk[w].job /\ versions'[v].opEpoch = wk[w].epoch
  /\ SameContent(v) /\ jobs' = jobs
  /\ jobs[wk[w].job].status \in {"claimed", "compensating"}
  /\ \/ versions[v].op \in {NoJob, wk[w].job}
     \/ jobs[versions[v].op].status \in {"failed", "completed"}

VersionsMild(w) ==
  \A v \in Versions : Lowered(v) \/ Raised(w, v) \/ LetGoOf(v) \/ GrantedTo(w, v)

OthersRest(w) == \A u \in Workers \ {w} : wk'[u] = wk[u]

-----------------------------------------------------------------------------
LEMMA ClearedAtRelease ==
  ASSUME NEW v, Cleared(v, "release"), NEW step
  PROVE  Cleared(v, step)
  BY DEF Cleared

LEMMA NothingToClear ==
  ASSUME NEW v, NEW step \in {"deploy", "desire"}
  PROVE  Cleared(v, step)
  BY DEF Cleared

(* The last attempt of a job is one worker's. *)
LEMMA OneCurrent ==
  ASSUME Inv, NEW u1 \in Workers, NEW u2 \in Workers, Running(u1), Running(u2),
         wk[u1].job = wk[u2].job, wk[u1].epoch = wk[u2].epoch
  PROVE  u1 = u2
  BY DEF Inv, AttemptsDistinct

LEMMA SameExposure ==
  ASSUME NEW w, JobsMild(w), NEW v, versions'[v].status = versions[v].status, Exposed(v)'
  PROVE  Exposed(v)
  BY DEF JobsMild, Exposed

LEMMA LoweredClears ==
  ASSUME NEW v, NEW step, Cleared(v, step), Lowered(v) \/ SameContent(v)
  PROVE  Cleared(v, step)'
  BY DEF Cleared, Lowered, SameContent, OneJob

(* The tables keep their part of the invariant ... *)
LEMMA MildKeepsTables ==
  ASSUME Inv, UndoInv, NEW w, JobsMild(w), VersionsMild(w)
  PROVE  /\ FailedHoldsNothing'
         /\ \A j \in Jobs : UndoneOfJob(j)'
         /\ \A v \in Versions : UndoneOfVersion(v)'
<1>0. \A j \in Jobs : VersionOf[j] \in Versions
  BY JobsAssumption
<1>1. FailedHoldsNothing'
  <2> SUFFICES ASSUME NEW j \in Jobs, jobs'[j].status = "failed" PROVE versions'[VersionOf[j]].op # j
    BY DEF FailedHoldsNothing
  <2>1. versions[VersionOf[j]].op # j
    BY DEF JobsMild, UndoInv, FailedHoldsNothing
  <2> DEFINE v == VersionOf[j]
  <2>2. CASE Lowered(v) \/ Raised(w, v)
    BY <2>1, <2>2 DEF Lowered, Raised, SameHolder
  <2>3. CASE LetGoOf(v)
    BY <2>3, NullAssumption DEF LetGoOf
  <2>4. CASE GrantedTo(w, v)
    BY <2>4 DEF GrantedTo
  <2> QED
    BY <1>0, <2>2, <2>3, <2>4 DEF VersionsMild
<1>2. ASSUME NEW v \in Versions PROVE UndoneOfVersion(v)'
  <2>1. UndoneOfVersion(v)
    BY DEF UndoInv
  <2>2. CASE Lowered(v)
    <3>1. versions'[v].op = NoJob /\ Exposed(v)' => Cleared(v, "release")'
      BY <2>1, <2>2, SameExposure, LoweredClears DEF Lowered, SameHolder, UndoneOfVersion
    <3> QED
      BY <2>1, <2>2, <3>1 DEF Lowered, UndoneOfVersion
  <2>3. CASE Raised(w, v)
    <3>1. wk[w].job \in Jobs /\ VersionOf[wk[w].job] = v /\ versions'[v].op = wk[w].job
      BY <2>3, MyJob DEF Raised, SameHolder, Owns, MyVersion
    <3> QED
      BY <2>1, <2>3, <3>1, NullAssumption DEF Raised, UndoneOfVersion
  <2>4. CASE LetGoOf(v)
    <3>1. Exposed(v)' => Cleared(v, "release")'
      BY <2>4, SameExposure, LoweredClears DEF LetGoOf, SameContent
    <3> QED
      BY <2>1, <2>4, <3>1 DEF LetGoOf, SameContent, UndoneOfVersion
  <2>5. CASE GrantedTo(w, v)
    <3>1. wk[w].job \in Jobs
      BY <2>5, MyJob DEF GrantedTo, Running
    <3> QED
      BY <2>1, <2>5, <3>1, NullAssumption DEF GrantedTo, SameContent, UndoneOfVersion
  <2> QED
    BY <2>2, <2>3, <2>4, <2>5 DEF VersionsMild
<1>3. ASSUME NEW j \in Jobs PROVE UndoneOfJob(j)'
  <2> DEFINE v == VersionOf[j]
  <2>1. UndoneOfJob(j) /\ UndoneOfVersion(v) /\ v \in Versions
    BY <1>0 DEF UndoInv
  <2>2. jobs'[j].status \in {"absent", "pending"} => jobs'[j].step = "deploy"
    BY DEF JobsMild
  <2> SUFFICES ASSUME versions'[v].op = j, Exposed(v)' PROVE Cleared(v, jobs[j].step)'
    BY <2>2 DEF UndoneOfJob
  <2>3. CASE Lowered(v)
    <3>1. Exposed(v) /\ versions[v].op = j
      BY <2>3, SameExposure DEF Lowered, SameHolder
    <3>2. Cleared(v, jobs[j].step)
      BY <2>1, <3>1 DEF UndoneOfJob
    <3>3. Cleared(v, jobs'[j].step)
      BY <3>1, <3>2, NothingToClear DEF JobsMild
    <3> QED
      BY <2>3, <3>3 DEF Lowered, Cleared, OneJob
  <2>4. CASE Raised(w, v)
    <3>1. wk[w].job = j /\ Current(wk[w])
      BY <2>4 DEF Raised, SameHolder, Owns, MyVersion, Current
    <3>2. jobs'[j].step = "deploy"
      BY <2>4, <3>1 DEF Raised, UndoInv, GoodRow, Fresh
    <3> QED
      BY <3>2 DEF Cleared
  <2>5. CASE LetGoOf(v)
    BY <2>5, NullAssumption DEF LetGoOf
  <2>6. CASE GrantedTo(w, v)
    <3>1. Exposed(v) /\ j = wk[w].job /\ jobs' = jobs
      BY <2>6, SameExposure DEF GrantedTo, SameContent
    <3>2. versions[v].op \in Jobs \cup {NoJob}
      BY <2>1 DEF Inv, TypeOK, VersionRow
    <3>3. versions[v].op \in {NoJob, j}
      <4>1. versions[v].op # NoJob => VersionOf[versions[v].op] = v
        BY <2>1 DEF Inv, OperationFromClaim
      <4> QED
        BY <2>6, <3>1, <3>2, <4>1 DEF GrantedTo, Exposed, UndoInv, FailedHoldsNothing
    <3>4. Cleared(v, jobs[j].step)
      BY <2>1, <3>1, <3>3, ClearedAtRelease DEF UndoneOfJob, UndoneOfVersion
    <3> QED
      BY <2>6, <3>1, <3>4 DEF GrantedTo, SameContent, Cleared, OneJob
  <2> QED
    BY <2>1, <2>3, <2>4, <2>5, <2>6 DEF VersionsMild
<1> QED
  BY <1>1, <1>2, <1>3

(* ... and so do the workers that do not move. *)
LEMMA MildKeepsOthers ==
  ASSUME Inv, UndoInv, SmallStep, NEW w, JobsMild(w), VersionsMild(w), OthersRest(w),
         NEW u \in Workers \ {w}, Running(u)
  PROVE  GoodRow(wk[u])'
<1> DEFINE row == wk[u]
           j == row.job
           v == VersionOf[j]
<1>1. /\ wk'[u] = row /\ GoodRow(row) /\ j \in Jobs /\ v \in Versions
      /\ jobs'[j].epoch = jobs[j].epoch /\ v = MyVersion(u)
  BY MyJob, SmallStepEpochs DEF OthersRest, UndoInv, MyVersion
<1>2. Current(wk[u])' <=> Current(row)
  BY <1>1 DEF Current
<1>3. ASSUME Raised(w, v) PROVE ~Held(row) /\ ~(Current(row) /\ ForJob(row))
  <2>1. Running(w) /\ w # u /\ versions[v].op = wk[w].job /\ versions[v].opEpoch = wk[w].epoch
        /\ jobs[wk[w].job].epoch = wk[w].epoch /\ w \in Workers
    BY <1>1, <1>3 DEF Raised, Owns, MyVersion
  <2> QED
    BY <2>1, OneCurrent DEF Held, ForJob, Current
<1>4. ASSUME GrantedTo(w, v), ForJob(wk[u])' PROVE ~Current(row) /\ ~Held(wk[u])'
  <2>1. Running(w) /\ w # u /\ j = wk[w].job /\ jobs[j].epoch = wk[w].epoch /\ w \in Workers
    BY <1>1, <1>4 DEF GrantedTo, Current, Running, ForJob
  <2>2. versions'[v].opEpoch = wk[w].epoch
    BY <1>4 DEF GrantedTo
  <2> QED
    BY <1>1, <2>1, <2>2, OneCurrent DEF Current, Held
<1>6. ASSUME LetGoOf(v) PROVE ~ForJob(wk[u])'
  BY <1>1, <1>6, NullAssumption DEF LetGoOf, ForJob
<1>7. ASSUME SameHolder(v)
      PROVE  (ForJob(wk[u])' <=> ForJob(row)) /\ (Held(wk[u])' <=> Held(row))
  BY <1>1, <1>7 DEF SameHolder, ForJob, Held
<1>8. Lowered(v) \/ Raised(w, v) \/ LetGoOf(v) \/ GrantedTo(w, v)
  BY <1>1 DEF VersionsMild
<1>9. Lowered(v) \/ Raised(w, v) => SameHolder(v)
  BY DEF Lowered, Raised
<1>10. Placed(wk[u])'
  BY <1>1 DEF GoodRow, Placed
<1>11. LetGo(wk[u])'
  BY <1>1, <1>2, <1>4, <1>6, <1>7, <1>8, <1>9 DEF GoodRow, LetGo
<1>12. Fresh(wk[u])'
  BY <1>1, <1>2 DEF JobsMild, Fresh, Early
<1>13. BoundToIt(wk[u])'
  BY <1>1, <1>2, <1>4, <1>6, <1>7, <1>8, <1>9 DEF GoodRow, BoundToIt
<1>14. ASSUME Held(wk[u])' \/ (Current(wk[u])' /\ ForJob(wk[u])') PROVE Lowered(v) 
  BY <1>1, <1>2, <1>3, <1>4, <1>6, <1>7, <1>8, <1>9, <1>14 DEF Held
<1>15. ServesUnfailed(wk[u])'
  BY <1>1, <1>7, <1>9, <1>14 DEF GoodRow, ServesUnfailed, Serving, Lowered
<1>16. ClearedBehind(wk[u])'
  <2> SUFFICES ASSUME Undoes(wk[u])', Exposed(VersionOf[wk[u].job])'
               PROVE  Cleared(VersionOf[wk[u].job], wk[u].step)'
    BY DEF ClearedBehind
  <2>1. Lowered(v)
    BY <1>14 DEF Undoes
  <2>2. PICK x \in Versions : x = v
    BY <1>1
  <2>3. Exposed(x)'
    BY <1>1, <2>2 DEF Exposed
  <2>4. Exposed(v)
    BY <2>1, <2>2, <2>3, SameExposure DEF Lowered
  <2>5. Undoes(row)
    BY <1>1, <1>2, <1>7, <2>1 DEF Undoes, Lowered
  <2>6. Cleared(v, row.step)
    BY <1>1, <2>4, <2>5 DEF GoodRow, ClearedBehind
  <2> QED
    BY <1>1, <2>1, <2>6 DEF Lowered, Cleared, OneJob
<1> QED
  BY <1>10, <1>11, <1>12, <1>13, <1>15, <1>16 DEF GoodRow

LEMMA MildStep ==
  ASSUME Inv, UndoInv, SmallStep, NEW w, JobsMild(w), VersionsMild(w), OthersRest(w),
         w \in Workers /\ Running(w)' => GoodRow(wk[w])'
  PROVE  UndoInv'
<1>1. ASSUME NEW u \in Workers, Running(u)' PROVE GoodRow(wk[u])'
  <2>1. CASE u = w
    BY <1>1, <2>1
  <2>2. CASE u # w
    BY <1>1, <2>2, MildKeepsOthers DEF OthersRest, Running
  <2> QED
    BY <2>1, <2>2
<1> QED
  BY <1>1, MildKeepsTables DEF UndoInv

LEMMA JobsStay ==
  ASSUME UndoInv, jobs' = jobs, NEW w
  PROVE  JobsMild(w)
  BY DEF UndoInv, UndoneOfJob, GoodRow, Fresh, JobsMild

LEMMA VersionsStay ==
  ASSUME versions' = versions, NEW w
  PROVE  VersionsMild(w)
  BY DEF VersionsMild, Lowered, SameHolder

(* The worker that moves keeps its claim and gets another row. *)
Becomes(w, pc, stage, step) ==
  \E row \in WorkerState :
    /\ SetWorker(w, row)
    /\ row.pc = pc /\ row.stage = stage /\ row.step = step
    /\ row.job = wk[w].job /\ row.epoch = wk[w].epoch /\ row.mode = wk[w].mode

Rests(w) == \E row \in WorkerState : SetWorker(w, row) /\ row.pc \in {"idle", "reconcile"}

MovesWell(w) ==
  \/ wk' = wk /\ (w \in Workers /\ Running(w) => GoodRow(wk[w])')
  \/ Rests(w)
  \/ \E row \in WorkerState : SetWorker(w, row) /\ GoodRow(row)'

LEMMA MoverStep ==
  ASSUME Inv, UndoInv, SmallStep, NEW w, JobsMild(w), VersionsMild(w), MovesWell(w)
  PROVE  UndoInv'
<1>1. CASE wk' = wk /\ (w \in Workers /\ Running(w) => GoodRow(wk[w])')
  BY <1>1, MildStep DEF OthersRest, Running
<1>2. ASSUME NEW row \in WorkerState, SetWorker(w, row),
             row.pc \in {"idle", "reconcile"} \/ GoodRow(row)'
      PROVE  UndoInv'
  <2>1. OthersRest(w) /\ (w \in Workers => wk'[w] = row)
    BY <1>2 DEF SetWorker, OthersRest, Inv, TypeOK
  <2>2. ASSUME w \in Workers, Running(w)' PROVE GoodRow(wk[w])'
    <3>1. wk'[w] = row /\ GoodRow(row)'
      BY <1>2, <2>1, <2>2 DEF Running
    <3> QED
      BY <3>1 DEF GoodRow, Placed, LetGo, Fresh, BoundToIt, ServesUnfailed,
                  ClearedBehind, Undoes, Early, Serving, Current, ForJob, Held, Exposed, Cleared
  <2> QED
    BY <2>1, <2>2, MildStep
<1> QED
  BY <1>1, <1>2 DEF MovesWell, Rests

LEMMA WorkerOnlyStep ==
  ASSUME Inv, UndoInv, SmallStep, NEW w, UNCHANGED <<jobs, versions>>,
         Rests(w) \/ \E row \in WorkerState : SetWorker(w, row) /\ GoodRow(row)
  PROVE  UndoInv'
<1>1. ASSUME NEW row, GoodRow(row) PROVE GoodRow(row)'
  BY <1>1 DEF GoodRow, Placed, LetGo, Fresh, BoundToIt, ServesUnfailed,
         ClearedBehind, Undoes, Early, Serving, Current, ForJob, Held, Exposed, Cleared
<1> QED
  BY <1>1, JobsStay, VersionsStay, MoverStep DEF MovesWell

LEMMA MoverFacts ==
  ASSUME Inv, UndoInv, NEW w \in Workers, Running(w)
  PROVE  /\ wk[w].job \in Jobs /\ MyVersion(w) \in Versions /\ GoodRow(wk[w])
         /\ wk[w] \in WorkerState /\ jobs[wk[w].job] \in JobRow
         /\ versions[MyVersion(w)] \in VersionRow
         /\ MyVersion(w) = VersionOf[wk[w].job]
  BY MyJob DEF MyVersion, UndoInv, Inv, TypeOK

LEMMA Becoming ==
  ASSUME Inv, NEW w \in Workers, NEW pc \in PCs
  PROVE  /\ Go(w, pc) => Becomes(w, pc, wk[w].stage, wk[w].step)
         /\ \A k \in {"off", "on", "half", "lost"} :
              SetWorker(w, [wk[w] EXCEPT !.pc = pc, !.keeper = k])
                => Becomes(w, pc, wk[w].stage, wk[w].step)
         /\ \A stage \in Stages \cup {"deploy_ready", "ready"} :
              SetWorker(w, [wk[w] EXCEPT !.pc = pc, !.stage = stage])
                => Becomes(w, pc, stage, wk[w].step)
         /\ \A step \in CompSteps :
              SetWorker(w, [wk[w] EXCEPT !.pc = pc, !.step = step])
                => Becomes(w, pc, wk[w].stage, step)
<1>0. wk[w] \in WorkerState
  BY DEF Inv, TypeOK
<1>1. ASSUME Go(w, pc) PROVE Becomes(w, pc, wk[w].stage, wk[w].step)
  <2> DEFINE row == [wk[w] EXCEPT !.pc = pc]
  <2>1. /\ row \in WorkerState /\ SetWorker(w, row) /\ row.pc = pc /\ row.stage = wk[w].stage
        /\ row.step = wk[w].step /\ row.job = wk[w].job /\ row.epoch = wk[w].epoch
        /\ row.mode = wk[w].mode
    BY <1>0, <1>1 DEF Go, WorkerState
  <2> QED
    BY <2>1 DEF Becomes
<1>2. ASSUME NEW k \in {"off", "on", "half", "lost"},
             SetWorker(w, [wk[w] EXCEPT !.pc = pc, !.keeper = k])
      PROVE  Becomes(w, pc, wk[w].stage, wk[w].step)
  <2> DEFINE row == [wk[w] EXCEPT !.pc = pc, !.keeper = k]
  <2>1. /\ row \in WorkerState /\ SetWorker(w, row) /\ row.pc = pc /\ row.stage = wk[w].stage
        /\ row.step = wk[w].step /\ row.job = wk[w].job /\ row.epoch = wk[w].epoch
        /\ row.mode = wk[w].mode
    BY <1>0, <1>2 DEF WorkerState
  <2> QED
    BY <2>1 DEF Becomes
<1>3. ASSUME NEW stage \in Stages \cup {"deploy_ready", "ready"},
             SetWorker(w, [wk[w] EXCEPT !.pc = pc, !.stage = stage])
      PROVE  Becomes(w, pc, stage, wk[w].step)
  <2> DEFINE row == [wk[w] EXCEPT !.pc = pc, !.stage = stage]
  <2>1. /\ row \in WorkerState /\ SetWorker(w, row) /\ row.pc = pc /\ row.stage = stage
        /\ row.step = wk[w].step /\ row.job = wk[w].job /\ row.epoch = wk[w].epoch
        /\ row.mode = wk[w].mode
    BY <1>0, <1>3 DEF WorkerState
  <2> QED
    BY <2>1 DEF Becomes
<1>4. ASSUME NEW step \in CompSteps, SetWorker(w, [wk[w] EXCEPT !.pc = pc, !.step = step])
      PROVE  Becomes(w, pc, wk[w].stage, step)
  <2> DEFINE row == [wk[w] EXCEPT !.pc = pc, !.step = step]
  <2>1. /\ row \in WorkerState /\ SetWorker(w, row) /\ row.pc = pc /\ row.stage = wk[w].stage
        /\ row.step = step /\ row.job = wk[w].job /\ row.epoch = wk[w].epoch
        /\ row.mode = wk[w].mode
    BY <1>0, <1>4 DEF WorkerState
  <2> QED
    BY <2>1 DEF Becomes
<1> QED
  BY <1>1, <1>2, <1>3, <1>4

LEMMA RestsRow ==
  ASSUME NEW w \in Workers, Rest(w)
  PROVE  Rests(w)
<1>1. Resting \in WorkerState /\ Resting.pc = "idle"
  BY Numbers DEF Resting, WorkerState, PCs, Stages, CompSteps
<1> QED
  BY <1>1 DEF Rest, Rests

(* A deploy or its failure goes on and writes nothing to the tables. *)
LEMMA EarlyStep ==
  ASSUME Inv, UndoInv, SmallStep, NEW w \in Workers, Running(w), UNCHANGED <<jobs, versions>>,
         Early(wk[w]), NEW pc \in EarlyPCs \ {"failnow", "markfailed", "failcheck", "cstart"},
         \E stage : /\ Becomes(w, pc, stage, wk[w].step)
                    /\ stage = "deploy_ready" \/ pc = "qualify" => MyVersion(w) \in Elastic
                    /\ \/ pc \in {"tail", "bootstrap", "cron"}
                       \/ pc = "step" /\ stage = "ready"
                       => Serving(wk[w])
  PROVE  UndoInv'
<1>1. PICK row \in WorkerState :
        /\ SetWorker(w, row) /\ row.pc = pc
        /\ row.stage = "deploy_ready" \/ pc = "qualify" => MyVersion(w) \in Elastic
        /\ pc \in {"tail", "bootstrap", "cron"} \/ (pc = "step" /\ row.stage = "ready")
             => Serving(wk[w])
        /\ row.job = wk[w].job /\ row.epoch = wk[w].epoch /\ row.mode = wk[w].mode
  BY DEF Becomes
<1>2. GoodRow(wk[w]) /\ MyVersion(w) = VersionOf[wk[w].job]
  BY MoverFacts
<1>3. pc \notin {"failnow", "cfail", "csuper", "release", "claimop", "cdestroy", "cdestroyed"} /\ pc \notin BoundPCs
      /\ pc \notin CompPCs
  BY DEF EarlyPCs, DeployPCs, FailPCs, BoundPCs, CompPCs
<1>4. Placed(row) /\ LetGo(row) /\ BoundToIt(row) /\ ClearedBehind(row)
  BY <1>1, <1>2, <1>3 DEF Placed, LetGo, BoundToIt, ClearedBehind, Undoes
<1>5. Fresh(row)
  BY <1>1, <1>2 DEF GoodRow, Fresh, Current
<1>6. ServesUnfailed(row)
  BY <1>1, <1>2, <1>3 DEF GoodRow, ServesUnfailed, Serving, Held, ForJob
<1> QED
  BY <1>1, <1>4, <1>5, <1>6, WorkerOnlyStep DEF GoodRow

LEMMA StageIsEarly ==
  ASSUME NEW w, wk[w].pc \in DeployPCs, wk[w].pc = "claimop" => wk[w].mode = "deploy"
  PROVE  Running(w) /\ Early(wk[w])
  BY DEF DeployPCs, Running, Early, EarlyPCs

LEMMA DeployingAsideKeepsUndo ==
  ASSUME Inv, UndoInv, SmallStep, NEW w \in Workers,
         \/ StepFails(w) \/ EndStage(w) \/ AssertBeforeFork(w) \/ AssertAfterFork(w)
         \/ BootstrapProd(w) \/ DeployDone(w)
  PROVE  UndoInv'
<1>0. wk[w] \in WorkerState
  BY DEF Inv, TypeOK
<1>1. CASE StepFails(w)
  <2>1. Running(w) /\ Early(wk[w])
    BY <1>1, StageIsEarly DEF StepFails
  <2>2. Becomes(w, "fail", wk[w].stage, wk[w].step)
    BY <1>1, Becoming DEF StepFails, Fail, PCs, FailPCs
  <2>3. wk[w].stage = "deploy_ready" => MyVersion(w) \in Elastic
    BY <2>1, MoverFacts DEF GoodRow, Placed
  <2> QED
    BY <1>1, <2>1, <2>2, <2>3, EarlyStep DEF StepFails, EarlyPCs, FailPCs
<1>2. CASE EndStage(w)
  <2>1. Running(w) /\ Early(wk[w]) /\ wk[w].stage \in Stages
    BY <1>2, StageIsEarly DEF EndStage, DeployPCs, Inv, GoodWorker
  <2>2. CASE wk[w].stage # "deploying"
    <3>1. NextStage[wk[w].stage] \in {"branching", "preparing", "deploying"}
      BY <1>2, <2>1, <2>2 DEF EndStage, NextStage, Stages
    <3>2. Becomes(w, "status", NextStage[wk[w].stage], wk[w].step)
      BY <1>2, <2>2, <3>1, Becoming DEF EndStage, PCs, DeployPCs, Stages
    <3> QED
      BY <1>2, <2>1, <3>1, <3>2, EarlyStep DEF EndStage, EarlyPCs, DeployPCs
  <2>3. CASE wk[w].stage = "deploying" /\ MyVersion(w) \in Elastic
    <3>1. Becomes(w, "status", "deploy_ready", wk[w].step)
      BY <1>2, <2>3, Becoming DEF EndStage, PCs, DeployPCs
    <3> QED
      BY <1>2, <2>1, <2>3, <3>1, EarlyStep DEF EndStage, EarlyPCs, DeployPCs
  <2>4. CASE wk[w].stage = "deploying" /\ MyVersion(w) \notin Elastic
    <3>1. Becomes(w, "route", wk[w].stage, wk[w].step)
      BY <1>2, <2>4, Becoming DEF EndStage, PCs, DeployPCs
    <3>2. "route" \in EarlyPCs \ {"failnow", "markfailed", "failcheck", "cstart"}
      BY DEF EarlyPCs, DeployPCs
    <3>3. UNCHANGED <<jobs, versions>>
      BY <1>2 DEF EndStage
    <3> QED
      BY <2>1, <2>4, <3>1, <3>2, <3>3, EarlyStep
  <2> QED
    BY <2>2, <2>3, <2>4
<1>3. CASE AssertBeforeFork(w)
  <2>1. Running(w) /\ Early(wk[w])
    BY <1>3, StageIsEarly DEF AssertBeforeFork, DeployPCs
  <2>2. Becomes(w, "fork", wk[w].stage, wk[w].step) /\ wk[w].stage = "branching"
    BY <1>3, Becoming DEF AssertBeforeFork, PCs, DeployPCs
  <2> QED
    BY <1>3, <2>1, <2>2, EarlyStep DEF AssertBeforeFork, EarlyPCs, DeployPCs
<1>4. CASE AssertAfterFork(w)
  <2>1. Running(w) /\ Early(wk[w])
    BY <1>4, StageIsEarly DEF AssertAfterFork, DeployPCs
  <2>2. Becomes(w, "status", "preparing", wk[w].step)
    BY <1>4, Becoming DEF AssertAfterFork, PCs, DeployPCs, Stages
  <2> QED
    BY <1>4, <2>1, <2>2, EarlyStep DEF AssertAfterFork, EarlyPCs, DeployPCs
<1>5. CASE BootstrapProd(w)
  <2>1. Running(w) /\ Early(wk[w]) /\ Serving(wk[w])
    BY <1>5, StageIsEarly DEF BootstrapProd, DeployPCs, Serving
  <2>2. Becomes(w, "cron", wk[w].stage, wk[w].step)
    BY <1>5, Becoming DEF BootstrapProd, PCs, DeployPCs
  <2>3. wk[w].stage = "deploy_ready" => MyVersion(w) \in Elastic
    BY <2>1, MoverFacts DEF GoodRow, Placed
  <2>4. "cron" \in EarlyPCs \ {"failnow", "markfailed", "failcheck", "cstart"}
    BY DEF EarlyPCs, DeployPCs
  <2>5. UNCHANGED <<jobs, versions>>
    BY <1>5 DEF BootstrapProd
  <2> QED
    BY <2>1, <2>2, <2>3, <2>4, <2>5, EarlyStep
<1>6. CASE DeployDone(w)
  <2>1. Running(w) /\ Serving(wk[w])
    BY <1>6 DEF DeployDone, Running, Serving
  <2>2. PICK row \in WorkerState :
          /\ SetWorker(w, row) /\ row.pc = "release" /\ row.stage = wk[w].stage
          /\ row.job = wk[w].job /\ row.epoch = wk[w].epoch
    <3>1. Becomes(w, "release", wk[w].stage, wk[w].step)
      BY <1>6, Becoming DEF DeployDone, PCs
    <3> QED
      BY <3>1 DEF Becomes
  <2>3. GoodRow(row)
    BY <2>1, <2>2, MoverFacts
    DEF GoodRow, Placed, LetGo, Fresh, Early, EarlyPCs, DeployPCs, FailPCs, BoundToIt,
        BoundPCs, CompPCs, ServesUnfailed, Serving, Held, ForJob, ClearedBehind, Undoes
  <2> QED
    BY <1>6, <2>2, <2>3, WorkerOnlyStep DEF DeployDone
<1> QED
  BY <1>1, <1>2, <1>3, <1>4, <1>5, <1>6

LEMMA OneVersion ==
  ASSUME Inv, NEW w, NEW v \in Versions, \E row : SetVersion(v, row),
         Lowered(v) \/ Raised(w, v) \/ LetGoOf(v) \/ GrantedTo(w, v)
  PROVE  VersionsMild(w)
<1>1. \A u \in Versions \ {v} : versions'[u] = versions[u]
  BY DEF SetVersion, Inv, TypeOK
<1>2. \A u \in Versions \ {v} : Lowered(u)
  BY <1>1 DEF Lowered, SameHolder
<1> QED
  BY <1>2 DEF VersionsMild

(* The same, for a step that writes to the worker's version. *)
LEMMA EarlyWrite ==
  ASSUME Inv, UndoInv, SmallStep, NEW w \in Workers, Running(w), jobs' = jobs, VersionsMild(w),
         Early(wk[w]), NEW pc \in EarlyPCs \ {"failnow", "markfailed", "failcheck", "cstart"},
         \E stage : /\ Becomes(w, pc, stage, wk[w].step)
                    /\ stage = "deploy_ready" \/ pc = "qualify" => MyVersion(w) \in Elastic
                    /\ \/ pc \in {"tail", "bootstrap", "cron"}
                       \/ pc = "step" /\ stage = "ready"
                       => \/ versions'[MyVersion(w)].status # "failed"
                          \/ Serving(wk[w]) /\ Lowered(MyVersion(w))
  PROVE  UndoInv'
<1>1. PICK row \in WorkerState :
        /\ SetWorker(w, row) /\ row.pc = pc
        /\ row.stage = "deploy_ready" \/ pc = "qualify" => MyVersion(w) \in Elastic
        /\ pc \in {"tail", "bootstrap", "cron"} \/ (pc = "step" /\ row.stage = "ready")
             => \/ versions'[MyVersion(w)].status # "failed"
                \/ Serving(wk[w]) /\ Lowered(MyVersion(w))
        /\ row.job = wk[w].job /\ row.epoch = wk[w].epoch /\ row.mode = wk[w].mode
  BY DEF Becomes
<1>2. GoodRow(wk[w]) /\ MyVersion(w) = VersionOf[row.job]
  BY <1>1, MoverFacts
<1>3. pc \notin {"failnow", "cfail", "csuper", "release", "claimop", "cdestroy", "cdestroyed"} /\ pc \notin BoundPCs
      /\ pc \notin CompPCs
  BY DEF EarlyPCs, DeployPCs, FailPCs, BoundPCs, CompPCs
<1>4. Placed(row)' /\ LetGo(row)' /\ BoundToIt(row)' /\ ClearedBehind(row)'
  BY <1>1, <1>2, <1>3 DEF Placed, LetGo, BoundToIt, ClearedBehind, Undoes
<1>5. Fresh(row)'
  BY <1>1, <1>2 DEF GoodRow, Fresh, Current
<1>6. ServesUnfailed(row)'
  <2>1. Lowered(MyVersion(w)) /\ Held(row)' => Held(wk[w])
    BY <1>1, <1>2 DEF Lowered, SameHolder, Held, ForJob
  <2> QED
    BY <1>1, <1>2, <1>3, <2>1 DEF GoodRow, ServesUnfailed, Serving, Lowered
<1>7. GoodRow(row)'
  BY <1>4, <1>5, <1>6 DEF GoodRow
<1> QED
  BY <1>1, <1>7, JobsStay, MoverStep DEF MovesWell

(* Nobody moves. *)
LEMMA IdleStep ==
  ASSUME Inv, UndoInv, SmallStep, wk' = wk, JobsMild(NoWorker), VersionsMild(NoWorker)
  PROVE  UndoInv'
  BY MoverStep, NullAssumption DEF MovesWell

LEMMA DesireLowered ==
  ASSUME Inv, NEW v \in Versions, NEW desire \in {"idle", "third_party"},
         SetVersion(v, [versions[v] EXCEPT !.desire = desire])
  PROVE  Lowered(v)
<1>1. versions[v] \in VersionRow /\ versions'[v] = [versions[v] EXCEPT !.desire = desire]
  BY DEF SetVersion, Inv, TypeOK
<1> QED
  BY <1>1, ReasonsAssumption DEF Lowered, SameHolder, VersionRow

LEMMA DeployingWritesKeepUndo ==
  ASSUME Inv, UndoInv, SmallStep, NEW w \in Workers,
         \/ WriteStatus(w) \/ Fork(w) \/ Qualify(w) \/ SetRoute(w) \/ FinalizeIdle(w)
         \/ CronResidentDesire(w)
  PROVE  UndoInv'
<1> DEFINE v == MyVersion(w)
<1>0. wk[w] \in WorkerState /\ wk[w].pc \in DeployPCs /\ wk[w].pc # "claimop"
  BY DEF Inv, TypeOK, WriteStatus, Fork, Qualify, SetRoute, FinalizeIdle, CronResidentDesire,
         DeployPCs
<1>1. Running(w) /\ Early(wk[w])
  BY <1>0, StageIsEarly
<1>2. /\ v \in Versions /\ versions[v] \in VersionRow /\ GoodRow(wk[w])
      /\ v = VersionOf[wk[w].job]
  BY <1>1, MoverFacts
<1>3. \A row : SetVersion(v, row) => versions'[v] = row
  BY <1>2 DEF SetVersion, Inv, TypeOK
<1>4. {"step", "forked", "status", "route", "bootstrap"}
        \subseteq EarlyPCs \ {"failnow", "markfailed", "failcheck", "cstart"}
  BY DEF EarlyPCs, DeployPCs
<1>5. {"step", "forked", "status", "route", "bootstrap"} \subseteq PCs
  BY DEF PCs, DeployPCs
<1>6. wk[w].stage = "deploy_ready" => v \in Elastic
  BY <1>2 DEF GoodRow, Placed
<1>7. CASE WriteStatus(w)
  <2>1. /\ SetVersion(v, [versions[v] EXCEPT !.status = wk[w].stage])
        /\ Becomes(w, "step", wk[w].stage, wk[w].step)
        /\ Owns(wk[w].job, wk[w].epoch) /\ jobs' = jobs
    BY <1>5, <1>7, Becoming DEF WriteStatus, Fenced
  <2>2. Raised(w, v) /\ versions'[v].status = wk[w].stage
    BY <1>1, <1>2, <1>3, <2>1 DEF VersionRow, Raised, SameHolder
  <2>3. VersionsMild(w)
    BY <1>2, <2>1, <2>2, OneVersion
  <2> QED
    BY <1>1, <1>4, <1>6, <2>1, <2>2, <2>3, EarlyWrite
<1>8. CASE Fork(w)
  <2>1. CASE SetVersion(v, [versions[v] EXCEPT !.branch = TRUE]) /\ Go(w, "forked")
    <3>1. Becomes(w, "forked", wk[w].stage, wk[w].step) /\ jobs' = jobs
      BY <1>5, <1>8, <2>1, Becoming DEF Fork
    <3>2. Lowered(v)
      BY <1>2, <1>3, <2>1 DEF VersionRow, Lowered, SameHolder
    <3>3. VersionsMild(w)
      BY <1>2, <2>1, <3>2, OneVersion
    <3> QED
      BY <1>1, <1>4, <1>6, <3>1, <3>3, EarlyWrite
  <2>2. CASE /\ SetWorker(w, [wk[w] EXCEPT !.pc = "status", !.stage = "preparing"])
             /\ versions' = versions
    <3>1. Becomes(w, "status", "preparing", wk[w].step) /\ UNCHANGED <<jobs, versions>>
      BY <1>5, <1>8, <2>2, Becoming DEF Fork, Stages
    <3> QED
      BY <1>1, <1>4, <3>1, EarlyStep
  <2> QED
    BY <1>8, <2>1, <2>2 DEF Fork
<1>9. CASE Qualify(w)
  <2>1. /\ SetVersion(v, [versions[v] EXCEPT !.desire = wk[w].job])
        /\ Owns(wk[w].job, wk[w].epoch) /\ jobs' = jobs
    BY <1>9 DEF Qualify, Fenced
  <2>2. v \in Elastic
    BY <1>2, <1>9 DEF Qualify, GoodRow, Placed
  <2>3. Raised(w, v) /\ versions'[v].status = versions[v].status
    BY <1>1, <1>2, <1>3, <2>1, <2>2 DEF VersionRow, Raised, SameHolder
  <2>4. VersionsMild(w)
    BY <1>2, <2>1, <2>3, OneVersion
  <2>5. CASE wk[w].pc = "qualify"
    <3>1. Becomes(w, "route", wk[w].stage, wk[w].step)
      BY <1>5, <1>9, <2>5, Becoming DEF Qualify
    <3> QED
      BY <1>1, <1>4, <1>6, <2>1, <2>4, <3>1, EarlyWrite
  <2>6. CASE wk[w].pc = "work"
    <3>1. wk' = wk
      BY <1>9, <2>6 DEF Qualify
    <3>2. GoodRow(wk[w])'
      BY <1>2, <2>1, <2>6, <3>1
      DEF GoodRow, Placed, LetGo, Fresh, Early, Current, BoundToIt, BoundPCs, CompPCs,
          ServesUnfailed, Serving, ClearedBehind, Undoes
    <3> QED
      BY <2>1, <2>4, <3>1, <3>2, JobsStay, MoverStep DEF MovesWell
  <2> QED
    BY <1>9, <2>5, <2>6 DEF Qualify
<1>10. CASE SetRoute(w)
  <2>1. /\ SetVersion(v, [versions[v] EXCEPT !.route = "active"])
        /\ Becomes(w, "status", "ready", wk[w].step)
        /\ Owns(wk[w].job, wk[w].epoch) /\ jobs' = jobs
    BY <1>5, <1>10, Becoming DEF SetRoute, Fenced
  <2>2. Raised(w, v)
    BY <1>1, <1>2, <1>3, <2>1 DEF VersionRow, Raised, SameHolder
  <2>3. VersionsMild(w)
    BY <1>2, <2>1, <2>2, OneVersion
  <2> QED
    BY <1>1, <1>4, <2>1, <2>3, EarlyWrite
<1>11. CASE FinalizeIdle(w)
  <2>1. Becomes(w, "bootstrap", wk[w].stage, wk[w].step) /\ jobs' = jobs /\ Serving(wk[w])
    BY <1>5, <1>11, Becoming DEF FinalizeIdle, Serving
  <2>2. CASE versions' = versions
    BY <1>1, <1>4, <1>6, <2>1, <2>2, EarlyStep
  <2>3. CASE SetVersion(v, [versions[v] EXCEPT !.desire = "idle"])
    <3>1. Lowered(v)
      BY <1>2, <2>3, DesireLowered
    <3>2. VersionsMild(w)
      BY <1>2, <2>3, <3>1, OneVersion
    <3> QED
      BY <1>1, <1>4, <1>6, <2>1, <3>1, <3>2, EarlyWrite
  <2> QED
    BY <1>11, <2>2, <2>3 DEF FinalizeIdle
<1>12. CASE CronResidentDesire(w)
  <2>1. SetVersion(v, [versions[v] EXCEPT !.desire = "third_party"]) /\ UNCHANGED <<jobs, wk>>
    BY <1>12 DEF CronResidentDesire
  <2>2. Lowered(v)
    BY <1>2, <2>1, DesireLowered
  <2>3. VersionsMild(NoWorker)
    BY <1>2, <2>1, <2>2, OneVersion
  <2> QED
    BY <2>1, <2>3, JobsStay, IdleStep
<1> QED
  BY <1>7, <1>8, <1>9, <1>10, <1>11, <1>12

(* A write to the row of a job by the worker of its last claim ... *)
LEMMA OwnJobWrite ==
  ASSUME Inv, UndoInv, NEW w \in Workers, Running(w), Current(wk[w]),
         NEW j \in Jobs, j = wk[w].job, \E row : SetJob(j, row),
         jobs[j].status = "completed" => jobs'[j].status = "completed",
         jobs'[j].status = "failed" =>
           jobs[j].status = "failed" \/ versions[VersionOf[j]].op # j,
         jobs'[j].status \in {"absent", "pending"} => jobs'[j].step = "deploy",
         \/ jobs'[j].step \in {jobs[j].step, "deploy", "desire"}
         \/ versions[VersionOf[j]].op = j /\ Exposed(VersionOf[j])
              => Cleared(VersionOf[j], jobs'[j].step)
  PROVE  JobsMild(w)
<1>1. \A i \in Jobs \ {j} : jobs'[i] = jobs[i]
  BY DEF SetJob, Inv, TypeOK
<1>2. ASSUME NEW u \in Workers \ {w}, Running(u), Early(wk[u]), Current(wk[u])
      PROVE  /\ jobs'[wk[u].job].status \in {"claimed", "completed"}
             /\ jobs'[wk[u].job].step = "deploy"
  <2>1. wk[u].job # j
    BY <1>2, OneCurrent DEF Current
  <2> QED
    BY <1>1, <1>2, <2>1, MoverFacts DEF GoodRow, Fresh
<1>3. \A i \in Jobs : jobs[i].status \in {"absent", "pending"} => jobs[i].step = "deploy"
  BY DEF UndoInv, UndoneOfJob
<1> QED
  BY <1>1, <1>2, <1>3 DEF JobsMild

(* ... and one by whoever takes himself for that worker. *)
LEMMA AnyJobWrite ==
  ASSUME Inv, UndoInv, NEW w, NEW j \in Jobs, \E row : SetJob(j, row),
         jobs'[j].status \in {jobs[j].status, "completed"},
         jobs'[j].step \in {jobs[j].step, "deploy"}
  PROVE  JobsMild(w)
<1>1. \A i \in Jobs \ {j} : jobs'[i] = jobs[i]
  BY DEF SetJob, Inv, TypeOK
<1>2. \A u \in Workers \ {w} : Running(u) /\ Early(wk[u]) /\ Current(wk[u]) =>
        /\ jobs'[wk[u].job].status \in {"claimed", "completed"}
        /\ jobs'[wk[u].job].step = "deploy"
  BY <1>1, MoverFacts DEF GoodRow, Fresh
<1>3. \A i \in Jobs : jobs[i].status \in {"absent", "pending"} => jobs[i].step = "deploy"
  BY DEF UndoInv, UndoneOfJob
<1> QED
  BY <1>1, <1>2, <1>3 DEF JobsMild

LEMMA SettleRow ==
  ASSUME Inv, NEW j \in Jobs, NEW status, Settle(j, status)
  PROVE  (\E row : SetJob(j, row)) /\ jobs'[j].status = status /\ jobs'[j].step = jobs[j].step
  BY DEF Settle, SetJob, Inv, TypeOK, JobRow

LEMMA ToCompensatingRow ==
  ASSUME Inv, NEW j \in Jobs, ToCompensating(j)
  PROVE  /\ \E row : SetJob(j, row)
         /\ jobs'[j].status = "compensating" /\ jobs'[j].step \in {jobs[j].step, "desire"}
  BY DEF ToCompensating, SetJob, Normalized, Inv, TypeOK, JobRow

LEMMA DeployingJobsKeepUndo ==
  ASSUME Inv, UndoInv, SmallStep, NEW w \in Workers,
         RequeueBusy(w) \/ WriteStep(w) \/ ReleaseOperation(w) \/ CompleteJob(w)
  PROVE  UndoInv'
<1> DEFINE j == wk[w].job
           v == MyVersion(w)
<1>0. Running(w)
  BY DEF RequeueBusy, WriteStep, ReleaseOperation, CompleteJob, Running
<1>1. /\ j \in Jobs /\ v \in Versions /\ GoodRow(wk[w]) /\ wk[w] \in WorkerState
      /\ jobs[j] \in JobRow /\ v = VersionOf[j] /\ versions[v] \in VersionRow
  BY <1>0, MoverFacts
<1>2. CASE RequeueBusy(w)
  <2>1. Rests(w) /\ versions' = versions
    BY <1>2, RestsRow DEF RequeueBusy
  <2>2. CASE Mine(w)
    <3>1. Current(wk[w]) /\ jobs[j].status = "claimed"
      BY <2>2 DEF Mine, Current
    <3>2. jobs[j].step = "deploy"
      BY <1>1, <1>2, <3>1 DEF RequeueBusy, GoodRow, Fresh, Early, EarlyPCs
    <3>3. Settle(j, "pending")
      BY <1>2, <2>2 DEF RequeueBusy
    <3>4. JobsMild(w)
      BY <1>0, <1>1, <3>1, <3>2, <3>3, SettleRow, OwnJobWrite
    <3> QED
      BY <2>1, <3>4, VersionsStay, MoverStep DEF MovesWell
  <2>3. CASE ~Mine(w)
    BY <1>2, <2>1, <2>3, WorkerOnlyStep DEF RequeueBusy
  <2> QED
    BY <2>2, <2>3
<1>3. CASE WriteStep(w)
  <2>1. /\ SetJob(j, [jobs[j] EXCEPT !.step = "deploy"]) /\ versions' = versions
        /\ wk[w].pc = "step"
    BY <1>3 DEF WriteStep
  <2>2. /\ jobs'[j].status = jobs[j].status /\ jobs'[j].step = "deploy"
        /\ jobs'[j].epoch = jobs[j].epoch
    BY <1>1, <2>1 DEF SetJob, Inv, TypeOK, JobRow
  <2>3. JobsMild(w)
    BY <1>1, <2>1, <2>2, AnyJobWrite
  <2>4. PICK row \in WorkerState :
          /\ SetWorker(w, row) /\ row.stage = wk[w].stage /\ row.job = j
          /\ row.epoch = wk[w].epoch
          /\ \/ row.pc = "qualify" /\ row.stage = "deploy_ready"
             \/ row.pc = "tail" /\ row.stage = "ready"
             \/ row.pc = "work"
    <3>1. PICK pc \in {"qualify", "tail", "work"} :
            /\ Go(w, pc)
            /\ pc = "qualify" => wk[w].stage = "deploy_ready"
            /\ pc = "tail" => wk[w].stage = "ready"
      BY <1>3 DEF WriteStep
    <3>2. Becomes(w, pc, wk[w].stage, wk[w].step)
      BY <3>1, Becoming DEF PCs, DeployPCs
    <3> QED
      BY <3>1, <3>2 DEF Becomes
  <2>5. Placed(row)' /\ ServesUnfailed(row)'
    BY <1>1, <2>1, <2>4 DEF GoodRow, Placed, ServesUnfailed, Serving, Held, ForJob
  <2>6. Fresh(row)'
    BY <1>1, <2>1, <2>2, <2>4 DEF GoodRow, Fresh, Early, EarlyPCs, DeployPCs, Current
  <2>7. GoodRow(row)'
    BY <2>4, <2>5, <2>6
    DEF GoodRow, LetGo, BoundToIt, BoundPCs, CompPCs, ClearedBehind, Undoes
  <2> QED
    BY <2>1, <2>3, <2>4, <2>7, VersionsStay, MoverStep DEF MovesWell
<1>4. CASE ReleaseOperation(w)
  <2>1. PICK row \in WorkerState :
          /\ SetWorker(w, row) /\ row.pc = "complete" /\ row.stage = wk[w].stage
          /\ row.job = j /\ row.epoch = wk[w].epoch
    <3>1. Becomes(w, "complete", wk[w].stage, wk[w].step)
      BY <1>4, Becoming DEF ReleaseOperation, PCs
    <3> QED
      BY <3>1 DEF Becomes
  <2>2. GoodRow(row)'
    BY <1>1, <2>1
    DEF GoodRow, Placed, LetGo, Fresh, Early, EarlyPCs, DeployPCs, FailPCs, BoundToIt,
        BoundPCs, CompPCs, ServesUnfailed, Serving, ClearedBehind, Undoes
  <2>3. jobs' = jobs /\ Released(v, j, wk[w].epoch) /\ wk[w].pc = "release"
    BY <1>4 DEF ReleaseOperation
  <2>4. CASE Held(wk[w])
    <3>1. ~Exposed(v)
      BY <1>1, <2>3, <2>4 DEF GoodRow, ServesUnfailed, Serving, Exposed
    <3>2. SetVersion(v, [versions[v] EXCEPT !.op = NoJob, !.opEpoch = 0, !.opLease = NoLease])
      BY <1>1, <2>3, <2>4 DEF Released, Held, ForJob
    <3>3. LetGoOf(v)
      BY <1>1, <3>1, <3>2 DEF SetVersion, Inv, TypeOK, VersionRow, LetGoOf, SameContent
    <3>4. VersionsMild(w)
      BY <1>1, <3>2, <3>3, OneVersion
    <3> QED
      BY <2>1, <2>2, <2>3, <3>4, JobsStay, MoverStep DEF MovesWell
  <2>5. CASE ~Held(wk[w])
    <3>1. versions' = versions
      BY <1>1, <2>3, <2>5 DEF Released, Held, ForJob
    <3> QED
      BY <2>1, <2>2, <2>3, <3>1, JobsStay, VersionsStay, MoverStep DEF MovesWell
  <2> QED
    BY <2>4, <2>5
<1>5. CASE CompleteJob(w)
  <2>1. /\ SetJob(j, [jobs[j] EXCEPT !.status = "completed", !.lease = NoLease])
        /\ Rests(w) /\ versions' = versions
    BY <1>5, RestsRow DEF CompleteJob
  <2>2. jobs'[j].status = "completed" /\ jobs'[j].step = jobs[j].step
    BY <1>1, <2>1 DEF SetJob, Inv, TypeOK, JobRow
  <2>3. JobsMild(w)
    BY <1>1, <2>1, <2>2, AnyJobWrite
  <2> QED
    BY <2>1, <2>3, VersionsStay, MoverStep DEF MovesWell
<1> QED
  BY <1>2, <1>3, <1>4, <1>5

LEMMA ClaimOperationKeepsUndo ==
  ASSUME Inv, UndoInv, SmallStep, NEW w \in Workers, ClaimOperation(w)
  PROVE  UndoInv'
<1> DEFINE j == wk[w].job
           v == MyVersion(w)
<1>0. Running(w) /\ wk[w].pc = "claimop"
  BY DEF ClaimOperation, Running
<1>1. /\ j \in Jobs /\ v \in Versions /\ GoodRow(wk[w]) /\ wk[w] \in WorkerState
      /\ v = VersionOf[j] /\ versions[v] \in VersionRow /\ jobs' = jobs
  BY <1>0, MoverFacts DEF ClaimOperation
<1>2. wk[w].stage = "deploy_ready" => v \in Elastic
  BY <1>1 DEF GoodRow, Placed
<1>3. CASE jobs[j].epoch = wk[w].epoch /\ OperationClaimable(j)
  <2> DEFINE pc == IF wk[w].mode = "deploy" THEN "status" ELSE "ccheck"
  <2>1. /\ SetVersion(v, [versions[v] EXCEPT !.op = j, !.opEpoch = wk[w].epoch,
                                             !.opLease = LeaseTicks])
        /\ SetWorker(w, [wk[w] EXCEPT !.keeper = "on", !.pc = pc])
    BY <1>3 DEF ClaimOperation
  <2>2. PICK row \in WorkerState :
          /\ SetWorker(w, row) /\ row.pc = pc /\ row.stage = wk[w].stage
          /\ row.step = wk[w].step /\ row.job = j /\ row.epoch = wk[w].epoch
          /\ row.mode = wk[w].mode
    <3>1. SetWorker(w, [wk[w] EXCEPT !.pc = pc, !.keeper = "on"])
      BY <1>1, <2>1 DEF SetWorker, WorkerState
    <3>2. pc \in PCs
      BY DEF PCs, DeployPCs, CompPCs
    <3>3. Becomes(w, pc, wk[w].stage, wk[w].step)
      BY <3>1, <3>2, Becoming
    <3> QED
      BY <3>3 DEF Becomes
  <2>3. /\ versions'[v].op = j /\ versions'[v].opEpoch = wk[w].epoch /\ SameContent(v)
        /\ Current(wk[w])
    BY <1>1, <1>3, <2>1 DEF SetVersion, Inv, TypeOK, VersionRow, SameContent, Current
  <2>4. /\ jobs[j].status \in {"claimed", "compensating"}
        /\ versions[v].op \in {NoJob, j} \/ jobs[versions[v].op].status \in {"failed", "completed"}
    BY <1>1, <1>3 DEF OperationClaimable
  <2>5. GrantedTo(w, v)
    BY <1>0, <1>1, <2>3, <2>4 DEF GrantedTo
  <2>6. VersionsMild(w)
    BY <1>1, <2>1, <2>5, OneVersion
  <2>7. JobsMild(w)
    BY <1>1, JobsStay
  <2>8. ASSUME wk[w].mode = "compensate", Exposed(v) PROVE Cleared(v, wk[w].step)
    <3>1. versions[v].op \in {NoJob, j}
      <4>1. versions[v].op \in Jobs \cup {NoJob}
        BY <1>1 DEF VersionRow
      <4>2. versions[v].op # NoJob => VersionOf[versions[v].op] = v
        BY <1>1 DEF Inv, OperationFromClaim
      <4> QED
        BY <2>4, <2>8, <4>1, <4>2 DEF Exposed, UndoInv, FailedHoldsNothing
    <3>2. CASE versions[v].op = NoJob
      BY <1>1, <2>8, <3>2, ClearedAtRelease DEF UndoInv, UndoneOfVersion
    <3>3. CASE versions[v].op = j
      BY <1>0, <1>1, <2>3, <2>8, <3>3 DEF GoodRow, ClearedBehind, Undoes, ForJob
    <3> QED
      BY <3>1, <3>2, <3>3
  <2>9. Fresh(row)'
    BY <1>0, <1>1, <2>2 DEF GoodRow, Fresh, Early, EarlyPCs, DeployPCs, FailPCs, CompPCs, Current
  <2>10. ClearedBehind(row)'
    <3>1. CASE wk[w].mode = "deploy"
      BY <2>2, <3>1 DEF ClearedBehind, Undoes, CompPCs
    <3>2. CASE wk[w].mode = "compensate"
      BY <1>1, <2>2, <2>3, <2>8, <3>2
      DEF ClearedBehind, SameContent, Exposed, Cleared, OneJob
    <3> QED
      BY <1>1, <3>1, <3>2 DEF WorkerState
  <2>11. BoundToIt(row)'
    BY <1>1, <2>2, <2>3 DEF BoundToIt, Held, ForJob
  <2>12. GoodRow(row)'
    BY <1>1, <1>2, <2>2, <2>9, <2>10, <2>11
    DEF GoodRow, Placed, LetGo, ServesUnfailed, Serving
  <2> QED
    BY <2>2, <2>6, <2>7, <2>12, MoverStep DEF MovesWell
<1>4. CASE ~(jobs[j].epoch = wk[w].epoch /\ OperationClaimable(j))
  <2>1. versions' = versions
    BY <1>4 DEF ClaimOperation
  <2>2. CASE wk[w].mode = "compensate"
    <3>1. Becomes(w, "handback", wk[w].stage, wk[w].step)
      BY <1>4, <2>2, Becoming DEF ClaimOperation, PCs
    <3>2. PICK row \in WorkerState :
            /\ SetWorker(w, row) /\ row.pc = "handback" /\ row.stage = wk[w].stage /\ row.job = j
      BY <3>1 DEF Becomes
    <3>3. GoodRow(row)
      BY <1>1, <1>2, <3>2
      DEF GoodRow, Placed, LetGo, Fresh, Early, EarlyPCs, DeployPCs, FailPCs, BoundToIt,
          BoundPCs, CompPCs, ServesUnfailed, Serving, ClearedBehind, Undoes
    <3> QED
      BY <1>1, <2>1, <3>2, <3>3, WorkerOnlyStep
  <2>3. CASE wk[w].mode = "deploy"
    <3>1. PICK pc \in {"fail", "busy"} : Go(w, pc)
      BY <1>4, <2>3 DEF ClaimOperation
    <3>2. Becomes(w, pc, wk[w].stage, wk[w].step)
      BY <3>1, Becoming DEF PCs, FailPCs
    <3>3. pc \in EarlyPCs \ {"failnow", "markfailed", "failcheck", "cstart"}
      BY DEF EarlyPCs, FailPCs
    <3>4. Early(wk[w])
      BY <1>0, <2>3 DEF Early
    <3> QED
      BY <1>0, <1>1, <1>2, <2>1, <3>2, <3>3, <3>4, EarlyStep
  <2> QED
    BY <1>1, <2>2, <2>3 DEF WorkerState
<1> QED
  BY <1>3, <1>4

LEMMA FailingKeepsUndo ==
  ASSUME Inv, UndoInv, SmallStep, NEW w \in Workers, Failing(w)
  PROVE  UndoInv'
<1> DEFINE j == wk[w].job
           v == MyVersion(w)
<1>0. Running(w)
  BY DEF Failing, FinalizeFailure, MarkVersionFailed, AssertAfterFailed, StartCompensation,
         AbortWithoutOperation, FailNow, HandBack, Running
<1>1. /\ j \in Jobs /\ v \in Versions /\ GoodRow(wk[w]) /\ wk[w] \in WorkerState
      /\ v = VersionOf[j] /\ versions[v] \in VersionRow /\ jobs[j] \in JobRow
  BY <1>0, MoverFacts
<1>2. wk[w].stage = "deploy_ready" => v \in Elastic
  BY <1>1 DEF GoodRow, Placed
<1>3. wk[w].pc \in FailPCs => Early(wk[w]) /\ (Current(wk[w]) =>
        jobs[j].status \in {"claimed", "completed"} /\ jobs[j].step = "deploy")
  BY <1>1 DEF FailPCs, Early, EarlyPCs, GoodRow, Fresh
(* The next row of the worker, where only its pc and its keeper change. *)
<1>4. ASSUME NEW pc \in FailPCs, Becomes(w, pc, wk[w].stage, wk[w].step),
             wk[w].pc \in FailPCs, UNCHANGED <<jobs, versions>>,
             pc = "failnow" => ~ForJob(wk[w]),
             pc \in {"markfailed", "failcheck", "cstart"} => Held(wk[w]) \/ wk[w].pc \in BoundPCs
      PROVE  UndoInv'
  <2>1. PICK row \in WorkerState :
          /\ SetWorker(w, row) /\ row.pc = pc /\ row.stage = wk[w].stage
          /\ row.job = j /\ row.epoch = wk[w].epoch /\ row.mode = wk[w].mode
    BY <1>4 DEF Becomes
  <2>2. Fresh(row)
    BY <1>3, <1>4, <2>1 DEF Fresh, Current
  <2>3. LetGo(row) /\ Placed(row)
    BY <1>1, <1>2, <1>4, <2>1 DEF FailPCs, LetGo, Placed, ForJob
  <2>4. BoundToIt(row)
    BY <1>1, <1>4, <2>1 DEF FailPCs, BoundToIt, BoundPCs, CompPCs, GoodRow, Held, ForJob, Current
  <2>5. GoodRow(row)
    BY <2>1, <2>2, <2>3, <2>4
    DEF FailPCs, GoodRow, ServesUnfailed, Serving, ClearedBehind, Undoes, CompPCs
  <2> QED
    BY <1>4, <2>1, <2>5, WorkerOnlyStep
<1>5. CASE FinalizeFailure(w)
  <2>1. CASE Owns(j, wk[w].epoch)
    <3>1. Becomes(w, "markfailed", wk[w].stage, wk[w].step)
      BY <1>5, <2>1, Becoming DEF FinalizeFailure, PCs, FailPCs
    <3>2. Held(wk[w])
      BY <1>1, <2>1 DEF Owns, Held, ForJob
    <3> QED
      BY <1>4, <1>5, <3>1, <3>2 DEF FinalizeFailure, FailPCs
  <2>2. CASE ~Owns(j, wk[w].epoch)
    <3>1. Becomes(w, "aborting", wk[w].stage, wk[w].step)
      BY <1>5, <2>2, Becoming DEF FinalizeFailure, PCs, FailPCs
    <3> QED
      BY <1>4, <1>5, <3>1 DEF FinalizeFailure, FailPCs
  <2> QED
    BY <2>1, <2>2
<1>6. CASE MarkVersionFailed(w)
  <2> DEFINE pc == IF wk[w].pc = "markfailed" THEN "failcheck" ELSE "handback"
  <2>0. wk[w].pc \in {"markfailed", "handoff"} /\ jobs' = jobs
    BY <1>6 DEF MarkVersionFailed
  <2>1. VersionsMild(w) /\ SameHolder(v)
    <3>1. CASE Fenced(w)
      <4>1. SetVersion(v, [versions[v] EXCEPT !.status = "failed"])
        BY <1>6, <3>1 DEF MarkVersionFailed
      <4>2. Raised(w, v)
        BY <1>0, <1>1, <1>3, <2>0, <3>1, <4>1
        DEF SetVersion, Inv, TypeOK, VersionRow, Fenced, Raised, SameHolder, FailPCs
      <4> QED
        BY <1>1, <4>1, <4>2, OneVersion DEF Raised
    <3>2. CASE ~Fenced(w)
      BY <1>6, <3>2, VersionsStay DEF MarkVersionFailed, SameHolder
    <3> QED
      BY <3>1, <3>2
  <2>2. PICK row \in WorkerState :
          /\ SetWorker(w, row) /\ row.pc = pc /\ row.stage = wk[w].stage
          /\ row.job = j /\ row.epoch = wk[w].epoch /\ row.mode = wk[w].mode
    <3>1. Becomes(w, pc, wk[w].stage, wk[w].step)
      BY <1>6, Becoming DEF MarkVersionFailed, PCs, FailPCs
    <3> QED
      BY <3>1 DEF Becomes
  <2>3. Fresh(row)'
    BY <1>3, <2>0, <2>2 DEF Fresh, Current, Early, EarlyPCs, DeployPCs, FailPCs
  <2>4. BoundToIt(row)'
    BY <1>1, <2>0, <2>1, <2>2
    DEF BoundToIt, BoundPCs, CompPCs, GoodRow, Held, ForJob, Current, SameHolder
  <2>5. GoodRow(row)'
    BY <1>1, <1>2, <2>2, <2>3, <2>4
    DEF GoodRow, Placed, LetGo, ServesUnfailed, Serving, ClearedBehind, Undoes, CompPCs
  <2> QED
    BY <2>0, <2>1, <2>2, <2>5, JobsStay, MoverStep DEF MovesWell
<1>7. CASE AssertAfterFailed(w)
  <2>1. PICK pc \in {"cstart", "aborting"} : Go(w, pc)
    BY <1>7 DEF AssertAfterFailed
  <2>2. Becomes(w, pc, wk[w].stage, wk[w].step)
    BY <2>1, Becoming DEF PCs, FailPCs
  <2> QED
    BY <1>4, <1>7, <2>2 DEF AssertAfterFailed, FailPCs, BoundPCs
<1>8. CASE StartCompensation(w)
  <2>1. PersistStep(w, "desire") /\ versions' = versions /\ wk[w].pc = "cstart"
    BY <1>8 DEF StartCompensation
  <2>2. JobsMild(w)
    <3>1. CASE StepWritable(w)
      <4>1. Current(wk[w]) /\ SetJob(j, [jobs[j] EXCEPT !.step = "desire"])
            /\ jobs[j].status = "claimed"
        BY <2>1, <3>1 DEF PersistStep, StepWritable, Mine, Current
      <4>2. jobs'[j].status = jobs[j].status /\ jobs'[j].step = "desire"
        BY <1>1, <4>1 DEF SetJob, Inv, TypeOK, JobRow
      <4> QED
        BY <1>0, <1>1, <4>1, <4>2, OwnJobWrite
    <3>2. CASE ~StepWritable(w)
      BY <2>1, <3>2, JobsStay DEF PersistStep
    <3> QED
      BY <3>1, <3>2
  <2>3. PICK row \in WorkerState :
          /\ SetWorker(w, row) /\ row.pc = "ccheck" /\ row.stage = wk[w].stage
          /\ row.step = "desire" /\ row.job = j /\ row.epoch = wk[w].epoch
    <3>1. Becomes(w, "ccheck", wk[w].stage, "desire")
      BY <1>8, Becoming DEF StartCompensation, PCs, CompPCs, CompSteps
    <3> QED
      BY <3>1 DEF Becomes
  <2>4. jobs'[j].epoch = jobs[j].epoch
    BY <1>1, SmallStepEpochs
  <2>5. BoundToIt(row)'
    BY <1>1, <2>1, <2>3, <2>4 DEF BoundToIt, BoundPCs, GoodRow, Held, ForJob, Current
  <2>6. GoodRow(row)'
    BY <1>1, <1>2, <2>3, <2>5
    DEF GoodRow, Placed, LetGo, Fresh, Early, EarlyPCs, DeployPCs, FailPCs,
        ServesUnfailed, Serving, ClearedBehind, Cleared
  <2> QED
    BY <2>1, <2>2, <2>3, <2>6, VersionsStay, MoverStep DEF MovesWell
<1>9. CASE AbortWithoutOperation(w)
  <2>1. PICK pc \in {"handoff", "failnow"} :
          Go(w, pc) /\ (pc = "failnow" => ~NeedsCompensation(j))
    BY <1>9 DEF AbortWithoutOperation
  <2>2. Becomes(w, pc, wk[w].stage, wk[w].step)
    BY <2>1, Becoming DEF PCs, FailPCs
  <2>3. pc = "failnow" => ~ForJob(wk[w])
    BY <2>1 DEF NeedsCompensation, ForJob
  <2> QED
    BY <1>4, <1>9, <2>2, <2>3 DEF AbortWithoutOperation, FailPCs
<1>10. CASE FailNow(w)
  <2>1. Rests(w) /\ versions' = versions /\ wk[w].pc = "failnow"
    BY <1>10, RestsRow DEF FailNow
  <2>2. JobsMild(w)
    <3>1. CASE Failable(w) /\ Settle(j, "failed")
      <4>1. Current(wk[w]) /\ jobs[j].status \in {"claimed", "compensating"}
        BY <3>1 DEF Failable, Current
      <4>2. versions[VersionOf[j]].op # j
        BY <1>1, <2>1, <4>1 DEF GoodRow, LetGo, ForJob
      <4> QED
        BY <1>0, <1>1, <3>1, <4>1, <4>2, SettleRow, OwnJobWrite
    <3>2. CASE Mine(w) /\ Settle(j, "pending")
      <4>1. Current(wk[w]) /\ jobs[j].status = "claimed"
        BY <3>2 DEF Mine, Current
      <4>2. jobs[j].step = "deploy"
        BY <1>3, <2>1, <4>1 DEF FailPCs
      <4> QED
        BY <1>0, <1>1, <3>2, <4>1, <4>2, SettleRow, OwnJobWrite
    <3>3. CASE jobs' = jobs
      BY <3>3, JobsStay
    <3> QED
      BY <1>10, <3>1, <3>2, <3>3 DEF FailNow
  <2> QED
    BY <2>1, <2>2, VersionsStay, MoverStep DEF MovesWell
<1>11. CASE HandBack(w)
  <2>1. Rests(w) /\ versions' = versions
    BY <1>11, RestsRow DEF HandBack
  <2>2. JobsMild(w)
    <3>1. CASE Mine(w) /\ ToCompensating(j)
      <4>1. Current(wk[w]) /\ jobs[j].status = "claimed"
        BY <3>1 DEF Mine, Current
      <4> QED
        BY <1>0, <1>1, <3>1, <4>1, ToCompensatingRow, OwnJobWrite
    <3>2. CASE jobs' = jobs
      BY <3>2, JobsStay
    <3> QED
      BY <1>11, <3>1, <3>2 DEF HandBack
  <2> QED
    BY <2>1, <2>2, VersionsStay, MoverStep DEF MovesWell
<1> QED
  BY <1>5, <1>6, <1>7, <1>8, <1>9, <1>10, <1>11 DEF Failing

LEMMA UndoingKeepsUndo ==
  ASSUME Inv, UndoInv, SmallStep, NEW w \in Workers, Undoing(w)
  PROVE  UndoInv'
<1>0. Running(w) /\ wk[w].pc \in CompPCs
  BY DEF Undoing, CheckOwnership, CompensateStep, DestroyBranch, DestroyFails, AssertAfterDestroy,
         StepIncomplete, PersistNext, PersistAndHandBack, FailCompensated, FailSuperseded,
         Running, CompPCs
<1>1. PICK j \in Jobs, v \in Versions : j = wk[w].job /\ v = MyVersion(w) /\ v = VersionOf[j]
  BY <1>0, MoverFacts
<1>2. /\ GoodRow(wk[w]) /\ wk[w] \in WorkerState /\ versions[v] \in VersionRow
      /\ jobs[j] \in JobRow /\ jobs'[j].epoch = jobs[j].epoch
  BY <1>0, <1>1, MoverFacts, SmallStepEpochs
<1>3. wk[w].stage = "deploy_ready" => v \in Elastic
  BY <1>1, <1>2 DEF GoodRow, Placed
<1>4. Held(wk[w]) /\ Exposed(v) => Cleared(v, wk[w].step)
  BY <1>0, <1>1, <1>2 DEF GoodRow, ClearedBehind, Undoes
<1>5. Current(wk[w]) /\ ForJob(wk[w]) => Held(wk[w])
  BY <1>0, <1>1, <1>2 DEF GoodRow, BoundToIt, BoundPCs
<1>6. \A row : SetVersion(v, row) => versions'[v] = row
  BY <1>1 DEF SetVersion, Inv, TypeOK
(* The worker goes on compensating. *)
<1>7. ASSUME NEW pc \in CompPCs, NEW step \in CompSteps, Becomes(w, pc, wk[w].stage, step),
             JobsMild(w), VersionsMild(w), SameHolder(v) \/ LetGoOf(v),
             Held(wk[w]) /\ SameHolder(v) /\ Exposed(v)' => Cleared(v, step)',
             pc \in {"cfail", "csuper"} => LetGoOf(v) \/ ~ForJob(wk[w]),
             pc \in {"cdestroy", "cdestroyed"} => step = "branch"
      PROVE  UndoInv'
  <2>1. PICK row \in WorkerState :
          /\ SetWorker(w, row) /\ row.pc = pc /\ row.stage = wk[w].stage /\ row.step = step
          /\ row.job = j /\ row.epoch = wk[w].epoch
    BY <1>1, <1>7 DEF Becomes
  <2>2. LetGoOf(v) => ~ForJob(row)'
    BY <1>1, <2>1, NullAssumption DEF LetGoOf, ForJob
  <2>3. /\ Current(row)' => Current(wk[w])
        /\ SameHolder(v) /\ ForJob(row)' => ForJob(wk[w])
        /\ SameHolder(v) => (Held(row)' <=> Held(wk[w]))
    BY <1>1, <1>2, <2>1 DEF Current, ForJob, Held, SameHolder
  <2>4. LetGo(row)'
    BY <1>1, <1>7, <2>1, <2>2, <2>3 DEF CompPCs, LetGo
  <2>5. BoundToIt(row)'
    BY <1>5, <1>7, <2>1, <2>2, <2>3 DEF BoundToIt
  <2>6. ClearedBehind(row)'
    <3>1. pc # "claimop"
      BY DEF CompPCs
    <3>2. Held(row)' => Held(wk[w]) /\ SameHolder(v)
      BY <1>7, <2>2, <2>3 DEF Held
    <3>3. Undoes(row)' => Held(row)'
      BY <2>1, <3>1 DEF Undoes
    <3> QED
      BY <1>1, <1>7, <2>1, <3>2, <3>3 DEF ClearedBehind
  <2>7. GoodRow(row)'
    BY <1>1, <1>3, <1>7, <2>1, <2>4, <2>5, <2>6
    DEF GoodRow, Placed, Fresh, Early, EarlyPCs, DeployPCs, FailPCs, CompPCs,
        ServesUnfailed, Serving
  <2> QED
    BY <1>7, <2>1, <2>7, MoverStep DEF MovesWell
<1>8. ASSUME NEW pc \in CompPCs, Go(w, pc), UNCHANGED <<jobs, versions>>,
             pc \in {"cfail", "csuper"} => ~ForJob(wk[w]),
             pc \in {"cdestroy", "cdestroyed"} => wk[w].step = "branch"
      PROVE  UndoInv'
  <2>1. PICK step \in CompSteps : step = wk[w].step
    BY <1>2 DEF WorkerState
  <2>2. Becomes(w, pc, wk[w].stage, step)
    BY <1>8, <2>1, Becoming DEF PCs
  <2>3. Exposed(v)' => Exposed(v)
    BY <1>8 DEF Exposed
  <2>4. Cleared(v, step) => Cleared(v, step)'
    BY <1>8 DEF Cleared
  <2>5. SameHolder(v)
    BY <1>8 DEF SameHolder
  <2> QED
    BY <1>4, <1>7, <1>8, <2>1, <2>2, <2>3, <2>4, <2>5, JobsStay, VersionsStay
<1>9. CASE CheckOwnership(w)
  <2>1. PICK pc \in {"cerr", "csuper", "cact"} : Go(w, pc) /\ (pc = "csuper" => Superseded(j))
    BY <1>1, <1>9 DEF CheckOwnership
  <2>2. pc = "csuper" => ~ForJob(wk[w])
    BY <1>1, <2>1 DEF Superseded, ForJob
  <2> QED
    BY <1>8, <1>9, <2>1, <2>2 DEF CheckOwnership, CompPCs
<1>10. CASE CompensateStep(w)
  <2>0. Held(wk[w]) /\ jobs' = jobs /\ JobsMild(w)
    BY <1>1, <1>10, JobsStay DEF CompensateStep, Fenced, Owns, Held, ForJob
  <2>1. CASE wk[w].step = "desire"
    <3>1. /\ SetVersion(v, [versions[v] EXCEPT
                 !.desire = IF v \in Elastic /\ @ = j THEN "deploy_failed" ELSE @])
          /\ Becomes(w, "cpersist", wk[w].stage, "route")
      BY <1>1, <1>10, <2>1, Becoming DEF CompensateStep, Undo, PCs, CompPCs, CompSteps
    <3>2. Lowered(v) /\ (v \in Elastic => versions'[v].desire # j)
      BY <1>2, <1>6, <3>1, ReasonsAssumption DEF VersionRow, Lowered, SameHolder
    <3>3. Cleared(v, "route")'
      <4>1. versions[v].desire \in Jobs => v \in Elastic /\ VersionOf[versions[v].desire] = v
        BY DEF UndoInv, UndoneOfVersion
      <4>2. OneJob(v) => versions'[v].desire \notin Jobs
        BY <1>1, <3>2, <4>1 DEF OneJob, Lowered
      <4> QED
        BY <4>2 DEF Cleared, OneJob
    <3>4. VersionsMild(w)
      BY <3>1, <3>2, OneVersion
    <3> QED
      BY <1>7, <2>0, <3>1, <3>2, <3>3, <3>4 DEF CompPCs, CompSteps, Lowered
  <2>2. CASE wk[w].step = "route"
    <3>1. /\ SetVersion(v, [versions[v] EXCEPT !.route = IF @ = "active" THEN "inactive" ELSE @])
          /\ Becomes(w, "cpersist", wk[w].stage, "branch")
      BY <1>1, <1>10, <2>2, Becoming DEF CompensateStep, Undo, PCs, CompPCs, CompSteps
    <3>2. Lowered(v) /\ versions'[v].route # "active" /\ versions'[v].desire = versions[v].desire
      BY <1>2, <1>6, <3>1 DEF VersionRow, Lowered, SameHolder
    <3>3. Exposed(v)' => Cleared(v, "branch")'
      <4>1. Exposed(v)' => Exposed(v)
        BY <2>0, <3>2, SameExposure DEF Lowered
      <4>2. Exposed(v) => Cleared(v, "route")
        BY <1>4, <2>0, <2>2
      <4> QED
        BY <3>2, <4>1, <4>2 DEF Cleared, OneJob
    <3>4. VersionsMild(w)
      BY <3>1, <3>2, OneVersion
    <3> QED
      BY <1>7, <2>0, <3>1, <3>2, <3>3, <3>4 DEF CompPCs, CompSteps, Lowered
  <2>3. CASE wk[w].step = "branch"
    BY <1>8, <1>10, <2>3 DEF CompensateStep, CompPCs
  <2>4. CASE wk[w].step = "release"
    <3>1. Becomes(w, "cfail", wk[w].stage, "release")
      <4>1. Go(w, "cfail")
        BY <1>10, <2>4 DEF CompensateStep
      <4> QED
        BY <2>4, <4>1, Becoming DEF PCs, CompPCs
    <3>2. SetVersion(v, [versions[v] EXCEPT !.op = NoJob, !.opEpoch = 0, !.opLease = NoLease])
      <4>1. Released(v, j, wk[w].epoch)
        BY <1>1, <1>10, <2>4 DEF CompensateStep
      <4> QED
        BY <1>1, <2>0, <4>1 DEF Released, Held, ForJob
    <3>3. LetGoOf(v)
      BY <1>2, <1>4, <1>6, <2>0, <2>4, <3>2 DEF VersionRow, LetGoOf, SameContent
    <3>4. VersionsMild(w)
      BY <3>2, <3>3, OneVersion
    <3>5. ~SameHolder(v)
      BY <1>1, <2>0, <3>3, NullAssumption DEF LetGoOf, SameHolder, Held, ForJob
    <3> QED
      BY <1>7, <2>0, <3>1, <3>3, <3>4, <3>5 DEF CompPCs, CompSteps
  <2> QED
    BY <1>10, <2>1, <2>2, <2>3, <2>4 DEF CompensateStep
<1>11. CASE DestroyBranch(w)
  <2>1. SetVersion(v, [versions[v] EXCEPT !.branch = FALSE]) /\ Go(w, "cdestroyed") /\ jobs' = jobs
    BY <1>1, <1>11 DEF DestroyBranch
  <2>2. PICK step \in CompSteps : step = wk[w].step
    BY <1>2 DEF WorkerState
  <2>3. Becomes(w, "cdestroyed", wk[w].stage, step)
    BY <2>1, <2>2, Becoming DEF PCs, CompPCs
  <2>4. Lowered(v) /\ SameContent(v) /\ SameHolder(v)
    BY <1>2, <1>6, <2>1 DEF VersionRow, Lowered, SameHolder, SameContent
  <2>5. JobsMild(w) /\ VersionsMild(w)
    BY <2>1, <2>4, JobsStay, OneVersion
  <2>6. Held(wk[w]) /\ Exposed(v)' => Cleared(v, step)'
    BY <1>4, <2>2, <2>4, <2>5, SameExposure, LoweredClears DEF Lowered
  <2>7. step = "branch"
    BY <1>2, <1>11, <2>2 DEF DestroyBranch, GoodRow, Placed
  <2> QED
    BY <1>7, <2>3, <2>4, <2>5, <2>6, <2>7 DEF CompPCs
<1>12. CASE DestroyFails(w)
  BY <1>8, <1>12 DEF DestroyFails, CompPCs
<1>13. CASE AssertAfterDestroy(w)
  <2>1. Becomes(w, "cpersist", wk[w].stage, "release") /\ UNCHANGED <<jobs, versions>>
    BY <1>13, Becoming DEF AssertAfterDestroy, PCs, CompPCs, CompSteps
  <2>2. wk[w].step = "branch"
    BY <1>2, <1>13 DEF AssertAfterDestroy, GoodRow, Placed
  <2>3. Held(wk[w]) /\ Exposed(v)' => Cleared(v, "release")'
    BY <1>4, <2>1, <2>2 DEF Exposed, Cleared
  <2>4. JobsMild(w) /\ VersionsMild(w) /\ SameHolder(v)
    BY <2>1, JobsStay, VersionsStay DEF SameHolder
  <2> QED
    BY <1>7, <2>1, <2>3, <2>4 DEF CompPCs, CompSteps
<1>14. CASE StepIncomplete(w)
  BY <1>8, <1>14 DEF StepIncomplete, CompPCs
<1>15. ASSUME PersistStep(w, wk[w].step), versions' = versions
       PROVE  JobsMild(w)
  <2>1. CASE StepWritable(w)
    <3>1. /\ Current(wk[w]) /\ SetJob(j, [jobs[j] EXCEPT !.step = wk[w].step])
          /\ jobs[j].status = "claimed"
      BY <1>1, <1>15, <2>1 DEF PersistStep, StepWritable, Mine, Current
    <3>2. jobs'[j].status = jobs[j].status /\ jobs'[j].step = wk[w].step
      BY <1>2, <3>1 DEF SetJob, Inv, TypeOK, JobRow
    <3>3. versions[v].op = j /\ Exposed(v) => Cleared(v, jobs'[j].step)
      BY <1>1, <1>4, <1>5, <3>1, <3>2 DEF ForJob
    <3> QED
      BY <1>0, <1>1, <3>1, <3>2, <3>3, OwnJobWrite
  <2>2. CASE ~StepWritable(w)
    BY <1>15, <2>2, JobsStay DEF PersistStep
  <2> QED
    BY <2>1, <2>2
(* The worker is about to hand the job back. *)
<1>16. ASSUME Go(w, "handback"), JobsMild(w), versions' = versions
       PROVE  UndoInv'
  <2>1. Becomes(w, "handback", wk[w].stage, wk[w].step)
    BY <1>16, Becoming DEF PCs
  <2>2. PICK row \in WorkerState :
          /\ SetWorker(w, row) /\ row.pc = "handback" /\ row.stage = wk[w].stage /\ row.job = j
    BY <1>1, <2>1 DEF Becomes
  <2>3. GoodRow(row)'
    BY <1>1, <1>3, <2>2
    DEF GoodRow, Placed, LetGo, Fresh, Early, EarlyPCs, DeployPCs, FailPCs, BoundToIt,
        BoundPCs, CompPCs, ServesUnfailed, Serving, ClearedBehind, Undoes
  <2> QED
    BY <1>16, <2>2, <2>3, VersionsStay, MoverStep DEF MovesWell
<1>17. CASE PersistNext(w)
  <2>1. PersistStep(w, wk[w].step) /\ versions' = versions /\ JobsMild(w) /\ VersionsMild(w)
    BY <1>15, <1>17, VersionsStay DEF PersistNext
  <2>2. CASE ~StepWritable(w)
    BY <1>16, <1>17, <2>1, <2>2 DEF PersistNext
  <2>3. CASE StepWritable(w)
    <3>1. PICK step \in CompSteps : step = wk[w].step
      BY <1>2 DEF WorkerState
    <3>2. Becomes(w, "ccheck", wk[w].stage, step)
      BY <1>17, <2>3, <3>1, Becoming DEF PersistNext, PCs, CompPCs
    <3>3. SameHolder(v) /\ SameContent(v)
      BY <2>1 DEF SameHolder, SameContent
    <3>4. Held(wk[w]) /\ Exposed(v)' => Cleared(v, step)'
      BY <1>4, <2>1, <3>1, <3>3, SameExposure, LoweredClears
    <3> QED
      BY <1>7, <2>1, <3>2, <3>3, <3>4 DEF CompPCs
  <2> QED
    BY <2>2, <2>3
<1>18. CASE PersistAndHandBack(w)
  BY <1>15, <1>16, <1>18 DEF PersistAndHandBack
<1>19. ASSUME Failable(w), Settle(j, "failed"), wk[w].pc \in {"cfail", "csuper"}
       PROVE  JobsMild(w)
  <2>1. Current(wk[w]) /\ jobs[j].status \in {"claimed", "compensating"}
    BY <1>1, <1>19 DEF Failable, Current
  <2>2. versions[VersionOf[j]].op # j
    BY <1>1, <1>2, <1>19, <2>1 DEF GoodRow, LetGo, ForJob
  <2> QED
    BY <1>0, <1>1, <1>19, <2>1, <2>2, SettleRow, OwnJobWrite
<1>20. CASE FailCompensated(w)
  <2>1. CASE Failable(w)
    BY <1>1, <1>19, <1>20, <2>1, RestsRow, VersionsStay, MoverStep DEF FailCompensated, MovesWell
  <2>2. CASE ~Failable(w)
    BY <1>8, <1>20, <2>2 DEF FailCompensated, CompPCs
  <2> QED
    BY <2>1, <2>2
<1>21. CASE FailSuperseded(w)
  <2>1. Rests(w) /\ versions' = versions
    BY <1>21, RestsRow DEF FailSuperseded
  <2>2. JobsMild(w)
    BY <1>1, <1>19, <1>21, JobsStay DEF FailSuperseded
  <2> QED
    BY <2>1, <2>2, VersionsStay, MoverStep DEF MovesWell
<1> QED
  BY <1>9, <1>10, <1>11, <1>12, <1>13, <1>14, <1>17, <1>18, <1>20, <1>21 DEF Undoing

(* Leases and keepers: the invariant does not see them. *)
LEMMA LeasesOnly ==
  ASSUME Inv, UndoInv,
         \A j \in Jobs : /\ jobs'[j].status = jobs[j].status /\ jobs'[j].step = jobs[j].step
                         /\ jobs'[j].epoch = jobs[j].epoch,
         \A v \in Versions : SameHolder(v) /\ SameContent(v),
         \A u \in Workers : Running(u)' =>
           /\ Running(u) /\ wk'[u].pc = wk[u].pc /\ wk'[u].mode = wk[u].mode
           /\ wk'[u].job = wk[u].job /\ wk'[u].epoch = wk[u].epoch
           /\ wk'[u].stage = wk[u].stage /\ wk'[u].step = wk[u].step
  PROVE  UndoInv'
<1>1. \A v \in Versions : Exposed(v)' <=> Exposed(v)
  BY DEF SameContent, Exposed
<1>2. FailedHoldsNothing'
  BY JobsAssumption DEF UndoInv, FailedHoldsNothing, SameHolder
<1>3. \A v \in Versions : UndoneOfVersion(v)'
  BY <1>1 DEF UndoInv, UndoneOfVersion, SameHolder, SameContent, Cleared, OneJob
<1>4. \A j \in Jobs : UndoneOfJob(j)'
  BY <1>1, JobsAssumption DEF UndoInv, UndoneOfJob, SameHolder, SameContent, Cleared, OneJob
<1>5. ASSUME NEW u \in Workers, Running(u)' PROVE GoodRow(wk[u])'
  <2>1. PICK j \in Jobs, v \in Versions : j = wk[u].job /\ v = VersionOf[j]
    BY <1>5, MyJob DEF MyVersion
  <2>2. GoodRow(wk[u]) /\ wk'[u].job = j
    BY <1>5, <2>1 DEF UndoInv
  <2>3. /\ Current(wk[u])' <=> Current(wk[u])
        /\ ForJob(wk[u])' <=> ForJob(wk[u])
        /\ Held(wk[u])' <=> Held(wk[u])
    BY <1>5, <2>1, <2>2 DEF Current, ForJob, Held, SameHolder
  <2>4. Placed(wk[u])' /\ LetGo(wk[u])' /\ BoundToIt(wk[u])'
    BY <1>5, <2>1, <2>2, <2>3 DEF GoodRow, Placed, LetGo, BoundToIt
  <2>5. Fresh(wk[u])'
    BY <1>5, <2>1, <2>2, <2>3 DEF GoodRow, Fresh, Early
  <2>6. ServesUnfailed(wk[u])'
    BY <1>5, <2>1, <2>2, <2>3 DEF GoodRow, ServesUnfailed, Serving, SameContent
  <2>7. ClearedBehind(wk[u])'
    <3> SUFFICES ASSUME Undoes(wk[u])', Exposed(v)' PROVE Cleared(v, wk[u].step)'
      BY <2>1, <2>2 DEF ClearedBehind, Exposed, Cleared, OneJob
    <3>1. Undoes(wk[u]) /\ Exposed(v)
      BY <1>1, <1>5, <2>3 DEF Undoes
    <3>2. Cleared(v, wk[u].step)
      BY <2>1, <2>2, <3>1 DEF GoodRow, ClearedBehind
    <3> QED
      BY <1>5, <3>2 DEF Cleared, OneJob, SameContent
  <2> QED
    BY <2>4, <2>5, <2>6, <2>7 DEF GoodRow
<1> QED
  BY <1>2, <1>3, <1>4, <1>5 DEF UndoInv

LEMMA BesidesKeepUndo ==
  ASSUME Inv, UndoInv, SmallStep, NEW w \in Workers, Keeping(w) \/ Discovering(w) \/ Crash(w)
  PROVE  UndoInv'
<1>0. wk[w] \in WorkerState /\ GoodWorker(wk[w])
  BY DEF Inv, TypeOK
<1>1. ASSUME NEW k \in {"on", "half", "lost"}, SetWorker(w, [wk[w] EXCEPT !.keeper = k])
      PROVE  \A u \in Workers :
               /\ Running(u)' => Running(u)
               /\ wk'[u].pc = wk[u].pc /\ wk'[u].mode = wk[u].mode
               /\ wk'[u].job = wk[u].job /\ wk'[u].epoch = wk[u].epoch
               /\ wk'[u].stage = wk[u].stage /\ wk'[u].step = wk[u].step
  BY <1>0, <1>1 DEF SetWorker, Inv, TypeOK, WorkerState, Running
<1>2. CASE RenewJobLease(w)
  <2>1. PICK k \in {"half", "lost"} : SetWorker(w, [wk[w] EXCEPT !.keeper = k])
    BY <1>2 DEF RenewJobLease
  <2>2. \A j \in Jobs : /\ jobs'[j].status = jobs[j].status /\ jobs'[j].step = jobs[j].step
                        /\ jobs'[j].epoch = jobs[j].epoch
    BY <1>2 DEF RenewJobLease, SetJob, Inv, TypeOK, JobRow
  <2>3. \A v \in Versions : SameHolder(v) /\ SameContent(v)
    BY <1>2 DEF RenewJobLease, SameHolder, SameContent
  <2> QED
    BY <1>1, <2>1, <2>2, <2>3, LeasesOnly
<1>3. CASE RenewOperation(w)
  <2>1. PICK k \in {"on", "lost"} : SetWorker(w, [wk[w] EXCEPT !.keeper = k])
    BY <1>3 DEF RenewOperation
  <2>2. \A v \in Versions : SameHolder(v) /\ SameContent(v)
    BY <1>3 DEF RenewOperation, SetVersion, Inv, TypeOK, VersionRow, SameHolder, SameContent
  <2>3. jobs' = jobs
    BY <1>3 DEF RenewOperation
  <2> QED
    BY <1>1, <2>1, <2>2, <2>3, LeasesOnly
<1>4. CASE Discover(w)
  <2> DEFINE row == [wk[w] EXCEPT !.pc = "reconcile", !.todo = {i \in Jobs : LeftBehind(i)}]
  <2>1. row \in WorkerState /\ row.pc = "reconcile"
    BY <1>0 DEF WorkerState, PCs
  <2>2. Rests(w)
    BY <1>4, <2>1 DEF Discover, Rests
  <2> QED
    BY <1>4, <2>2, WorkerOnlyStep DEF Discover
<1>5. CASE Reconcile(w)
  <2>1. PICK i \in wk[w].todo :
          /\ IF Recoverable(i) THEN ToCompensating(i) ELSE UNCHANGED jobs
          /\ SetWorker(w, [wk[w] EXCEPT !.todo = @ \ {i},
                                        !.pc = IF wk[w].todo = {i} THEN "idle" ELSE @])
    BY <1>5 DEF Reconcile
  <2> DEFINE row == [wk[w] EXCEPT !.todo = @ \ {i},
                                  !.pc = IF wk[w].todo = {i} THEN "idle" ELSE @]
  <2>2. i \in Jobs /\ row \in WorkerState /\ row.pc \in {"idle", "reconcile"}
    BY <1>0, <1>5 DEF Reconcile, WorkerState, PCs
  <2>3. Rests(w) /\ versions' = versions
    BY <1>5, <2>1, <2>2 DEF Reconcile, Rests
  <2>4. JobsMild(w)
    <3>1. CASE Recoverable(i) /\ ToCompensating(i)
      <4>1. /\ \A k \in Jobs \ {i} : jobs'[k] = jobs[k]
            /\ jobs'[i].status = "compensating" /\ jobs'[i].step \in {jobs[i].step, "desire"}
        BY <2>2, <3>1, ToCompensatingRow DEF SetJob, Inv, TypeOK
      <4>2. /\ jobs[i].status # "completed"
            /\ ~(jobs[i].status \in {"claimed", "completed"} /\ jobs[i].step = "deploy")
        BY <3>1 DEF Recoverable, CompSteps
      <4>3. \A u \in Workers : Running(u) /\ Early(wk[u]) /\ Current(wk[u]) =>
              /\ wk[u].job # i
              /\ wk[u].job \in Jobs /\ jobs[wk[u].job].status \in {"claimed", "completed"}
              /\ jobs[wk[u].job].step = "deploy"
        BY <4>2, MoverFacts DEF GoodRow, Fresh
      <4>4. \A k \in Jobs : jobs[k].status \in {"absent", "pending"} => jobs[k].step = "deploy"
        BY DEF UndoInv, UndoneOfJob
      <4> QED
        BY <4>1, <4>2, <4>3, <4>4 DEF JobsMild
    <3>2. CASE jobs' = jobs
      BY <3>2, JobsStay
    <3> QED
      BY <2>1, <3>1, <3>2
  <2> QED
    BY <2>3, <2>4, VersionsStay, MoverStep DEF MovesWell
<1>6. CASE Crash(w)
  BY <1>6, RestsRow, WorkerOnlyStep DEF Crash
<1> QED
  BY <1>2, <1>3, <1>4, <1>5, <1>6 DEF Keeping, Discovering

LEMMA OutsideKeepsUndo ==
  ASSUME Inv, UndoInv, SmallStep,
         (\E j \in Jobs : EnqueueJob(j)) \/ (\E v \in Versions : ThirdPartyDesire(v))
  PROVE  UndoInv'
<1>1. ASSUME NEW j \in Jobs, EnqueueJob(j) PROVE UndoInv'
  <2>1. /\ jobs[j].status = "absent" /\ SetJob(j, [jobs[j] EXCEPT !.status = "pending"])
        /\ UNCHANGED <<versions, wk>>
    BY <1>1 DEF EnqueueJob
  <2>2. /\ \A k \in Jobs \ {j} : jobs'[k] = jobs[k]
        /\ jobs'[j].status = "pending" /\ jobs'[j].step = jobs[j].step
    BY <2>1 DEF SetJob, Inv, TypeOK, JobRow
  <2>3. \A k \in Jobs : jobs[k].status \in {"absent", "pending"} => jobs[k].step = "deploy"
    BY DEF UndoInv, UndoneOfJob
  <2>4. \A u \in Workers : Running(u) /\ Early(wk[u]) /\ Current(wk[u]) =>
          /\ wk[u].job # j
          /\ wk[u].job \in Jobs /\ jobs[wk[u].job].status \in {"claimed", "completed"}
          /\ jobs[wk[u].job].step = "deploy"
    BY <2>1, MoverFacts DEF GoodRow, Fresh
  <2>5. JobsMild(NoWorker)
    BY <2>1, <2>2, <2>3, <2>4 DEF JobsMild
  <2> QED
    BY <2>1, <2>5, VersionsStay, IdleStep
<1>2. ASSUME NEW v \in Versions, ThirdPartyDesire(v) PROVE UndoInv'
  <2>1. SetVersion(v, [versions[v] EXCEPT !.desire = "third_party"]) /\ UNCHANGED <<jobs, wk>>
    BY <1>2 DEF ThirdPartyDesire
  <2>2. VersionsMild(NoWorker)
    BY <2>1, DesireLowered, OneVersion
  <2> QED
    BY <2>1, <2>2, JobsStay, IdleStep
<1> QED
  BY <1>1, <1>2

(* A claim makes the earlier attempts of the job stale and starts a new one. *)
LEMMA ClaimKeepsUndo ==
  ASSUME Inv, Inv', UndoInv, NEW w \in Workers, Claiming(w)
  PROVE  UndoInv'
<1>1. PICK j \in Jobs, mode \in {"deploy", "compensate"} :
        /\ wk[w].pc = "idle" /\ Claim(w, j, mode)
        /\ mode = "deploy" => JobClaimable(j)
        /\ mode = "compensate" => CompensationClaimable(j)
  BY DEF Claiming, ClaimJob, ClaimCompensatingJob
<1> DEFINE step == IF mode = "compensate" THEN Normalized(jobs[j].step) ELSE jobs[j].step
<1>2. /\ versions' = versions
      /\ jobs'[j].status = "claimed" /\ jobs'[j].step = step
      /\ jobs'[j].epoch = jobs[j].epoch + 1
      /\ \A i \in Jobs \ {j} : jobs'[i] = jobs[i]
  BY <1>1 DEF Claim, SetJob, Inv, TypeOK, JobRow
<1>3. /\ wk'[w].pc = "claimop" /\ wk'[w].job = j /\ wk'[w].mode = mode
      /\ wk'[w].stage = "fetching" /\ wk'[w].step = Normalized(jobs[j].step)
      /\ \A u \in Workers \ {w} : wk'[u] = wk[u]
  BY <1>1 DEF Claim, SetWorker, Inv, TypeOK, Resting
<1>4. jobs[j].status # "completed" /\ jobs[j].step \in CompSteps \cup {"deploy"}
  BY <1>1 DEF JobClaimable, CompensationClaimable, Inv, TypeOK, JobRow
<1>5. \A v \in Versions : Exposed(v)' <=> Exposed(v)
  BY <1>2, <1>4 DEF Exposed
<1>6. FailedHoldsNothing' /\ \A v \in Versions : UndoneOfVersion(v)'
  BY <1>2, <1>5 DEF UndoInv, FailedHoldsNothing, UndoneOfVersion, Cleared, OneJob
<1>7. step \in {jobs[j].step, "desire"} /\ Normalized(jobs[j].step) \in {jobs[j].step, "desire"}
  BY DEF Normalized
<1>8. \A i \in Jobs : UndoneOfJob(i)'
  <2>1. \A i \in Jobs : UndoneOfJob(i) /\ VersionOf[i] \in Versions
    BY JobsAssumption DEF UndoInv
  <2>2. \A i \in Jobs \ {j} : UndoneOfJob(i)'
    BY <1>2, <1>5, <2>1 DEF UndoneOfJob, Cleared, OneJob
  <2>3. UndoneOfJob(j)'
    BY <1>2, <1>5, <1>7, <2>1 DEF UndoneOfJob, Cleared, OneJob
  <2> QED
    BY <2>2, <2>3
<1>9. ASSUME NEW u \in Workers \ {w}, Running(u)' PROVE GoodRow(wk[u])'
  <2>1. wk'[u] = wk[u] /\ Running(u) /\ GoodRow(wk[u])
    BY <1>3, <1>9 DEF Running, UndoInv
  <2>2. PICK i \in Jobs, v \in Versions : i = wk[u].job /\ v = VersionOf[i]
    BY <2>1, MyJob DEF MyVersion
  <2>3. Current(wk[u])' => Current(wk[u]) /\ i # j
    <3>1. CASE i = j
      <4>1. wk[u].epoch \in 1 .. jobs[j].epoch
        BY <2>1, <2>2, <3>1 DEF Inv, AttemptsDistinct
      <4>2. wk[u].epoch \in Nat /\ jobs[j].epoch \in Nat
        BY EpochsAreNumbers
      <4>3. wk[u].epoch # jobs'[j].epoch
        BY <1>2, <4>1, <4>2
      <4> QED
        BY <2>1, <2>2, <3>1, <4>3 DEF Current
    <3>2. CASE i # j
      BY <1>2, <2>1, <2>2, <3>2 DEF Current
    <3> QED
      BY <3>1, <3>2
  <2>4. (ForJob(wk[u])' <=> ForJob(wk[u])) /\ (Held(wk[u])' <=> Held(wk[u]))
    BY <1>2, <2>1 DEF ForJob, Held
  <2>5. Placed(wk[u])' /\ LetGo(wk[u])' /\ BoundToIt(wk[u])'
    BY <2>1, <2>3, <2>4 DEF GoodRow, Placed, LetGo, BoundToIt
  <2>6. Fresh(wk[u])'
    BY <1>2, <2>1, <2>2, <2>3 DEF GoodRow, Fresh, Early
  <2>7. ServesUnfailed(wk[u])'
    BY <1>2, <2>1, <2>4 DEF GoodRow, ServesUnfailed, Serving
  <2>8. ClearedBehind(wk[u])'
    <3> SUFFICES ASSUME Undoes(wk[u])', Exposed(v)' PROVE Cleared(v, wk[u].step)'
      BY <2>1, <2>2 DEF ClearedBehind, Exposed, Cleared, OneJob
    <3>1. Undoes(wk[u]) /\ Exposed(v)
      BY <1>5, <2>1, <2>3, <2>4 DEF Undoes
    <3>2. Cleared(v, wk[u].step)
      BY <2>2, <2>1, <3>1 DEF GoodRow, ClearedBehind
    <3> QED
      BY <1>2, <2>1, <3>2 DEF Cleared, OneJob
  <2> QED
    BY <2>5, <2>6, <2>7, <2>8 DEF GoodRow
<1>10. GoodRow(wk[w])'
  <2> DEFINE v == VersionOf[j]
  <2>1. Fresh(wk[w])'
    <3>1. mode = "deploy" => jobs[j].step = "deploy"
      <4>1. jobs[j].status = "pending" => jobs[j].step = "deploy"
        BY DEF UndoInv, UndoneOfJob
      <4> QED
        BY <1>1, <1>4, <4>1 DEF JobClaimable
    <3> QED
      BY <1>2, <1>3, <3>1 DEF Fresh, Early, EarlyPCs
  <2>2. ClearedBehind(wk[w])'
    <3> SUFFICES ASSUME versions[v].op = j, Exposed(v) PROVE Cleared(v, Normalized(jobs[j].step))
      <4>1. v \in Versions
        BY JobsAssumption
      <4>2. Undoes(wk[w])' => versions[v].op = j
        BY <1>2, <1>3 DEF Undoes, ForJob, CompPCs
      <4>3. Exposed(VersionOf[wk[w].job])' <=> Exposed(v)
        BY <1>3, <1>5, <4>1 DEF Exposed
      <4>4. Cleared(v, Normalized(jobs[j].step)) => Cleared(VersionOf[wk[w].job], wk[w].step)'
        BY <1>2, <1>3 DEF Cleared, OneJob
      <4> QED
        BY <4>2, <4>3, <4>4 DEF ClearedBehind
    <3>1. Cleared(v, jobs[j].step)
      BY DEF UndoInv, UndoneOfJob
    <3> QED
      BY <1>7, <3>1 DEF Cleared
  <2> QED
    BY <1>3, <2>1, <2>2
    DEF GoodRow, Placed, LetGo, BoundToIt, BoundPCs, CompPCs, ServesUnfailed, Serving
<1> QED
  BY <1>6, <1>8, <1>9, <1>10 DEF UndoInv

LEMMA TickKeepsUndo ==
  ASSUME Inv, UndoInv, Tick
  PROVE  UndoInv'
<1>1. \A j \in Jobs : /\ jobs'[j].status = jobs[j].status /\ jobs'[j].step = jobs[j].step
                      /\ jobs'[j].epoch = jobs[j].epoch
  BY DEF Tick, Inv, TypeOK, JobRow
<1>2. \A v \in Versions : SameHolder(v) /\ SameContent(v)
  BY DEF Tick, Inv, TypeOK, VersionRow, SameHolder, SameContent
<1>3. wk' = wk
  BY DEF Tick
<1> QED
  BY <1>1, <1>2, <1>3, LeasesOnly DEF Running

LEMMA InitUndo == Init => UndoInv
<1> SUFFICES ASSUME Init PROVE UndoInv
  OBVIOUS
<1>1. \A w \in Workers : ~Running(w)
  <2>1. \A w \in Workers : wk[w].pc = "idle"
    BY DEF Init, Resting
  <2> QED
    BY <2>1 DEF Running
<1>2. \A j \in Jobs : jobs[j].status = "absent" /\ jobs[j].step = "deploy"
  BY DEF Init
<1>3. \A v \in Versions : versions[v].status = "pending" /\ versions[v].desire = "none"
  BY DEF Init
<1> QED
  BY <1>1, <1>2, <1>3, ReasonsAssumption, JobsAssumption
  DEF UndoInv, FailedHoldsNothing, UndoneOfJob, UndoneOfVersion, Exposed

LEMMA NextUndo == Inv /\ Inv' /\ UndoInv /\ [Next]_vars => UndoInv'
<1> SUFFICES ASSUME Inv, Inv', UndoInv, [Next]_vars PROVE UndoInv'
  OBVIOUS
<1>1. ASSUME NEW w \in Workers, Claiming(w) PROVE UndoInv'
  BY <1>1, ClaimKeepsUndo
<1>2. ASSUME NEW w \in Workers, Deploying(w) PROVE UndoInv'
  <2>1. SmallStep
    BY <1>2, DeployingSmall
  <2> QED
    BY <1>2, <2>1, DeployingAsideKeepsUndo, DeployingWritesKeepUndo, DeployingJobsKeepUndo,
       ClaimOperationKeepsUndo DEF Deploying
<1>3. ASSUME NEW w \in Workers, Failing(w) PROVE UndoInv'
  BY <1>3, FailingSmall, FailingKeepsUndo
<1>4. ASSUME NEW w \in Workers, Undoing(w) PROVE UndoInv'
  BY <1>4, UndoingSmall, UndoingKeepsUndo
<1>5. ASSUME NEW w \in Workers, Keeping(w) \/ Discovering(w) \/ Crash(w) PROVE UndoInv'
  BY <1>5, BesidesSmall, BesidesKeepUndo
<1>6. CASE (\E j \in Jobs : EnqueueJob(j)) \/ (\E v \in Versions : ThirdPartyDesire(v))
  BY <1>6, OutsideSmall, OutsideKeepsUndo
<1>7. CASE Tick
  BY <1>7, TickKeepsUndo
<1>8. CASE UNCHANGED vars
  BY <1>8, LeasesOnly DEF vars, SameHolder, SameContent, Running
<1> QED
  BY <1>1, <1>2, <1>3, <1>4, <1>5, <1>6, <1>7, <1>8 DEF Next

LEMMA UndoInvariance == Spec => [](Inv /\ UndoInv)
  BY InitInv, NextInv, InitUndo, NextUndo, PTL DEF Spec

(* A job that failed, on whatever path it ended, does not hold the operation *)
(* of its version: no failed deploy blocks the next one.                    *)
THEOREM FailedLetGo == Spec => []FailedHoldsNothing
<1>1. UndoInv => FailedHoldsNothing
  BY DEF UndoInv
<1> QED
  BY <1>1, UndoInvariance, PTL

LEMMA UndoneWhenFailed == Inv /\ UndoInv => FailedDeployUndone
<1> SUFFICES ASSUME Inv, UndoInv, NEW v \in Versions, versions[v].status = "failed",
                    \A j \in Jobs : VersionOf[j] = v => jobs[j].status = "failed"
             PROVE  /\ versions[v].route # "active"
                    /\ OneJob(v) => versions[v].desire \notin Jobs
  BY DEF FailedDeployUndone
<1>1. versions[v].op = NoJob
  <2>1. versions[v].op \in Jobs \cup {NoJob}
    BY DEF Inv, TypeOK, VersionRow
  <2> QED
    BY <2>1 DEF Inv, OperationFromClaim, UndoInv, FailedHoldsNothing
<1>2. Exposed(v)
  BY DEF Exposed
<1> QED
  BY <1>1, <1>2 DEF UndoInv, UndoneOfVersion, Cleared

(* When every deploy of a failed version has failed, its route is not active *)
(* and the desire of its job is gone, for any number of workers, crashes,   *)
(* lost leases and stale workers.                                           *)
THEOREM FailureUndone == Spec => []FailedDeployUndone
  BY UndoInvariance, UndoneWhenFailed, PTL

-----------------------------------------------------------------------------
(* Where no worker loses a lease while it runs (MaxStalls = 0), more can be  *)
(* said: a third invariant, CalmInv.  A running worker's claim is its own     *)
(* and its lease runs, so no two work for one job; from the operation it is   *)
(* granted to the one it releases, the operation's lease runs too.  So what   *)
(* a worker does to its version outside the fence is not disturbed either.   *)

(* The places between the grant of the operation and its release. *)
HoldingPCs == {"status", "step", "work", "fork", "forked", "qualify", "route", "tail",
               "bootstrap", "cron", "release", "markfailed", "failcheck", "cstart",
               "ccheck", "cact", "cdestroy", "cdestroyed", "cpersist"}

(* The version's operation is the attempt's, and its lease runs. *)
Leased(row) == Held(row) /\ versions[VersionOf[row.job]].opLease > 0

(* What is known of the version while the attempt that holds it goes on. *)
NoBranchLeft(v) == versions[v].status = "failed" => ~versions[v].branch
Serves(v)       == versions[v].status = "ready" /\ versions[v].route = "active"

(* A deploy serves once it has its route, and before it is completed. *)
RouteFirst(row) ==
  LET v == VersionOf[row.job] IN
  /\ row.pc = "claimop" => row.stage = "fetching"
  /\ row.pc = "status" /\ row.stage = "ready" => versions[v].route = "active"
  /\ row.pc = "step" => /\ versions[v].status = row.stage
                        /\ row.stage = "ready" => versions[v].route = "active"
  /\ row.pc \in {"tail", "bootstrap", "cron", "release"} => Serves(v)
  /\ row.pc = "complete" => ~ForJob(row) /\ (OneJob(v) => Serves(v))

(* The compensation of a failed version destroys the branch before the release. *)
BranchFirst(row) ==
  \/ row.pc = "cdestroyed"
  \/ row.pc \in {"ccheck", "cact", "cpersist", "cerr"} /\ row.step = "release" /\ ForJob(row)
  => NoBranchLeft(VersionOf[row.job])

CalmWorker(w) ==
  /\ Mine(w) /\ jobs[wk[w].job].lease > 0
  /\ wk[w].pc \in HoldingPCs => Leased(wk[w])
  /\ wk[w].pc = "claimop" /\ wk[w].mode = "compensate" => jobs[wk[w].job].step = wk[w].step
  /\ RouteFirst(wk[w])
  /\ BranchFirst(wk[w])

CalmJob(j) ==
  LET v == VersionOf[j] IN
  /\ jobs[j].status = "compensating" => jobs[j].step \in CompSteps
  /\ jobs[j].status = "completed" => versions[v].op # j /\ (OneJob(v) => Serves(v))
  /\ jobs[j].step = "release" /\ versions[v].op = j => NoBranchLeft(v)

CalmVersion(v) == versions[v].op = NoJob => NoBranchLeft(v)

CalmInv ==
  /\ \A w \in Workers : Running(w) => CalmWorker(w)
  /\ \A j \in Jobs : CalmJob(j)
  /\ \A v \in Versions : CalmVersion(v)

-----------------------------------------------------------------------------
LEMMA CalmFacts ==
  ASSUME Inv, UndoInv, CalmInv, NEW w \in Workers, Running(w)
  PROVE  /\ wk[w].job \in Jobs /\ MyVersion(w) \in Versions /\ wk[w] \in WorkerState
         /\ MyVersion(w) = VersionOf[wk[w].job]
         /\ jobs[wk[w].job] \in JobRow /\ versions[MyVersion(w)] \in VersionRow
         /\ jobs[wk[w].job].status = "claimed" /\ jobs[wk[w].job].worker = w
         /\ jobs[wk[w].job].epoch = wk[w].epoch /\ jobs[wk[w].job].lease > 0
         /\ Current(wk[w]) /\ GoodRow(wk[w]) /\ CalmWorker(w)
         /\ Early(wk[w]) => jobs[wk[w].job].step = "deploy"
<1>1. CalmWorker(w)
  BY DEF CalmInv
<1>2. Current(wk[w]) /\ GoodRow(wk[w])
  BY <1>1, MoverFacts DEF CalmWorker, Mine, Current
<1> QED
  BY <1>1, <1>2, MoverFacts DEF CalmWorker, Mine, GoodRow, Fresh

(* No two workers work for one job. *)
LEMMA AloneOnJob ==
  ASSUME Inv, UndoInv, CalmInv, NEW u \in Workers, NEW w \in Workers, u # w,
         Running(u), Running(w)
  PROVE  wk[u].job # wk[w].job
  BY CalmFacts

LEMMA LeasedPassesFence ==
  ASSUME Inv, UndoInv, CalmInv, NEW w \in Workers, Running(w)
  PROVE  Leased(wk[w]) <=> Owns(wk[w].job, wk[w].epoch)
<1>1. /\ wk[w].job \in Jobs /\ MyVersion(w) \in Versions /\ MyVersion(w) = VersionOf[wk[w].job]
      /\ versions[MyVersion(w)].opLease \in Lease
      /\ jobs[wk[w].job].status = "claimed" /\ jobs[wk[w].job].epoch = wk[w].epoch
  BY CalmFacts DEF VersionRow
<1>2. wk[w].job # NoJob
  BY <1>1, NullAssumption
<1>3. versions[MyVersion(w)].op # NoJob => versions[MyVersion(w)].opLease # NoLease
  BY <1>1 DEF Inv, OperationFromClaim
<1>4. /\ versions[MyVersion(w)].opLease \in Int
      /\ versions[MyVersion(w)].opLease # NoLease /\ versions[MyVersion(w)].opLease # 0
           <=> versions[MyVersion(w)].opLease > 0
  BY <1>1, BoundsAssumption DEF Lease, NoLease
<1> QED
  BY <1>1, <1>2, <1>3, <1>4 DEF Leased, Held, ForJob, Owns

-----------------------------------------------------------------------------
(* What the step of w may do to the tables. *)

JobKept(j) ==
  /\ jobs'[j].status = jobs[j].status /\ jobs'[j].step = jobs[j].step
  /\ jobs'[j].worker = jobs[j].worker /\ jobs'[j].epoch = jobs[j].epoch
  /\ jobs[j].lease > 0 => jobs'[j].lease > 0

(* The row of a job that is the mover's, or nobody's. *)
JobMoved(w, j) ==
  LET v == VersionOf[j] IN
  /\ \A u \in Workers \ {w} : Running(u) => wk[u].job # j
  /\ jobs'[j].status = "compensating" => jobs'[j].step \in CompSteps
  /\ jobs'[j].status = "completed" => versions[v].op # j /\ (OneJob(v) => Serves(v))
  /\ jobs'[j].step = "release" /\ versions[v].op = j => NoBranchLeft(v)

JobsCalm(w) == \A j \in Jobs : JobKept(j) \/ JobMoved(w, j)

HolderKept(v) == SameHolder(v) /\ (versions[v].opLease > 0 => versions'[v].opLease > 0)

VersionKept(v) ==
  /\ HolderKept(v)
  /\ versions'[v].status = versions[v].status /\ versions'[v].route = versions[v].route
  /\ versions'[v].branch => versions[v].branch

VersionWritten(w, v) ==
  /\ w \in Workers /\ Running(w) /\ v = MyVersion(w) /\ ForJob(wk[w])
  /\ HolderKept(v)
  /\ versions'[v].status = "failed" /\ versions'[v].branch =>
       jobs[wk[w].job].step # "release" \/ ~NoBranchLeft(v)

VersionPassed(w, v) ==
  /\ w \in Workers /\ Running(w) /\ v = MyVersion(w)
  /\ \/ versions[v].op = wk[w].job /\ versions'[v].op = NoJob /\ NoBranchLeft(v)
     \/ versions[v].op \in {NoJob, wk[w].job} /\ versions'[v].op = wk[w].job
  /\ versions'[v].status = versions[v].status /\ versions'[v].route = versions[v].route
  /\ versions'[v].branch = versions[v].branch

VersionsCalm(w) ==
  \A v \in Versions : VersionKept(v) \/ VersionWritten(w, v) \/ VersionPassed(w, v)

(* The others are not disturbed by what w writes to the queue ... *)
LEMMA CalmJobs ==
  ASSUME Inv, UndoInv, CalmInv, versions' = versions, NEW w, OthersRest(w), JobsCalm(w),
         w \in Workers /\ Running(w)' => CalmWorker(w)'
  PROVE  CalmInv'
<1>1. ASSUME NEW u \in Workers \ {w}, Running(u)' PROVE CalmWorker(u)'
  <2>1. wk'[u] = wk[u] /\ Running(u)
    BY <1>1 DEF OthersRest, Running
  <2>2. wk[u].job \in Jobs /\ CalmWorker(u)
    BY <2>1, CalmFacts
  <2>3. JobKept(wk[u].job)
    BY <2>1, <2>2 DEF JobsCalm, JobMoved
  <2>4. Mine(u)' /\ jobs'[wk'[u].job].lease > 0
    BY <2>1, <2>2, <2>3 DEF CalmWorker, Mine, JobKept
  <2>5. wk'[u].pc \in HoldingPCs => Leased(wk[u])'
    BY <2>1, <2>2 DEF CalmWorker, Leased, Held, ForJob
  <2>6. RouteFirst(wk[u])' /\ BranchFirst(wk[u])'
    BY <2>1, <2>2 DEF CalmWorker, RouteFirst, BranchFirst, ForJob, Serves, NoBranchLeft
  <2> QED
    BY <2>1, <2>2, <2>3, <2>4, <2>5, <2>6 DEF CalmWorker, JobKept
<1>2. ASSUME NEW j \in Jobs PROVE CalmJob(j)'
  BY <1>2 DEF CalmInv, CalmJob, JobsCalm, JobKept, JobMoved, Serves, NoBranchLeft
<1>3. ASSUME NEW v \in Versions PROVE CalmVersion(v)'
  BY <1>3 DEF CalmInv, CalmVersion, NoBranchLeft
<1> QED
  BY <1>1, <1>2, <1>3 DEF CalmInv

(* ... nor by what it writes to a version. *)
LEMMA CalmOthers ==
  ASSUME Inv, UndoInv, CalmInv, jobs' = jobs, NEW w, OthersRest(w), VersionsCalm(w),
         NEW u \in Workers \ {w}, Running(u)'
  PROVE  CalmWorker(u)'
<1> DEFINE v == MyVersion(u)
<1>1. wk'[u] = wk[u] /\ Running(u)
  BY DEF OthersRest, Running
<1>2. /\ wk[u].job \in Jobs /\ CalmWorker(u) /\ v \in Versions /\ v = VersionOf[wk[u].job]
  BY <1>1, CalmFacts
<1>3. Mine(u)' /\ jobs'[wk'[u].job].lease > 0
  BY <1>1, <1>2 DEF CalmWorker, Mine
<1>4. wk[u].job # NoJob
  BY <1>2, NullAssumption
<1>5. CASE VersionKept(v)
  <2>1. wk'[u].pc \in HoldingPCs => Leased(wk[u])'
    BY <1>1, <1>2, <1>5 DEF CalmWorker, Leased, Held, ForJob, VersionKept, HolderKept, SameHolder
  <2>2. RouteFirst(wk[u])'
    BY <1>1, <1>2, <1>5
    DEF CalmWorker, RouteFirst, ForJob, Serves, VersionKept, HolderKept, SameHolder
  <2>3. BranchFirst(wk[u])'
    BY <1>1, <1>2, <1>5
    DEF CalmWorker, BranchFirst, ForJob, NoBranchLeft, VersionKept, HolderKept, SameHolder
  <2> QED
    BY <1>1, <1>2, <1>3, <2>1, <2>2, <2>3 DEF CalmWorker
<1>6. CASE ~VersionKept(v)
  <2>1. /\ w \in Workers /\ Running(w) /\ v = MyVersion(w)
        /\ VersionWritten(w, v) \/ VersionPassed(w, v)
    BY <1>2, <1>6 DEF VersionsCalm, VersionWritten, VersionPassed
  <2>2. wk[u].job # wk[w].job /\ wk[w].job \in Jobs /\ v = VersionOf[wk[w].job]
    BY <1>1, <2>1, AloneOnJob, CalmFacts
  <2>3. ~ForJob(wk[u]) /\ ~ForJob(wk[u])' /\ ~OneJob(v)
    BY <1>1, <1>2, <1>4, <2>1, <2>2
    DEF ForJob, OneJob, VersionWritten, HolderKept, SameHolder, VersionPassed
  <2>4. wk[u].pc \notin HoldingPCs
    BY <1>2, <2>3 DEF CalmWorker, Leased, Held
  <2>5. RouteFirst(wk[u])'
    BY <1>1, <1>2, <2>3, <2>4 DEF CalmWorker, RouteFirst, HoldingPCs, ForJob, OneJob
  <2>6. BranchFirst(wk[u])'
    BY <1>1, <2>3, <2>4 DEF BranchFirst, HoldingPCs, ForJob
  <2> QED
    BY <1>1, <1>2, <1>3, <2>4, <2>5, <2>6 DEF CalmWorker
<1> QED
  BY <1>5, <1>6

LEMMA CalmVersions ==
  ASSUME Inv, UndoInv, CalmInv, jobs' = jobs, NEW w, OthersRest(w), VersionsCalm(w),
         w \in Workers /\ Running(w)' => CalmWorker(w)'
  PROVE  CalmInv'
<1>0. \A j \in Jobs : VersionOf[j] \in Versions /\ j # NoJob
  BY JobsAssumption, NullAssumption
<1>1. ASSUME NEW u \in Workers, Running(u)' PROVE CalmWorker(u)'
  BY <1>1, CalmOthers
<1>2. ASSUME NEW j \in Jobs PROVE CalmJob(j)'
  <2> DEFINE v == VersionOf[j]
  <2>1. CalmJob(j) /\ v \in Versions /\ CalmVersion(v)
    BY <1>0 DEF CalmInv
  <2>2. CASE VersionKept(v)
    BY <2>1, <2>2 DEF CalmJob, VersionKept, HolderKept, SameHolder, NoBranchLeft, Serves
  <2>3. CASE VersionWritten(w, v) \/ VersionPassed(w, v)
    <3>1. w \in Workers /\ Running(w) /\ v = MyVersion(w)
      BY <2>3 DEF VersionWritten, VersionPassed
    <3>2. /\ wk[w].job \in Jobs /\ jobs[wk[w].job].status = "claimed"
          /\ v = VersionOf[wk[w].job]
      BY <3>1, CalmFacts
    <3>3. jobs[j].status = "completed" => versions'[v].op # j /\ ~OneJob(v)
      BY <1>0, <2>1, <2>3, <3>2
      DEF CalmJob, OneJob, VersionWritten, VersionPassed, HolderKept, SameHolder, ForJob
    <3>4. jobs[j].step = "release" /\ versions'[v].op = j => NoBranchLeft(v)'
      <4>1. CASE VersionWritten(w, v)
        BY <2>1, <3>2, <4>1
        DEF CalmJob, VersionWritten, HolderKept, SameHolder, ForJob, NoBranchLeft
      <4>2. CASE VersionPassed(w, v)
        BY <1>0, <2>1, <4>2 DEF CalmJob, CalmVersion, VersionPassed, NoBranchLeft
      <4> QED
        BY <2>3, <4>1, <4>2
    <3> QED
      BY <2>1, <3>3, <3>4 DEF CalmJob, OneJob
  <2> QED
    BY <2>1, <2>2, <2>3 DEF VersionsCalm
<1>3. ASSUME NEW v \in Versions PROVE CalmVersion(v)'
  <2>1. CASE VersionKept(v)
    BY <2>1 DEF CalmInv, CalmVersion, VersionKept, HolderKept, SameHolder, NoBranchLeft
  <2>2. CASE VersionWritten(w, v) \/ VersionPassed(w, v)
    <3>1. wk[w].job \in Jobs /\ MyVersion(w) = VersionOf[wk[w].job]
      BY <2>2, CalmFacts DEF VersionWritten, VersionPassed
    <3> QED
      BY <1>0, <2>2, <3>1
      DEF CalmVersion, VersionWritten, VersionPassed, HolderKept, SameHolder, ForJob, NoBranchLeft
  <2> QED
    BY <2>1, <2>2 DEF VersionsCalm
<1> QED
  BY <1>1, <1>2, <1>3 DEF CalmInv

-----------------------------------------------------------------------------
(* The worker that moves. *)

(* After the step, the attempt of w holds the operation. *)
NextLeased(w) ==
  /\ versions'[MyVersion(w)].op = wk[w].job /\ versions'[MyVersion(w)].opEpoch = wk[w].epoch
  /\ versions'[MyVersion(w)].opLease > 0

(* What the place and the stage that it goes to ask of the version. *)
NextRoute(w, pc, stage) ==
  LET row == versions'[MyVersion(w)] IN
  /\ pc = "status" /\ stage = "ready" => row.route = "active"
  /\ pc = "step" => row.status = stage /\ (stage = "ready" => row.route = "active")
  /\ pc \in {"tail", "bootstrap", "cron", "release"} => row.status = "ready" /\ row.route = "active"
  /\ pc = "complete" => /\ row.op # wk[w].job
                        /\ row.status = "ready" /\ row.route = "active"

NextBranch(w, pc, step) ==
  LET row == versions'[MyVersion(w)] IN
  \/ pc = "cdestroyed"
  \/ pc \in {"ccheck", "cact", "cpersist", "cerr"} /\ step = "release" /\ row.op = wk[w].job
  => (row.status = "failed" => ~row.branch)

LEMMA MoverRow ==
  ASSUME Inv, NEW w \in Workers, NEW pc, NEW stage, NEW step, Becomes(w, pc, stage, step)
  PROVE  /\ OthersRest(w)
         /\ wk'[w].pc = pc /\ wk'[w].stage = stage /\ wk'[w].step = step
         /\ wk'[w].job = wk[w].job /\ wk'[w].epoch = wk[w].epoch
  BY DEF Becomes, SetWorker, OthersRest, Inv, TypeOK

LEMMA MoverCalm ==
  ASSUME Inv, UndoInv, CalmInv, NEW w \in Workers, Running(w),
         NEW pc, NEW stage, NEW step, Becomes(w, pc, stage, step), pc # "claimop",
         jobs'[wk[w].job].status = "claimed", jobs'[wk[w].job].worker = w,
         jobs'[wk[w].job].epoch = wk[w].epoch, jobs'[wk[w].job].lease > 0,
         pc \in HoldingPCs => NextLeased(w),
         NextRoute(w, pc, stage), NextBranch(w, pc, step)
  PROVE  CalmWorker(w)'
<1>1. /\ wk'[w].pc = pc /\ wk'[w].stage = stage /\ wk'[w].step = step
      /\ wk'[w].job = wk[w].job /\ wk'[w].epoch = wk[w].epoch
  BY MoverRow
<1>2. MyVersion(w) = VersionOf[wk'[w].job]
  BY <1>1 DEF MyVersion
<1>3. Mine(w)' /\ jobs'[wk'[w].job].lease > 0
  BY <1>1 DEF Mine
<1>4. wk'[w].pc \in HoldingPCs => Leased(wk[w])'
  BY <1>1, <1>2 DEF NextLeased, Leased, Held, ForJob
<1>5. RouteFirst(wk[w])'
  BY <1>1, <1>2 DEF NextRoute, RouteFirst, Serves, ForJob
<1>6. BranchFirst(wk[w])'
  BY <1>1, <1>2 DEF NextBranch, BranchFirst, NoBranchLeft, ForJob
<1> QED
  BY <1>1, <1>3, <1>4, <1>5, <1>6 DEF CalmWorker

(* It moves and does not write to the queue. *)
LEMMA CalmMove ==
  ASSUME Inv, UndoInv, CalmInv, NEW w \in Workers, Running(w), jobs' = jobs, VersionsCalm(w),
         NEW pc, NEW stage, NEW step, Becomes(w, pc, stage, step), pc # "claimop",
         pc \in HoldingPCs => NextLeased(w),
         NextRoute(w, pc, stage), NextBranch(w, pc, step)
  PROVE  CalmInv'
<1>1. /\ jobs'[wk[w].job].status = "claimed" /\ jobs'[wk[w].job].worker = w
      /\ jobs'[wk[w].job].epoch = wk[w].epoch /\ jobs'[wk[w].job].lease > 0
  BY CalmFacts
<1>2. CalmWorker(w)' /\ OthersRest(w)
  BY <1>1, MoverCalm, MoverRow
<1> QED
  BY <1>2, CalmVersions

PlainPCs == {"fail", "busy", "aborting", "failnow", "handoff", "handback", "work", "fork",
             "forked", "qualify", "route", "markfailed", "failcheck", "cstart", "cdestroy",
             "cfail", "csuper"}

LEMMA PlainMove ==
  ASSUME Inv, UndoInv, CalmInv, NEW w \in Workers, Running(w), jobs' = jobs, VersionsCalm(w),
         NEW pc, NEW stage, NEW step, Becomes(w, pc, stage, step),
         pc \in PlainPCs \/ (pc = "status" /\ stage # "ready"),
         pc \in HoldingPCs => NextLeased(w)
  PROVE  CalmInv'
<1>1. pc # "claimop" /\ NextRoute(w, pc, stage) /\ NextBranch(w, pc, step)
  BY DEF PlainPCs, NextRoute, NextBranch
<1> QED
  BY <1>1, CalmMove

LEMMA VersionsStill ==
  ASSUME versions' = versions, NEW w
  PROVE  VersionsCalm(w) /\ \A v : HolderKept(v)
  BY DEF VersionsCalm, VersionKept, HolderKept, SameHolder

LEMMA VersionMoves ==
  ASSUME Inv, NEW w, NEW v \in Versions, \E row : SetVersion(v, row),
         VersionKept(v) \/ VersionWritten(w, v) \/ VersionPassed(w, v)
  PROVE  VersionsCalm(w)
<1>1. \A u \in Versions \ {v} : versions'[u] = versions[u]
  BY DEF SetVersion, Inv, TypeOK
<1>2. \A u \in Versions \ {v} : VersionKept(u)
  BY <1>1 DEF VersionKept, HolderKept, SameHolder
<1> QED
  BY <1>2 DEF VersionsCalm

LEMMA StaysLeased ==
  ASSUME Inv, UndoInv, CalmInv, NEW w \in Workers, Running(w),
         wk[w].pc \in HoldingPCs \/ Owns(wk[w].job, wk[w].epoch)
  PROVE  /\ ForJob(wk[w]) /\ Owns(wk[w].job, wk[w].epoch)
         /\ HolderKept(MyVersion(w)) => NextLeased(w)
<1>1. Leased(wk[w]) /\ MyVersion(w) = VersionOf[wk[w].job]
  BY CalmFacts, LeasedPassesFence DEF CalmWorker
<1>2. Owns(wk[w].job, wk[w].epoch)
  BY <1>1, LeasedPassesFence
<1> QED
  BY <1>1, <1>2 DEF Leased, Held, ForJob, HolderKept, SameHolder, NextLeased

(* The queue, when w writes to the row of its own job or of nobody's. *)
LEMMA JobMoves ==
  ASSUME Inv, NEW w, NEW j \in Jobs, NEW row, SetJob(j, row), JobMoved(w, j)
  PROVE  JobsCalm(w)
<1>1. \A i \in Jobs \ {j} : jobs'[i] = jobs[i]
  BY DEF SetJob, Inv, TypeOK
<1>2. \A i \in Jobs \ {j} : JobKept(i)
  BY <1>1 DEF JobKept
<1> QED
  BY <1>2 DEF JobsCalm

LEMMA JobsStill ==
  ASSUME jobs' = jobs, NEW w
  PROVE  JobsCalm(w)
  BY DEF JobsCalm, JobKept

(* The worker rests, or looks at the desires left behind. *)
LEMMA CalmRest ==
  ASSUME Inv, UndoInv, CalmInv, NEW w \in Workers, Rests(w), versions' = versions, JobsCalm(w)
  PROVE  CalmInv'
<1>1. OthersRest(w) /\ wk'[w].pc \in {"idle", "reconcile"}
  BY DEF Rests, SetWorker, OthersRest, Inv, TypeOK
<1>2. ~Running(w)'
  BY <1>1 DEF Running
<1> QED
  BY <1>1, <1>2, CalmJobs

-----------------------------------------------------------------------------
LEMMA DeployingAsideCalm ==
  ASSUME Inv, UndoInv, CalmInv, NEW w \in Workers,
         \/ StepFails(w) \/ EndStage(w) \/ AssertBeforeFork(w) \/ AssertAfterFork(w)
         \/ BootstrapProd(w) \/ DeployDone(w)
  PROVE  CalmInv'
<1>0. /\ wk[w].pc \in DeployPCs /\ UNCHANGED <<jobs, versions>>
      /\ EndStage(w) => wk[w].pc = "work" /\ wk[w].stage \in Stages
  BY DEF StepFails, EndStage, AssertBeforeFork, AssertAfterFork, BootstrapProd, DeployDone,
         DeployPCs, Inv, GoodWorker
<1>1. /\ Running(w) /\ VersionsCalm(w) /\ HolderKept(MyVersion(w))
      /\ versions'[MyVersion(w)] = versions[MyVersion(w)] /\ jobs' = jobs
  BY <1>0, VersionsStill DEF Running, DeployPCs
<1>2. /\ wk[w].pc \in HoldingPCs => NextLeased(w)
      /\ RouteFirst(wk[w]) /\ MyVersion(w) = VersionOf[wk[w].job]
  BY <1>1, StaysLeased, CalmFacts DEF CalmWorker
<1>3. CASE StepFails(w)
  <2>1. Becomes(w, "fail", wk[w].stage, wk[w].step)
    BY <1>3, Becoming DEF StepFails, Fail, PCs, FailPCs
  <2> QED
    BY <1>1, <2>1, PlainMove DEF PlainPCs, HoldingPCs
<1>4. CASE EndStage(w)
  <2>0. NextLeased(w)
    BY <1>0, <1>2, <1>4 DEF HoldingPCs
  <2>1. CASE wk[w].stage # "deploying"
    <3>1. NextStage[wk[w].stage] \in {"branching", "preparing", "deploying"}
      BY <1>0, <1>4, <2>1 DEF EndStage, NextStage, Stages
    <3>2. Becomes(w, "status", NextStage[wk[w].stage], wk[w].step)
      BY <1>4, <2>1, <3>1, Becoming DEF EndStage, PCs, DeployPCs, Stages
    <3> QED
      BY <1>1, <2>0, <3>1, <3>2, PlainMove
  <2>2. CASE wk[w].stage = "deploying" /\ MyVersion(w) \in Elastic
    <3>1. Becomes(w, "status", "deploy_ready", wk[w].step)
      BY <1>4, <2>2, Becoming DEF EndStage, PCs, DeployPCs
    <3> QED
      BY <1>1, <2>0, <3>1, PlainMove
  <2>3. CASE wk[w].stage = "deploying" /\ MyVersion(w) \notin Elastic
    <3>1. Becomes(w, "route", wk[w].stage, wk[w].step)
      BY <1>4, <2>3, Becoming DEF EndStage, PCs, DeployPCs
    <3> QED
      BY <1>1, <2>0, <3>1, PlainMove DEF PlainPCs
  <2> QED
    BY <2>1, <2>2, <2>3
<1>5. CASE AssertBeforeFork(w)
  <2>1. Becomes(w, "fork", wk[w].stage, wk[w].step) /\ wk[w].pc \in HoldingPCs
    BY <1>5, Becoming DEF AssertBeforeFork, PCs, DeployPCs, HoldingPCs
  <2> QED
    BY <1>1, <1>2, <2>1, PlainMove DEF PlainPCs
<1>6. CASE AssertAfterFork(w)
  <2>1. Becomes(w, "status", "preparing", wk[w].step) /\ wk[w].pc \in HoldingPCs
    BY <1>6, Becoming DEF AssertAfterFork, PCs, DeployPCs, Stages, HoldingPCs
  <2> QED
    BY <1>1, <1>2, <2>1, PlainMove
<1>7. CASE BootstrapProd(w) \/ DeployDone(w)
  <2>1. \E pc \in {"cron", "release"} : Becomes(w, pc, wk[w].stage, wk[w].step)
    BY <1>7, Becoming DEF BootstrapProd, DeployDone, PCs, DeployPCs
  <2>2. PICK pc \in {"cron", "release"} : Becomes(w, pc, wk[w].stage, wk[w].step)
    BY <2>1
  <2>3. wk[w].pc \in {"bootstrap", "cron"}
    BY <1>7 DEF BootstrapProd, DeployDone
  <2>4. NextLeased(w) /\ NextRoute(w, pc, wk[w].stage) /\ NextBranch(w, pc, wk[w].step)
    BY <1>1, <1>2, <2>2, <2>3 DEF HoldingPCs, RouteFirst, Serves, NextRoute, NextBranch
  <2> QED
    BY <1>1, <2>2, <2>4, CalmMove
<1> QED
  BY <1>3, <1>4, <1>5, <1>6, <1>7

(* The writes of a deploy to its version. *)
LEMMA DeployingWritesCalm ==
  ASSUME Inv, UndoInv, CalmInv, NEW w \in Workers,
         \/ WriteStatus(w) \/ Fork(w) \/ Qualify(w) \/ SetRoute(w) \/ FinalizeIdle(w)
         \/ CronResidentDesire(w)
  PROVE  CalmInv'
<1>0. PICK v : v = MyVersion(w)
  OBVIOUS
<1>1. wk[w].pc \in DeployPCs /\ wk[w].pc \in HoldingPCs /\ jobs' = jobs
  BY DEF WriteStatus, Fork, Qualify, SetRoute, FinalizeIdle, CronResidentDesire, DeployPCs,
         HoldingPCs
<1>2. Running(w) /\ Early(wk[w]) /\ wk[w] \in WorkerState
  BY <1>1, StageIsEarly DEF Early, EarlyPCs, HoldingPCs, Inv, TypeOK
<1>3. /\ v \in Versions /\ versions[v] \in VersionRow /\ CalmWorker(w)
      /\ v = VersionOf[wk[w].job] /\ jobs[wk[w].job].step = "deploy"
  BY <1>0, <1>2, CalmFacts
<1>4. \A row : SetVersion(v, row) => versions'[v] = row
  BY <1>3 DEF SetVersion, Inv, TypeOK
<1>5. ForJob(wk[w]) /\ (HolderKept(v) => NextLeased(w))
  BY <1>0, <1>1, <1>2, StaysLeased
<1>6. {"step", "forked", "status", "route", "bootstrap"} \subseteq PCs
  BY DEF PCs, DeployPCs
<1>7. ASSUME versions'[v] = versions[v], versions' = versions
      PROVE  VersionsCalm(w) /\ HolderKept(v)
  BY <1>7, VersionsStill
<1>8. ASSUME NEW row, SetVersion(v, row), row.op = versions[v].op,
             row.opEpoch = versions[v].opEpoch, row.opLease = versions[v].opLease
      PROVE  VersionsCalm(w) /\ HolderKept(v) /\ NextLeased(w)
  <2>1. HolderKept(v)
    BY <1>4, <1>8 DEF HolderKept, SameHolder
  <2>2. VersionWritten(w, v)
    BY <1>0, <1>2, <1>3, <1>5, <2>1 DEF VersionWritten
  <2> QED
    BY <1>3, <1>5, <1>8, <2>1, <2>2, VersionMoves
<1>9. CASE WriteStatus(w)
  <2>1. PICK row : row = [versions[v] EXCEPT !.status = wk[w].stage]
    OBVIOUS
  <2>2. SetVersion(v, row) /\ Becomes(w, "step", wk[w].stage, wk[w].step) /\ wk[w].pc = "status"
    BY <1>0, <1>6, <1>9, <2>1, Becoming DEF WriteStatus
  <2>3. /\ row.op = versions[v].op /\ row.opEpoch = versions[v].opEpoch
        /\ row.opLease = versions[v].opLease
        /\ row.status = wk[w].stage /\ row.route = versions[v].route
    BY <1>3, <2>1 DEF VersionRow
  <2>4. VersionsCalm(w) /\ NextLeased(w) /\ versions'[v] = row
    BY <1>4, <1>8, <2>2, <2>3
  <2>5. NextRoute(w, "step", wk[w].stage) /\ NextBranch(w, "step", wk[w].step)
    BY <1>0, <1>3, <2>2, <2>3, <2>4 DEF CalmWorker, RouteFirst, NextRoute, NextBranch
  <2> QED
    BY <1>1, <1>2, <2>2, <2>4, <2>5, CalmMove
<1>10. CASE Fork(w)
  <2>1. PICK row : row = [versions[v] EXCEPT !.branch = TRUE]
    OBVIOUS
  <2>2. /\ row.op = versions[v].op /\ row.opEpoch = versions[v].opEpoch
        /\ row.opLease = versions[v].opLease
    BY <1>3, <2>1 DEF VersionRow
  <2>3. CASE SetVersion(v, row) /\ Becomes(w, "forked", wk[w].stage, wk[w].step)
    <3>1. VersionsCalm(w) /\ NextLeased(w)
      BY <1>8, <2>2, <2>3
    <3> QED
      BY <1>1, <1>2, <2>3, <3>1, PlainMove DEF PlainPCs
  <2>4. CASE versions' = versions /\ Becomes(w, "status", "preparing", wk[w].step)
    <3>1. VersionsCalm(w) /\ NextLeased(w)
      BY <1>5, <1>7, <2>4
    <3> QED
      BY <1>1, <1>2, <2>4, <3>1, PlainMove
  <2> QED
    BY <1>0, <1>6, <1>10, <2>1, <2>3, <2>4, Becoming DEF Fork, Stages
<1>11. CASE Qualify(w)
  <2>1. PICK row : row = [versions[v] EXCEPT !.desire = wk[w].job]
    OBVIOUS
  <2>2. /\ row.op = versions[v].op /\ row.opEpoch = versions[v].opEpoch
        /\ row.opLease = versions[v].opLease
        /\ row.status = versions[v].status /\ row.route = versions[v].route
        /\ row.branch = versions[v].branch
    BY <1>3, <2>1 DEF VersionRow
  <2>3. SetVersion(v, row)
    BY <1>0, <1>11, <2>1 DEF Qualify
  <2>4. VersionsCalm(w) /\ NextLeased(w)
    BY <1>8, <2>2, <2>3
  <2>5. CASE wk[w].pc = "qualify"
    <3>1. Becomes(w, "route", wk[w].stage, wk[w].step)
      BY <1>6, <1>11, <2>5, Becoming DEF Qualify
    <3> QED
      BY <1>1, <1>2, <2>4, <3>1, PlainMove DEF PlainPCs
  <2>6. CASE wk[w].pc = "work"
    <3>1. wk' = wk
      BY <1>11, <2>6 DEF Qualify
    <3>2. Becomes(w, "work", wk[w].stage, wk[w].step)
      BY <1>2, <2>6, <3>1 DEF Becomes, SetWorker, Inv, TypeOK
    <3> QED
      BY <1>1, <1>2, <2>4, <3>2, PlainMove DEF PlainPCs
  <2> QED
    BY <1>11, <2>5, <2>6 DEF Qualify
<1>12. CASE SetRoute(w)
  <2>1. PICK row : row = [versions[v] EXCEPT !.route = "active"]
    OBVIOUS
  <2>2. /\ row.op = versions[v].op /\ row.opEpoch = versions[v].opEpoch
        /\ row.opLease = versions[v].opLease /\ row.route = "active"
    BY <1>3, <2>1 DEF VersionRow
  <2>3. SetVersion(v, row) /\ Becomes(w, "status", "ready", wk[w].step)
    BY <1>0, <1>6, <1>12, <2>1, Becoming DEF SetRoute
  <2>4. VersionsCalm(w) /\ NextLeased(w) /\ versions'[v] = row
    BY <1>4, <1>8, <2>2, <2>3
  <2>5. NextRoute(w, "status", "ready") /\ NextBranch(w, "status", wk[w].step)
    BY <1>0, <2>2, <2>4 DEF NextRoute, NextBranch
  <2> QED
    BY <1>1, <1>2, <2>3, <2>4, <2>5, CalmMove
<1>13. CASE FinalizeIdle(w)
  <2>1. PICK row : row = [versions[v] EXCEPT !.desire = "idle"]
    OBVIOUS
  <2>2. /\ row.op = versions[v].op /\ row.opEpoch = versions[v].opEpoch
        /\ row.opLease = versions[v].opLease
        /\ row.status = versions[v].status /\ row.route = versions[v].route
    BY <1>3, <2>1 DEF VersionRow
  <2>3. SetVersion(v, row) \/ versions' = versions
    BY <1>0, <1>13, <2>1 DEF FinalizeIdle
  <2>4. /\ VersionsCalm(w) /\ NextLeased(w)
        /\ versions'[v].status = versions[v].status /\ versions'[v].route = versions[v].route
    BY <1>4, <1>5, <1>7, <1>8, <2>2, <2>3
  <2>5. Becomes(w, "bootstrap", wk[w].stage, wk[w].step) /\ wk[w].pc = "tail"
    BY <1>6, <1>13, Becoming DEF FinalizeIdle
  <2>6. NextRoute(w, "bootstrap", wk[w].stage) /\ NextBranch(w, "bootstrap", wk[w].step)
    BY <1>0, <1>3, <2>4, <2>5 DEF CalmWorker, RouteFirst, Serves, NextRoute, NextBranch
  <2> QED
    BY <1>1, <1>2, <2>4, <2>5, <2>6, CalmMove
<1>14. CASE CronResidentDesire(w)
  <2>1. PICK row : row = [versions[v] EXCEPT !.desire = "third_party"]
    OBVIOUS
  <2>2. /\ row.op = versions[v].op /\ row.opEpoch = versions[v].opEpoch
        /\ row.opLease = versions[v].opLease
        /\ row.status = versions[v].status /\ row.route = versions[v].route
    BY <1>3, <2>1 DEF VersionRow
  <2>3. SetVersion(v, row) /\ wk' = wk /\ wk[w].pc \in {"cron", "bootstrap"}
    BY <1>0, <1>14, <2>1 DEF CronResidentDesire
  <2>4. /\ VersionsCalm(w) /\ NextLeased(w)
        /\ versions'[v].status = versions[v].status /\ versions'[v].route = versions[v].route
    BY <1>4, <1>8, <2>2, <2>3
  <2>5. PICK pc : pc = wk[w].pc
    OBVIOUS
  <2>6. Becomes(w, pc, wk[w].stage, wk[w].step)
    BY <1>2, <2>3, <2>5 DEF Becomes, SetWorker, Inv, TypeOK
  <2>7. NextRoute(w, pc, wk[w].stage) /\ NextBranch(w, pc, wk[w].step) /\ pc # "claimop"
    BY <1>0, <1>3, <2>3, <2>4, <2>5 DEF CalmWorker, RouteFirst, Serves, NextRoute, NextBranch
  <2> QED
    BY <1>1, <1>2, <2>4, <2>6, <2>7, CalmMove
<1> QED
  BY <1>9, <1>10, <1>11, <1>12, <1>13, <1>14

-----------------------------------------------------------------------------
(* Whose job may be written. *)
LEMMA OwnRow ==
  ASSUME Inv, UndoInv, CalmInv, NEW w \in Workers, Running(w),
         NEW u \in Workers \ {w}, Running(u)
  PROVE  wk[u].job # wk[w].job
  BY AloneOnJob

LEMMA NobodysRow ==
  ASSUME Inv, UndoInv, CalmInv, NEW j \in Jobs,
         jobs[j].status # "claimed" \/ jobs[j].lease <= 0,
         NEW u \in Workers, Running(u)
  PROVE  wk[u].job # j
<1>1. jobs[wk[u].job].status = "claimed" /\ jobs[wk[u].job].lease > 0
  BY CalmFacts
<1>2. jobs[j].lease \in Int
  BY BoundsAssumption DEF Inv, TypeOK, JobRow, Lease, NoLease
<1> QED
  BY <1>1, <1>2

(* The end of a deploy, and its steps in the queue. *)
LEMMA DeployingJobsCalm ==
  ASSUME Inv, UndoInv, CalmInv, NEW w \in Workers,
         WriteStep(w) \/ ReleaseOperation(w) \/ CompleteJob(w) \/ RequeueBusy(w)
  PROVE  CalmInv'
<1>0. PICK v, j : v = MyVersion(w) /\ j = wk[w].job
  OBVIOUS
<1>1. Running(w)
  BY DEF WriteStep, ReleaseOperation, CompleteJob, RequeueBusy, Running
<1>2. /\ v \in Versions /\ versions[v] \in VersionRow /\ CalmWorker(w) /\ wk[w] \in WorkerState
      /\ v = VersionOf[j] /\ j \in Jobs /\ jobs[j] \in JobRow
      /\ Early(wk[w]) => jobs[j].step = "deploy"
  BY <1>0, <1>1, CalmFacts
<1>3. \A row : SetJob(j, row) => jobs'[j] = row
  BY <1>2 DEF SetJob, Inv, TypeOK
<1>4. \A u \in Workers \ {w} : Running(u) => wk[u].job # j
  BY <1>0, <1>1, OwnRow
<1>5. CASE WriteStep(w)
  <2>1. PICK row : row = [jobs[j] EXCEPT !.step = "deploy"]
    OBVIOUS
  <2>2. /\ SetJob(j, row) /\ versions' = versions /\ wk[w].pc = "step"
        /\ Go(w, CASE wk[w].stage = "deploy_ready" -> "qualify"
                   [] wk[w].stage = "ready"        -> "tail"
                   [] OTHER                        -> "work")
    BY <1>0, <1>5, <2>1 DEF WriteStep
  <2>3. Early(wk[w])
    BY <2>2 DEF Early, EarlyPCs, DeployPCs
  <2>4. jobs' = jobs
    <3>1. row = jobs[j]
      BY <1>2, <2>1, <2>3 DEF JobRow
    <3> QED
      BY <2>2, <3>1 DEF SetJob, Inv, TypeOK
  <2>5. PICK pc : /\ pc = CASE wk[w].stage = "deploy_ready" -> "qualify"
                            [] wk[w].stage = "ready"        -> "tail"
                            [] OTHER                        -> "work"
    OBVIOUS
  <2>6. pc \in {"qualify", "tail", "work"} /\ (pc = "tail" => wk[w].stage = "ready")
    BY <2>5
  <2>7. Becomes(w, pc, wk[w].stage, wk[w].step)
    BY <2>2, <2>5, <2>6, Becoming DEF PCs, DeployPCs
  <2>8. NextLeased(w) /\ VersionsCalm(w) /\ versions'[v] = versions[v]
    BY <1>0, <1>1, <2>2, VersionsStill, StaysLeased DEF HoldingPCs
  <2>9. NextRoute(w, pc, wk[w].stage) /\ NextBranch(w, pc, wk[w].step) /\ pc # "claimop"
    BY <1>0, <1>2, <2>2, <2>6, <2>8 DEF CalmWorker, RouteFirst, NextRoute, NextBranch
  <2> QED
    BY <1>1, <2>4, <2>7, <2>8, <2>9, CalmMove
<1>6. CASE ReleaseOperation(w)
  <2>1. PICK row : row = [versions[v] EXCEPT !.op = NoJob, !.opEpoch = 0, !.opLease = NoLease]
    OBVIOUS
  <2>2. Leased(wk[w]) /\ Serves(v)
    BY <1>0, <1>2, <1>6 DEF ReleaseOperation, CalmWorker, HoldingPCs, RouteFirst
  <2>3. SetVersion(v, row) /\ jobs' = jobs
    BY <1>0, <1>2, <1>6, <2>1, <2>2 DEF ReleaseOperation, Released, Leased, Held, ForJob
  <2>4. /\ versions'[v] = row /\ row.op = NoJob
        /\ row.status = versions[v].status /\ row.route = versions[v].route
        /\ row.branch = versions[v].branch
    BY <1>2, <2>1, <2>3 DEF SetVersion, VersionRow, Inv, TypeOK
  <2>5. VersionPassed(w, v)
    BY <1>0, <1>1, <1>2, <2>2, <2>4 DEF VersionPassed, NoBranchLeft, Serves, Leased, Held, ForJob
  <2>6. VersionsCalm(w)
    BY <1>2, <2>3, <2>5, VersionMoves
  <2>7. Becomes(w, "complete", wk[w].stage, wk[w].step)
    BY <1>6, Becoming DEF ReleaseOperation, PCs
  <2>8. NextRoute(w, "complete", wk[w].stage) /\ NextBranch(w, "complete", wk[w].step)
    BY <1>0, <1>2, <2>2, <2>4, NullAssumption DEF NextRoute, NextBranch, Serves
  <2>9. "complete" \notin HoldingPCs
    BY DEF HoldingPCs
  <2> QED
    BY <1>1, <2>3, <2>6, <2>7, <2>8, <2>9, CalmMove
<1>7. CASE CompleteJob(w)
  <2>1. PICK row : row = [jobs[j] EXCEPT !.status = "completed", !.lease = NoLease]
    OBVIOUS
  <2>2. SetJob(j, row) /\ versions' = versions /\ wk[w].pc = "complete" /\ Rest(w)
    BY <1>0, <1>7, <2>1 DEF CompleteJob
  <2>3. jobs'[j].status = "completed" /\ jobs'[j].step = jobs[j].step
    BY <1>2, <1>3, <2>1, <2>2 DEF JobRow
  <2>4. ~ForJob(wk[w]) /\ (OneJob(v) => Serves(v))
    BY <1>0, <1>2, <2>2 DEF CalmWorker, RouteFirst
  <2>5. JobMoved(w, j)
    BY <1>0, <1>2, <1>4, <2>3, <2>4 DEF JobMoved, ForJob
  <2> QED
    BY <1>2, <2>2, <2>5, JobMoves, RestsRow, CalmRest
<1>8. CASE RequeueBusy(w)
  <2>1. PICK row : row = [jobs[j] EXCEPT !.status = "pending", !.lease = NoLease,
                                         !.worker = NoWorker]
    OBVIOUS
  <2>2. SetJob(j, row) \/ jobs' = jobs
    BY <1>0, <1>8, <2>1 DEF RequeueBusy, Settle
  <2>3. jobs[j].step = "deploy"
    BY <1>2, <1>8 DEF RequeueBusy, Early, EarlyPCs
  <2>4. SetJob(j, row) => JobMoved(w, j)
    BY <1>2, <1>3, <1>4, <2>1, <2>3 DEF JobMoved, JobRow
  <2>5. JobsCalm(w)
    BY <1>2, <2>2, <2>4, JobMoves, JobsStill
  <2> QED
    BY <1>8, <2>5, RestsRow, CalmRest DEF RequeueBusy
<1> QED
  BY <1>5, <1>6, <1>7, <1>8

(* A worker that asks for the operation finds it free, or left by its job.   *)
LEMMA ClaimOperationCalm ==
  ASSUME Inv, UndoInv, CalmInv, NEW w \in Workers, ClaimOperation(w)
  PROVE  CalmInv'
<1>0. PICK v, j : v = MyVersion(w) /\ j = wk[w].job
  OBVIOUS
<1>1. Running(w) /\ wk[w].pc = "claimop" /\ jobs' = jobs
  BY DEF ClaimOperation, Running
<1>2. /\ v \in Versions /\ versions[v] \in VersionRow /\ CalmWorker(w) /\ wk[w] \in WorkerState
      /\ v = VersionOf[j] /\ j \in Jobs /\ jobs[j] \in JobRow
      /\ jobs[j].epoch = wk[w].epoch
  BY <1>0, <1>1, CalmFacts
<1>3. CASE ~OperationClaimable(j)
  <2>1. \E pc \in {"handback", "busy"} : Becomes(w, pc, wk[w].stage, wk[w].step)
    BY <1>0, <1>2, <1>3, Becoming DEF ClaimOperation, PCs
  <2>2. VersionsCalm(w)
    BY <1>0, <1>3, VersionsStill DEF ClaimOperation
  <2> QED
    BY <1>1, <2>1, <2>2, PlainMove DEF PlainPCs, HoldingPCs
<1>4. CASE OperationClaimable(j)
  <2>1. PICK row : row = [versions[v] EXCEPT !.op = j, !.opEpoch = wk[w].epoch,
                                             !.opLease = LeaseTicks]
    OBVIOUS
  <2>2. PICK pc : pc = IF wk[w].mode = "deploy" THEN "status" ELSE "ccheck"
    OBVIOUS
  <2>3. SetVersion(v, row) /\ SetWorker(w, [wk[w] EXCEPT !.pc = pc, !.keeper = "on"])
    <3>1. SetWorker(w, [wk[w] EXCEPT !.keeper = "on", !.pc = pc])
      BY <1>0, <1>2, <1>4, <2>1, <2>2 DEF ClaimOperation
    <3>2. [wk[w] EXCEPT !.keeper = "on", !.pc = pc] = [wk[w] EXCEPT !.pc = pc, !.keeper = "on"]
      OBVIOUS
    <3> QED
      BY <1>0, <1>2, <1>4, <2>1, <3>1, <3>2 DEF ClaimOperation
  <2>4. /\ versions'[v] = row /\ row.op = j /\ row.opEpoch = wk[w].epoch
        /\ row.opLease = LeaseTicks
        /\ row.status = versions[v].status /\ row.route = versions[v].route
        /\ row.branch = versions[v].branch
    BY <1>2, <2>1, <2>3 DEF SetVersion, VersionRow, Inv, TypeOK
  <2>5. NextLeased(w)
    BY <1>0, <2>4, BoundsAssumption DEF NextLeased
  <2>6. versions[v].op \in {NoJob, j}
    <3>1. SUFFICES ASSUME versions[v].op \in Jobs, versions[v].op # j,
                          jobs[versions[v].op].status \in {"failed", "completed"}
                   PROVE  FALSE
      BY <1>2, <1>4 DEF OperationClaimable, VersionRow
    <3>2. VersionOf[versions[v].op] = v
      BY <1>2, <3>1, NullAssumption DEF Inv, OperationFromClaim
    <3> QED
      BY <3>1, <3>2 DEF UndoInv, FailedHoldsNothing, CalmInv, CalmJob
  <2>7. VersionsCalm(w)
    <3>1. VersionPassed(w, v)
      BY <1>0, <1>1, <2>4, <2>6 DEF VersionPassed
    <3> QED
      BY <1>2, <2>3, <3>1, VersionMoves
  <2>8. pc \in {"status", "ccheck"} /\ (pc = "ccheck" => wk[w].mode = "compensate")
    BY <1>2, <2>2 DEF WorkerState
  <2>9. Becomes(w, pc, wk[w].stage, wk[w].step)
    BY <2>3, <2>8, Becoming DEF PCs, DeployPCs, CompPCs
  <2>10. NextRoute(w, pc, wk[w].stage)
    BY <1>1, <1>2, <2>8 DEF CalmWorker, RouteFirst, NextRoute
  <2>11. NextBranch(w, pc, wk[w].step)
    <3>1. ASSUME pc = "ccheck", wk[w].step = "release" PROVE NoBranchLeft(v)
      <4>1. jobs[j].step = "release"
        BY <1>0, <1>1, <1>2, <2>8, <3>1 DEF CalmWorker
      <4> QED
        BY <1>2, <2>6, <4>1 DEF CalmInv, CalmJob, CalmVersion
    <3> QED
      BY <1>0, <2>4, <2>8, <3>1 DEF NextBranch, NoBranchLeft
  <2> QED
    BY <1>1, <2>5, <2>7, <2>8, <2>9, <2>10, <2>11, CalmMove
<1> QED
  BY <1>3, <1>4

(* A claim finds a row that no worker works for.                             *)
LEMMA ClaimCalm ==
  ASSUME Inv, UndoInv, CalmInv, NEW w \in Workers, NEW j \in Jobs,
         ClaimJob(w, j) \/ ClaimCompensatingJob(w, j)
  PROVE  CalmInv'
<1>0. PICK mode \in {"deploy", "compensate"} :
        /\ Claim(w, j, mode) /\ wk[w].pc = "idle"
        /\ jobs[j].status # "claimed" \/ jobs[j].lease <= 0
  BY DEF ClaimJob, ClaimCompensatingJob, JobClaimable, CompensationClaimable
<1>1. PICK jrow, row :
        /\ jrow = [jobs[j] EXCEPT !.status = "claimed", !.lease = LeaseTicks, !.worker = w,
                                  !.epoch = @ + 1,
                                  !.step = IF mode = "compensate" THEN Normalized(@) ELSE @]
        /\ row = [Resting EXCEPT !.pc = "claimop", !.job = j, !.mode = mode,
                                 !.epoch = jobs[j].epoch + 1,
                                 !.step = Normalized(jobs[j].step)]
  OBVIOUS
<1>2. SetJob(j, jrow) /\ SetWorker(w, row) /\ versions' = versions
  BY <1>0, <1>1 DEF Claim
<1>3. /\ jobs'[j] = jrow /\ wk'[w] = row /\ OthersRest(w) /\ jobs[j] \in JobRow
  BY <1>2 DEF SetJob, SetWorker, OthersRest, Inv, TypeOK
<1>4. /\ jrow.status = "claimed" /\ jrow.lease = LeaseTicks /\ jrow.worker = w
      /\ jrow.epoch = jobs[j].epoch + 1
      /\ jrow.step = IF mode = "compensate" THEN Normalized(jobs[j].step) ELSE jobs[j].step
  BY <1>1, <1>3 DEF JobRow
<1>5. /\ row.pc = "claimop" /\ row.job = j /\ row.mode = mode /\ row.epoch = jobs[j].epoch + 1
      /\ row.step = Normalized(jobs[j].step) /\ row.stage = "fetching"
  BY <1>1 DEF Resting
<1>6. CalmWorker(w)'
  <2>1. Mine(w)' /\ jobs'[wk'[w].job].lease > 0
    BY <1>3, <1>4, <1>5, BoundsAssumption DEF Mine
  <2>2. RouteFirst(wk[w])' /\ BranchFirst(wk[w])' /\ wk'[w].pc \notin HoldingPCs
    BY <1>3, <1>5 DEF RouteFirst, BranchFirst, HoldingPCs
  <2> QED
    BY <1>3, <1>4, <1>5, <2>1, <2>2 DEF CalmWorker
<1>7. JobMoved(w, j)
  <2>1. \A u \in Workers : Running(u) => wk[u].job # j
    BY <1>0, NobodysRow
  <2>2. jobs'[j].step = "release" => jobs[j].step = "release"
    BY <1>3, <1>4 DEF Normalized
  <2> QED
    BY <1>3, <1>4, <2>1, <2>2 DEF JobMoved, CalmInv, CalmJob
<1> QED
  BY <1>2, <1>3, <1>6, <1>7, JobMoves, CalmJobs

-----------------------------------------------------------------------------
LEMMA HandedBackRow ==
  ASSUME Inv, UndoInv, CalmInv, NEW w, NEW j \in Jobs, ToCompensating(j),
         \A u \in Workers \ {w} : Running(u) => wk[u].job # j
  PROVE  JobsCalm(w)
<1>1. PICK row : row = [jobs[j] EXCEPT !.status = "compensating", !.lease = NoLease,
                                       !.worker = NoWorker, !.step = Normalized(@)]
  OBVIOUS
<1>2. SetJob(j, row) /\ jobs'[j] = row
  BY <1>1 DEF ToCompensating, SetJob, Inv, TypeOK
<1>3. row.status = "compensating" /\ row.step = Normalized(jobs[j].step)
  BY <1>1 DEF JobRow, Inv, TypeOK
<1>4. row.step \in CompSteps /\ (row.step = "release" => jobs[j].step = "release")
  BY <1>3 DEF Normalized, CompSteps
<1>5. JobMoved(w, j)
  BY <1>2, <1>3, <1>4 DEF JobMoved, CalmInv, CalmJob
<1> QED
  BY <1>2, <1>5, JobMoves

(* A failed deploy. *)
LEMMA FailingCalm ==
  ASSUME Inv, UndoInv, CalmInv, NEW w \in Workers, Failing(w)
  PROVE  CalmInv'
<1>0. PICK v, j : v = MyVersion(w) /\ j = wk[w].job
  OBVIOUS
<1>1. Running(w) /\ wk[w] \in WorkerState
  BY DEF Failing, FinalizeFailure, MarkVersionFailed, AssertAfterFailed, StartCompensation,
         AbortWithoutOperation, FailNow, HandBack, Running, Inv, TypeOK
<1>2. /\ v \in Versions /\ versions[v] \in VersionRow /\ CalmWorker(w)
      /\ v = VersionOf[j] /\ j \in Jobs /\ jobs[j] \in JobRow
      /\ Early(wk[w]) => jobs[j].step = "deploy"
      /\ jobs[j].status = "claimed" /\ jobs[j].worker = w /\ jobs[j].epoch = wk[w].epoch
      /\ jobs[j].lease > 0
  BY <1>0, <1>1, CalmFacts
<1>3. \A row : SetJob(j, row) => jobs'[j] = row
  BY <1>2 DEF SetJob, Inv, TypeOK
<1>4. \A u \in Workers \ {w} : Running(u) => wk[u].job # j
  BY <1>0, <1>1, OwnRow
<1>5. versions' = versions => VersionsCalm(w) /\ HolderKept(v)
  BY VersionsStill
<1>6. wk[w].pc \in HoldingPCs \/ Owns(wk[w].job, wk[w].epoch) =>
        ForJob(wk[w]) /\ (HolderKept(v) => NextLeased(w))
  BY <1>0, <1>1, StaysLeased
<1>7. CASE FinalizeFailure(w)
  <2>1. jobs' = jobs /\ versions' = versions
    BY <1>7 DEF FinalizeFailure
  <2>2. CASE Owns(wk[w].job, wk[w].epoch)
    <3>1. SetWorker(w, [wk[w] EXCEPT !.pc = "markfailed", !.keeper = "on"])
      BY <1>7, <2>2 DEF FinalizeFailure
    <3>2. Becomes(w, "markfailed", wk[w].stage, wk[w].step)
      BY <3>1, Becoming DEF PCs, FailPCs
    <3> QED
      BY <1>1, <1>5, <1>6, <2>1, <2>2, <3>2, PlainMove DEF PlainPCs
  <2>3. CASE ~Owns(wk[w].job, wk[w].epoch)
    <3>1. Becomes(w, "aborting", wk[w].stage, wk[w].step)
      BY <1>7, <2>3, Becoming DEF FinalizeFailure, PCs, FailPCs
    <3> QED
      BY <1>1, <1>5, <2>1, <3>1, PlainMove DEF PlainPCs, HoldingPCs
  <2> QED
    BY <2>2, <2>3
<1>8. CASE MarkVersionFailed(w)
  <2>1. PICK row : row = [versions[v] EXCEPT !.status = "failed"]
    OBVIOUS
  <2>2. PICK pc : pc = IF wk[w].pc = "markfailed" THEN "failcheck" ELSE "handback"
    OBVIOUS
  <2>3. Becomes(w, pc, wk[w].stage, wk[w].step) /\ jobs' = jobs
    BY <1>8, <2>2, Becoming DEF MarkVersionFailed, PCs, FailPCs
  <2>4. /\ pc \in {"failcheck", "handback"} /\ wk[w].pc \in {"markfailed", "handoff"}
        /\ pc = "failcheck" => wk[w].pc \in HoldingPCs
    BY <1>8, <2>2 DEF MarkVersionFailed, HoldingPCs
  <2>5. VersionsCalm(w) /\ HolderKept(v)
    <3>1. CASE Fenced(w)
      <4>1. SetVersion(v, row) /\ ForJob(wk[w])
        BY <1>0, <1>6, <1>8, <2>1, <3>1 DEF MarkVersionFailed, Fenced
      <4>2. /\ versions'[v] = row /\ row.op = versions[v].op
            /\ row.opEpoch = versions[v].opEpoch /\ row.opLease = versions[v].opLease
        BY <1>2, <2>1, <4>1 DEF SetVersion, VersionRow, Inv, TypeOK
      <4>3. HolderKept(v)
        BY <4>2 DEF HolderKept, SameHolder
      <4>4. jobs[j].step = "deploy"
        BY <1>2, <2>4 DEF Early, EarlyPCs, FailPCs
      <4>5. VersionWritten(w, v)
        BY <1>0, <1>1, <4>1, <4>3, <4>4 DEF VersionWritten
      <4> QED
        BY <1>2, <4>1, <4>3, <4>5, VersionMoves
    <3>2. CASE ~Fenced(w)
      BY <1>5, <1>8, <3>2 DEF MarkVersionFailed
    <3> QED
      BY <3>1, <3>2
  <2>6. pc \in HoldingPCs => NextLeased(w)
    BY <1>6, <2>4, <2>5 DEF HoldingPCs
  <2> QED
    BY <1>1, <2>3, <2>4, <2>5, <2>6, PlainMove DEF PlainPCs
<1>9. CASE AssertAfterFailed(w)
  <2>1. PICK pc : pc = IF Fenced(w) THEN "cstart" ELSE "aborting"
    OBVIOUS
  <2>2. Becomes(w, pc, wk[w].stage, wk[w].step) /\ jobs' = jobs /\ versions' = versions
    BY <1>9, <2>1, Becoming DEF AssertAfterFailed, PCs, FailPCs
  <2>3. wk[w].pc \in HoldingPCs /\ pc \in PlainPCs
    BY <1>9, <2>1 DEF AssertAfterFailed, HoldingPCs, PlainPCs
  <2> QED
    BY <1>1, <1>5, <1>6, <2>2, <2>3, PlainMove
<1>10. CASE StartCompensation(w)
  <2>1. PICK jrow : jrow = [jobs[j] EXCEPT !.step = "desire"]
    OBVIOUS
  <2>2. /\ wk[w].pc = "cstart" /\ versions' = versions /\ wk[w].pc \in HoldingPCs
        /\ SetWorker(w, [wk[w] EXCEPT !.pc = "ccheck", !.step = "desire"])
        /\ SetJob(j, jrow) \/ jobs' = jobs
    BY <1>0, <1>10, <2>1 DEF StartCompensation, PersistStep, HoldingPCs
  <2>3. Becomes(w, "ccheck", wk[w].stage, "desire")
    BY <2>2, Becoming DEF PCs, CompPCs, CompSteps
  <2>4. /\ jrow.status = jobs[j].status /\ jrow.worker = jobs[j].worker
        /\ jrow.epoch = jobs[j].epoch /\ jrow.lease = jobs[j].lease /\ jrow.step = "desire"
    BY <1>2, <2>1 DEF JobRow
  <2>5. /\ jobs'[j].status = "claimed" /\ jobs'[j].worker = w /\ jobs'[j].epoch = wk[w].epoch
        /\ jobs'[j].lease > 0
    BY <1>2, <1>3, <2>2, <2>4
  <2>6. NextLeased(w)
    BY <1>5, <1>6, <2>2
  <2>7. NextRoute(w, "ccheck", wk[w].stage) /\ NextBranch(w, "ccheck", "desire")
    BY DEF NextRoute, NextBranch
  <2>8. CalmWorker(w)' /\ OthersRest(w)
    BY <1>0, <1>1, <2>3, <2>5, <2>6, <2>7, MoverCalm, MoverRow
  <2>9. SetJob(j, jrow) => JobMoved(w, j)
    BY <1>2, <1>3, <1>4, <2>4 DEF JobMoved
  <2>10. JobsCalm(w)
    BY <1>2, <2>2, <2>9, JobMoves, JobsStill
  <2> QED
    BY <2>2, <2>8, <2>10, CalmJobs
<1>11. CASE AbortWithoutOperation(w)
  <2>1. PICK pc \in {"handoff", "failnow"} : Go(w, pc)
    BY <1>11 DEF AbortWithoutOperation
  <2>2. Becomes(w, pc, wk[w].stage, wk[w].step)
    BY <2>1, Becoming DEF PCs, FailPCs
  <2> QED
    BY <1>1, <1>5, <1>11, <2>2, PlainMove DEF AbortWithoutOperation, PlainPCs, HoldingPCs
<1>12. CASE FailNow(w)
  <2>1. jobs[j].step = "deploy" /\ versions' = versions /\ Rest(w)
    BY <1>2, <1>12 DEF FailNow, Early, EarlyPCs, FailPCs
  <2>2. jobs' = jobs \/ \E status \in {"failed", "pending"} : Settle(j, status)
    BY <1>0, <1>12 DEF FailNow
  <2>3. ASSUME NEW status \in {"failed", "pending"}, Settle(j, status) PROVE JobsCalm(w)
    <3>1. PICK jrow : jrow = [jobs[j] EXCEPT !.status = status, !.lease = NoLease,
                                             !.worker = NoWorker]
      OBVIOUS
    <3>2. SetJob(j, jrow) /\ jrow.status = status /\ jrow.step = "deploy"
      BY <1>2, <2>1, <2>3, <3>1 DEF Settle, JobRow
    <3>3. JobMoved(w, j)
      BY <1>3, <1>4, <3>2 DEF JobMoved
    <3> QED
      BY <1>2, <3>2, <3>3, JobMoves
  <2> QED
    BY <2>1, <2>2, <2>3, JobsStill, RestsRow, CalmRest
<1>13. CASE HandBack(w)
  <2>1. versions' = versions /\ Rest(w) /\ (jobs' = jobs \/ ToCompensating(j))
    BY <1>0, <1>13 DEF HandBack
  <2>2. ASSUME ToCompensating(j) PROVE JobsCalm(w)
    BY <1>2, <1>4, <2>2, HandedBackRow
  <2> QED
    BY <2>1, <2>2, JobsStill, RestsRow, CalmRest
<1> QED
  BY <1>7, <1>8, <1>9, <1>10, <1>11, <1>12, <1>13 DEF Failing

(* A worker that only looks, and moves on in its compensation. *)
LEMMA LookMove ==
  ASSUME Inv, UndoInv, CalmInv, NEW w \in Workers, Running(w), jobs' = jobs, versions' = versions,
         NEW pc \in {"cact", "cerr", "cpersist"}, NEW step, Becomes(w, pc, wk[w].stage, step),
         pc \in {"cact", "cpersist"} => wk[w].pc \in HoldingPCs,
         step = "release" /\ ForJob(wk[w]) => NoBranchLeft(MyVersion(w))
  PROVE  CalmInv'
<1>1. VersionsCalm(w) /\ HolderKept(MyVersion(w)) /\ MyVersion(w) = VersionOf[wk[w].job]
  BY VersionsStill, CalmFacts
<1>2. pc \in HoldingPCs => NextLeased(w)
  BY <1>1, StaysLeased DEF HoldingPCs
<1>3. NextRoute(w, pc, wk[w].stage) /\ NextBranch(w, pc, step)
  BY <1>1 DEF NextRoute, NextBranch, NoBranchLeft, ForJob
<1> QED
  BY <1>1, <1>2, <1>3, CalmMove

(* The compensation state machine. *)
LEMMA UndoingCalm ==
  ASSUME Inv, UndoInv, CalmInv, NEW w \in Workers, Undoing(w)
  PROVE  CalmInv'
<1>0. PICK v, j : v = MyVersion(w) /\ j = wk[w].job
  OBVIOUS
<1>1. Running(w) /\ wk[w] \in WorkerState
  BY DEF Undoing, CheckOwnership, CompensateStep, DestroyBranch, DestroyFails,
         AssertAfterDestroy, StepIncomplete, PersistNext, PersistAndHandBack, FailCompensated,
         FailSuperseded, Running, Inv, TypeOK
<1>2. /\ v \in Versions /\ versions[v] \in VersionRow /\ CalmWorker(w) /\ GoodRow(wk[w])
      /\ v = VersionOf[j] /\ j \in Jobs /\ jobs[j] \in JobRow /\ Current(wk[w])
      /\ jobs[j].status = "claimed" /\ jobs[j].worker = w /\ jobs[j].epoch = wk[w].epoch
      /\ jobs[j].lease > 0
  BY <1>0, <1>1, CalmFacts
<1>3. \A row : SetJob(j, row) => jobs'[j] = row
  BY <1>2 DEF SetJob, Inv, TypeOK
<1>4. \A u \in Workers \ {w} : Running(u) => wk[u].job # j
  BY <1>0, <1>1, OwnRow
<1>5. versions' = versions => VersionsCalm(w) /\ HolderKept(v)
  BY VersionsStill
<1>6. wk[w].pc \in HoldingPCs => ForJob(wk[w]) /\ (HolderKept(v) => NextLeased(w))
  BY <1>0, <1>1, StaysLeased
<1>7. wk[w].pc \in {"cdestroy", "cdestroyed"} => wk[w].step = "branch"
  BY <1>2 DEF GoodRow, Placed
<1>8. /\ wk[w].pc = "cdestroyed" => NoBranchLeft(v)
      /\ wk[w].pc \in {"ccheck", "cact", "cpersist", "cerr"} /\ wk[w].step = "release"
           /\ ForJob(wk[w]) => NoBranchLeft(v)
  BY <1>0, <1>2 DEF CalmWorker, BranchFirst
<1>9. {"cact", "cerr", "csuper", "cdestroy", "cdestroyed", "cfail", "cpersist", "ccheck",
       "handback"} \subseteq PCs
  BY DEF PCs, CompPCs
<1>10. CASE CheckOwnership(w)
  <2>1. /\ \E pc \in {"cerr", "csuper", "cact"} : Go(w, pc)
        /\ jobs' = jobs /\ versions' = versions /\ wk[w].pc = "ccheck"
    BY <1>10 DEF CheckOwnership
  <2>2. PICK pc \in {"cerr", "csuper", "cact"} : Go(w, pc)
    BY <2>1
  <2>3. Becomes(w, pc, wk[w].stage, wk[w].step)
    BY <1>9, <2>2, Becoming
  <2>4. CASE pc = "csuper"
    BY <1>1, <1>5, <2>1, <2>3, <2>4, PlainMove DEF PlainPCs, HoldingPCs
  <2>5. CASE pc # "csuper"
    BY <1>0, <1>1, <1>8, <2>1, <2>3, <2>5, LookMove DEF HoldingPCs
  <2> QED
    BY <2>4, <2>5
<1>11. CASE CompensateStep(w)
  <2>0. wk[w].pc = "cact" /\ wk[w].pc \in HoldingPCs /\ jobs' = jobs
    BY <1>11 DEF CompensateStep, HoldingPCs
  <2>1. ASSUME NEW row, NEW next \in {"route", "branch"}, Undo(w, row, next),
               row.op = versions[v].op, row.opEpoch = versions[v].opEpoch,
               row.opLease = versions[v].opLease,
               row.status = versions[v].status, row.branch = versions[v].branch
        PROVE  CalmInv'
    <3>1. SetVersion(v, row) /\ SetWorker(w, [wk[w] EXCEPT !.pc = "cpersist", !.step = next])
      BY <1>0, <2>1 DEF Undo
    <3>2. versions'[v] = row
      BY <1>2, <3>1 DEF SetVersion, Inv, TypeOK
    <3>3. HolderKept(v)
      BY <2>1, <3>2 DEF HolderKept, SameHolder
    <3>4. VersionWritten(w, v)
      <4>1. jobs[j].step = "release" => (row.status = "failed" /\ row.branch => ~NoBranchLeft(v))
        BY <2>1 DEF NoBranchLeft
      <4> QED
        BY <1>0, <1>1, <1>6, <2>0, <3>2, <3>3, <4>1 DEF VersionWritten
    <3>5. VersionsCalm(w) /\ NextLeased(w)
      BY <1>2, <1>6, <2>0, <3>1, <3>3, <3>4, VersionMoves
    <3>6. Becomes(w, "cpersist", wk[w].stage, next)
      BY <1>9, <2>1, <3>1, Becoming DEF CompSteps
    <3>7. NextRoute(w, "cpersist", wk[w].stage) /\ NextBranch(w, "cpersist", next)
      BY <2>1 DEF NextRoute, NextBranch
    <3> QED
      BY <1>1, <2>0, <3>5, <3>6, <3>7, CalmMove
  <2>2. CASE wk[w].step = "desire"
    <3>1. PICK row : row = [versions[v] EXCEPT
                              !.desire = IF v \in Elastic /\ @ = j THEN "deploy_failed" ELSE @]
      OBVIOUS
    <3>2. Undo(w, row, "route")
      BY <1>0, <1>11, <2>2, <3>1 DEF CompensateStep
    <3>3. /\ row.op = versions[v].op /\ row.opEpoch = versions[v].opEpoch
          /\ row.opLease = versions[v].opLease
          /\ row.status = versions[v].status /\ row.branch = versions[v].branch
      BY <1>2, <3>1 DEF VersionRow
    <3> QED
      BY <2>1, <3>2, <3>3
  <2>3. CASE wk[w].step = "route"
    <3>1. PICK row : row = [versions[v] EXCEPT !.route = IF @ = "active" THEN "inactive" ELSE @]
      OBVIOUS
    <3>2. Undo(w, row, "branch")
      BY <1>0, <1>11, <2>3, <3>1 DEF CompensateStep
    <3>3. /\ row.op = versions[v].op /\ row.opEpoch = versions[v].opEpoch
          /\ row.opLease = versions[v].opLease
          /\ row.status = versions[v].status /\ row.branch = versions[v].branch
      BY <1>2, <3>1 DEF VersionRow
    <3> QED
      BY <2>1, <3>2, <3>3
  <2>4. CASE wk[w].step = "branch"
    <3>1. Go(w, "cdestroy") /\ versions' = versions
      BY <1>11, <2>4 DEF CompensateStep
    <3>2. Becomes(w, "cdestroy", wk[w].stage, wk[w].step)
      BY <1>9, <3>1, Becoming
    <3> QED
      BY <1>1, <1>5, <1>6, <2>0, <3>1, <3>2, PlainMove DEF PlainPCs
  <2>5. CASE wk[w].step = "release"
    <3>1. PICK row : row = [versions[v] EXCEPT !.op = NoJob, !.opEpoch = 0, !.opLease = NoLease]
      OBVIOUS
    <3>2. Leased(wk[w]) /\ NoBranchLeft(v)
      BY <1>2, <1>6, <1>8, <2>0, <2>5 DEF CalmWorker
    <3>3. SetVersion(v, row) /\ Go(w, "cfail")
      BY <1>0, <1>2, <1>11, <2>5, <3>1, <3>2
      DEF CompensateStep, Released, Leased, Held, ForJob
    <3>4. /\ versions'[v] = row /\ row.op = NoJob
          /\ row.status = versions[v].status /\ row.route = versions[v].route
          /\ row.branch = versions[v].branch
      BY <1>2, <3>1, <3>3 DEF SetVersion, VersionRow, Inv, TypeOK
    <3>5. VersionPassed(w, v)
      BY <1>0, <1>1, <1>2, <3>2, <3>4 DEF VersionPassed, Leased, Held, ForJob
    <3>6. VersionsCalm(w)
      BY <1>2, <3>3, <3>5, VersionMoves
    <3>7. Becomes(w, "cfail", wk[w].stage, wk[w].step)
      BY <1>9, <3>3, Becoming
    <3> QED
      BY <1>1, <2>0, <3>6, <3>7, PlainMove DEF PlainPCs, HoldingPCs
  <2> QED
    BY <1>11, <2>2, <2>3, <2>4, <2>5 DEF CompensateStep
<1>12. CASE DestroyBranch(w)
  <2>1. PICK row : row = [versions[v] EXCEPT !.branch = FALSE]
    OBVIOUS
  <2>2. /\ SetVersion(v, row) /\ Go(w, "cdestroyed") /\ jobs' = jobs /\ wk[w].pc = "cdestroy"
        /\ wk[w].pc \in HoldingPCs
    BY <1>0, <1>12, <2>1 DEF DestroyBranch, HoldingPCs
  <2>3. /\ versions'[v] = row /\ row.op = versions[v].op /\ row.opEpoch = versions[v].opEpoch
        /\ row.opLease = versions[v].opLease /\ row.status = versions[v].status
        /\ row.route = versions[v].route /\ row.branch = FALSE
    BY <1>2, <2>1, <2>2 DEF SetVersion, VersionRow, Inv, TypeOK
  <2>4. VersionKept(v) /\ HolderKept(v)
    BY <2>3 DEF VersionKept, HolderKept, SameHolder
  <2>5. VersionsCalm(w) /\ NextLeased(w)
    BY <1>2, <1>6, <2>2, <2>4, VersionMoves
  <2>6. Becomes(w, "cdestroyed", wk[w].stage, wk[w].step)
    BY <1>9, <2>2, Becoming
  <2>7. NextRoute(w, "cdestroyed", wk[w].stage) /\ NextBranch(w, "cdestroyed", wk[w].step)
    BY <1>0, <2>3 DEF NextRoute, NextBranch
  <2> QED
    BY <1>1, <2>2, <2>5, <2>6, <2>7, CalmMove
<1>13. CASE DestroyFails(w) \/ StepIncomplete(w)
  <2>1. /\ Go(w, "cerr") /\ jobs' = jobs /\ versions' = versions
        /\ wk[w].pc \in {"cact", "cdestroy", "cdestroyed"}
    BY <1>13 DEF DestroyFails, StepIncomplete
  <2>2. Becomes(w, "cerr", wk[w].stage, wk[w].step)
    BY <1>9, <2>1, Becoming
  <2>3. wk[w].step = "release" /\ ForJob(wk[w]) => NoBranchLeft(MyVersion(w))
    BY <1>0, <1>7, <1>8, <2>1
  <2> QED
    BY <1>1, <2>1, <2>2, <2>3, LookMove
<1>14. CASE AssertAfterDestroy(w)
  <2>1. /\ SetWorker(w, [wk[w] EXCEPT !.pc = "cpersist", !.step = "release"])
        /\ jobs' = jobs /\ versions' = versions /\ wk[w].pc = "cdestroyed"
    BY <1>14 DEF AssertAfterDestroy
  <2>2. Becomes(w, "cpersist", wk[w].stage, "release")
    BY <1>9, <2>1, Becoming DEF CompSteps
  <2> QED
    BY <1>0, <1>1, <1>8, <2>1, <2>2, LookMove DEF HoldingPCs
<1>15. CASE PersistNext(w) \/ PersistAndHandBack(w)
  <2>1. PICK jrow : jrow = [jobs[j] EXCEPT !.step = wk[w].step]
    OBVIOUS
  <2>2. /\ SetJob(j, jrow) \/ jobs' = jobs
        /\ versions' = versions /\ wk[w].pc \in {"cpersist", "cerr"}
        /\ \E pc \in {"ccheck", "handback"} :
             Go(w, pc) /\ (pc = "ccheck" => wk[w].pc = "cpersist")
    BY <1>0, <1>15, <2>1 DEF PersistNext, PersistAndHandBack, PersistStep
  <2>3. PICK pc \in {"ccheck", "handback"} :
          Go(w, pc) /\ (pc = "ccheck" => wk[w].pc = "cpersist")
    BY <2>2
  <2>4. Becomes(w, pc, wk[w].stage, wk[w].step)
    BY <1>9, <2>3, Becoming
  <2>5. /\ jrow.status = jobs[j].status /\ jrow.worker = jobs[j].worker
        /\ jrow.epoch = jobs[j].epoch /\ jrow.lease = jobs[j].lease /\ jrow.step = wk[w].step
    BY <1>2, <2>1 DEF JobRow
  <2>6. /\ jobs'[j].status = "claimed" /\ jobs'[j].worker = w /\ jobs'[j].epoch = wk[w].epoch
        /\ jobs'[j].lease > 0
    BY <1>2, <1>3, <2>2, <2>5
  <2>7. pc \in HoldingPCs => NextLeased(w) /\ ForJob(wk[w])
    BY <1>5, <1>6, <2>2, <2>3 DEF HoldingPCs
  <2>8. NextRoute(w, pc, wk[w].stage) /\ NextBranch(w, pc, wk[w].step)
    BY <1>0, <1>8, <2>2, <2>3, <2>7 DEF NextRoute, NextBranch, NoBranchLeft, HoldingPCs
  <2>9. CalmWorker(w)' /\ OthersRest(w)
    BY <1>0, <1>1, <2>4, <2>6, <2>7, <2>8, MoverCalm, MoverRow
  <2>10. SetJob(j, jrow) => JobMoved(w, j)
    <3>1. wk[w].step = "release" /\ versions[v].op = j => NoBranchLeft(v)
      BY <1>0, <1>2, <1>8, <2>2 DEF ForJob
    <3> QED
      BY <1>2, <1>3, <1>4, <2>5, <3>1 DEF JobMoved
  <2>11. JobsCalm(w)
    BY <1>2, <2>2, <2>10, JobMoves, JobsStill
  <2> QED
    BY <2>2, <2>9, <2>11, CalmJobs
<1>16. CASE FailCompensated(w) \/ FailSuperseded(w)
  <2>1. /\ wk[w].pc \in {"cfail", "csuper"} /\ versions' = versions
        /\ \/ Rest(w) /\ (Settle(j, "failed") \/ jobs' = jobs)
           \/ Go(w, "cerr") /\ jobs' = jobs
    BY <1>0, <1>16 DEF FailCompensated, FailSuperseded
  <2>2. ~ForJob(wk[w])
    BY <1>2, <2>1 DEF GoodRow, LetGo
  <2>3. CASE Rest(w) /\ jobs' = jobs
    BY <2>1, <2>3, JobsStill, RestsRow, CalmRest
  <2>4. CASE Rest(w) /\ Settle(j, "failed")
    <3>1. PICK jrow : jrow = [jobs[j] EXCEPT !.status = "failed", !.lease = NoLease,
                                             !.worker = NoWorker]
      OBVIOUS
    <3>2. SetJob(j, jrow) /\ jrow.status = "failed"
      BY <1>2, <2>4, <3>1 DEF Settle, JobRow
    <3>3. JobMoved(w, j)
      BY <1>0, <1>2, <1>3, <1>4, <2>2, <3>2 DEF JobMoved, ForJob
    <3>4. JobsCalm(w)
      BY <1>2, <3>2, <3>3, JobMoves
    <3> QED
      BY <2>1, <2>4, <3>4, RestsRow, CalmRest
  <2>5. CASE Go(w, "cerr") /\ jobs' = jobs
    <3>1. Becomes(w, "cerr", wk[w].stage, wk[w].step)
      BY <1>9, <2>5, Becoming
    <3> QED
      BY <1>1, <2>1, <2>2, <2>5, <3>1, LookMove
  <2> QED
    BY <2>1, <2>3, <2>4, <2>5
<1> QED
  BY <1>10, <1>11, <1>12, <1>13, <1>14, <1>15, <1>16 DEF Undoing

-----------------------------------------------------------------------------
(* A row of a worker whose keeper alone moves, or that stays. *)
LEMMA KeeperRow ==
  ASSUME Inv, UndoInv, CalmInv, NEW w \in Workers, Running(w),
         NEW row, SetWorker(w, row),
         row.pc = wk[w].pc, row.stage = wk[w].stage, row.step = wk[w].step,
         row.job = wk[w].job, row.epoch = wk[w].epoch, row.mode = wk[w].mode,
         JobKept(wk[w].job), HolderKept(MyVersion(w)), VersionKept(MyVersion(w))
  PROVE  CalmWorker(w)' /\ OthersRest(w)
<1>1. wk'[w] = row /\ OthersRest(w)
  BY DEF SetWorker, OthersRest, Inv, TypeOK
<1>2. CalmWorker(w) /\ MyVersion(w) = VersionOf[wk[w].job]
  BY CalmFacts
<1>3. Mine(w)' /\ jobs'[wk'[w].job].lease > 0
  BY <1>1, <1>2 DEF CalmWorker, Mine, JobKept
<1>4. wk'[w].pc \in HoldingPCs => Leased(wk[w])'
  BY <1>1, <1>2 DEF CalmWorker, Leased, Held, ForJob, HolderKept, SameHolder
<1>5. RouteFirst(wk[w])'
  BY <1>1, <1>2 DEF CalmWorker, RouteFirst, ForJob, Serves, VersionKept, HolderKept, SameHolder
<1>6. BranchFirst(wk[w])'
  BY <1>1, <1>2
  DEF CalmWorker, BranchFirst, ForJob, NoBranchLeft, VersionKept, HolderKept, SameHolder
<1> QED
  BY <1>1, <1>2, <1>3, <1>4, <1>5, <1>6 DEF CalmWorker, JobKept

LEMMA KeepingCalm ==
  ASSUME Inv, UndoInv, CalmInv, NEW w \in Workers, Keeping(w)
  PROVE  CalmInv'
<1>0. PICK v, j : v = MyVersion(w) /\ j = wk[w].job
  OBVIOUS
<1>1. Running(w) /\ wk[w] \in WorkerState
  BY DEF Keeping, RenewJobLease, RenewOperation, Inv, GoodWorker, Running, TypeOK
<1>2. /\ v \in Versions /\ versions[v] \in VersionRow /\ j \in Jobs /\ jobs[j] \in JobRow
      /\ v = VersionOf[j]
  BY <1>0, <1>1, CalmFacts
<1>3. PICK k \in {"half", "on", "lost"} : SetWorker(w, [wk[w] EXCEPT !.keeper = k])
  BY DEF Keeping, RenewJobLease, RenewOperation
<1>4. PICK row : row = [wk[w] EXCEPT !.keeper = k] /\ SetWorker(w, row)
  BY <1>3
<1>5. /\ row.pc = wk[w].pc /\ row.stage = wk[w].stage /\ row.step = wk[w].step
      /\ row.job = wk[w].job /\ row.epoch = wk[w].epoch /\ row.mode = wk[w].mode
  BY <1>1, <1>4 DEF WorkerState
<1>6. CASE RenewJobLease(w)
  <2>1. PICK jrow : jrow = [jobs[j] EXCEPT !.lease = LeaseTicks]
    OBVIOUS
  <2>2. versions' = versions /\ (SetJob(j, jrow) \/ jobs' = jobs)
    BY <1>0, <1>6, <2>1 DEF RenewJobLease
  <2>3. \A i \in Jobs : JobKept(i)
    <3>1. CASE SetJob(j, jrow)
      <4>1. /\ jrow.status = jobs[j].status /\ jrow.step = jobs[j].step
            /\ jrow.worker = jobs[j].worker /\ jrow.epoch = jobs[j].epoch
            /\ jrow.lease = LeaseTicks /\ jobs'[j] = jrow
        BY <1>2, <2>1, <3>1 DEF SetJob, JobRow, Inv, TypeOK
      <4>2. \A i \in Jobs \ {j} : jobs'[i] = jobs[i]
        BY <3>1 DEF SetJob, Inv, TypeOK
      <4> QED
        BY <4>1, <4>2, BoundsAssumption DEF JobKept
    <3>2. CASE jobs' = jobs
      BY <3>2 DEF JobKept
    <3> QED
      BY <2>2, <3>1, <3>2
  <2>4. JobsCalm(w) /\ JobKept(wk[w].job) /\ VersionKept(MyVersion(w)) /\ HolderKept(MyVersion(w))
    BY <1>0, <1>2, <2>2, <2>3 DEF JobsCalm, VersionKept, HolderKept, SameHolder
  <2>5. CalmWorker(w)' /\ OthersRest(w)
    BY <1>1, <1>4, <1>5, <2>4, KeeperRow
  <2> QED
    BY <2>2, <2>4, <2>5, CalmJobs
<1>7. CASE RenewOperation(w)
  <2>1. PICK vrow : vrow = [versions[v] EXCEPT !.opLease = LeaseTicks]
    OBVIOUS
  <2>2. jobs' = jobs /\ (SetVersion(v, vrow) \/ versions' = versions)
    BY <1>0, <1>7, <2>1 DEF RenewOperation
  <2>3. VersionsCalm(w) /\ VersionKept(v) /\ HolderKept(v)
    <3>1. CASE SetVersion(v, vrow)
      <4>1. /\ versions'[v] = vrow /\ vrow.op = versions[v].op
            /\ vrow.opEpoch = versions[v].opEpoch
            /\ vrow.opLease = LeaseTicks /\ vrow.status = versions[v].status
            /\ vrow.route = versions[v].route /\ vrow.branch = versions[v].branch
        BY <1>2, <2>1, <3>1 DEF SetVersion, VersionRow, Inv, TypeOK
      <4>2. VersionKept(v) /\ HolderKept(v)
        BY <4>1, BoundsAssumption DEF VersionKept, HolderKept, SameHolder
      <4> QED
        BY <1>2, <3>1, <4>2, VersionMoves
    <3>2. CASE versions' = versions
      BY <3>2, VersionsStill DEF VersionKept, HolderKept, SameHolder
    <3> QED
      BY <2>2, <3>1, <3>2
  <2>4. JobKept(wk[w].job)
    BY <2>2 DEF JobKept
  <2>5. CalmWorker(w)' /\ OthersRest(w)
    BY <1>0, <1>1, <1>4, <1>5, <2>3, <2>4, KeeperRow
  <2> QED
    BY <2>2, <2>3, <2>5, CalmVersions
<1> QED
  BY <1>6, <1>7 DEF Keeping

(* A desire left behind leads to its job only when nobody works for it. *)
LEMMA DiscoveringCalm ==
  ASSUME Inv, UndoInv, CalmInv, NEW w \in Workers, Discovering(w) \/ Crash(w)
  PROVE  CalmInv'
<1>0. wk[w] \in WorkerState
  BY DEF Inv, TypeOK
<1>1. CASE Crash(w)
  BY <1>1, JobsStill, RestsRow, CalmRest DEF Crash
<1>2. CASE Discover(w)
  <2>1. PICK row : row = [wk[w] EXCEPT !.pc = "reconcile", !.todo = {j \in Jobs : LeftBehind(j)}]
    OBVIOUS
  <2>2. SetWorker(w, row) /\ row \in WorkerState /\ row.pc = "reconcile"
    BY <1>0, <1>2, <2>1 DEF Discover, WorkerState, PCs
  <2> QED
    BY <1>2, <2>2, JobsStill, CalmRest DEF Discover, Rests
<1>3. CASE Reconcile(w)
  <2>1. PICK j \in wk[w].todo :
          /\ IF Recoverable(j) THEN ToCompensating(j) ELSE UNCHANGED jobs
          /\ SetWorker(w, [wk[w] EXCEPT !.todo = @ \ {j},
                                        !.pc = IF wk[w].todo = {j} THEN "idle" ELSE @])
    BY <1>3 DEF Reconcile
  <2>2. PICK row : row = [wk[w] EXCEPT !.todo = @ \ {j},
                                       !.pc = IF wk[w].todo = {j} THEN "idle" ELSE @]
    OBVIOUS
  <2>3. /\ SetWorker(w, row) /\ row \in WorkerState /\ row.pc \in {"idle", "reconcile"}
        /\ j \in Jobs /\ versions' = versions
    BY <1>0, <1>3, <2>1, <2>2 DEF Reconcile, WorkerState, PCs
  <2>4. ASSUME Recoverable(j) PROVE JobsCalm(w)
    <3>1. \A u \in Workers \ {w} : Running(u) => wk[u].job # j
      BY <2>3, <2>4, NobodysRow DEF Recoverable
    <3> QED
      BY <2>1, <2>3, <2>4, <3>1, HandedBackRow
  <2>5. JobsCalm(w)
    BY <2>1, <2>4, JobsStill
  <2> QED
    BY <2>3, <2>5, CalmRest DEF Rests
<1> QED
  BY <1>1, <1>2, <1>3 DEF Discovering

LEMMA OutsideCalm ==
  ASSUME Inv, UndoInv, CalmInv,
         (\E j \in Jobs : EnqueueJob(j)) \/ (\E v \in Versions : ThirdPartyDesire(v))
  PROVE  CalmInv'
<1>1. ASSUME NEW j \in Jobs, EnqueueJob(j) PROVE CalmInv'
  <2>1. PICK row : row = [jobs[j] EXCEPT !.status = "pending"]
    OBVIOUS
  <2>2. /\ SetJob(j, row) /\ jobs'[j] = row /\ jobs[j].status = "absent" /\ wk' = wk
        /\ versions' = versions
    BY <1>1, <2>1 DEF EnqueueJob, SetJob, Inv, TypeOK
  <2>3. row.status = "pending" /\ row.step = "deploy"
    BY <2>1, <2>2 DEF UndoInv, UndoneOfJob, JobRow, Inv, TypeOK
  <2>4. JobMoved(NoWorker, j)
    BY <2>2, <2>3, NobodysRow DEF JobMoved
  <2>5. JobsCalm(NoWorker) /\ OthersRest(NoWorker)
    BY <2>2, <2>4, JobMoves DEF OthersRest
  <2> QED
    BY <2>2, <2>5, CalmJobs, NullAssumption
<1>2. ASSUME NEW v \in Versions, ThirdPartyDesire(v) PROVE CalmInv'
  <2>1. PICK row : row = [versions[v] EXCEPT !.desire = "third_party"]
    OBVIOUS
  <2>2. SetVersion(v, row) /\ versions'[v] = row /\ wk' = wk /\ jobs' = jobs
    BY <1>2, <2>1 DEF ThirdPartyDesire, SetVersion, Inv, TypeOK
  <2>3. /\ row.op = versions[v].op /\ row.opEpoch = versions[v].opEpoch
        /\ row.opLease = versions[v].opLease /\ row.status = versions[v].status
        /\ row.route = versions[v].route /\ row.branch = versions[v].branch
    BY <2>1 DEF VersionRow, Inv, TypeOK
  <2>4. VersionKept(v)
    BY <2>2, <2>3 DEF VersionKept, HolderKept, SameHolder
  <2>5. VersionsCalm(NoWorker) /\ OthersRest(NoWorker)
    BY <2>2, <2>4, VersionMoves DEF OthersRest
  <2> QED
    BY <2>2, <2>5, CalmVersions, NullAssumption
<1> QED
  BY <1>1, <1>2

(* Where there are no stalls, a tick leaves the leases of those who run. *)
LEMMA TickCalm ==
  ASSUME MaxStalls = 0, Inv, UndoInv, CalmInv, Tick
  PROVE  CalmInv'
<1>1. /\ \A j \in Jobs : /\ jobs'[j].status = jobs[j].status /\ jobs'[j].step = jobs[j].step
                         /\ jobs'[j].worker = jobs[j].worker /\ jobs'[j].epoch = jobs[j].epoch
                         /\ jobs'[j].lease = Passed(jobs[j].lease)
      /\ wk' = wk
  BY DEF Tick, Inv, TypeOK, JobRow
<1>2. \A v \in Versions : /\ SameHolder(v) /\ SameContent(v)
                          /\ versions'[v].branch = versions[v].branch
                          /\ versions'[v].opLease = Passed(versions[v].opLease)
  BY DEF Tick, Inv, TypeOK, VersionRow, SameHolder, SameContent
<1>3. ~\E w \in Workers : LosesLease(w)
  BY DEF Tick, Inv, TypeOK
<1>4. \A lease \in Lease : lease > 0 /\ lease # 1 => Passed(lease) > 0
  BY BoundsAssumption DEF Lease, NoLease, Passed
<1>5. ASSUME NEW w \in Workers, Running(w)' PROVE CalmWorker(w)'
  <2>1. Running(w) /\ wk'[w] = wk[w]
    BY <1>1, <1>5 DEF Running
  <2>2. /\ CalmWorker(w) /\ wk[w].job \in Jobs /\ MyVersion(w) \in Versions
        /\ MyVersion(w) = VersionOf[wk[w].job]
        /\ jobs[wk[w].job] \in JobRow /\ versions[MyVersion(w)] \in VersionRow
    BY <2>1, CalmFacts
  <2>3. Mine(w)' /\ jobs'[wk'[w].job].lease > 0
    <3>1. jobs[wk[w].job].lease # 1 /\ jobs[wk[w].job].lease \in Lease
      BY <1>3, <2>1, <2>2 DEF LosesLease, CalmWorker, JobRow
    <3> QED
      BY <1>1, <1>4, <2>1, <2>2, <3>1 DEF CalmWorker, Mine
  <2>4. wk'[w].pc \in HoldingPCs => Leased(wk[w])'
    <3>1. SUFFICES ASSUME wk[w].pc \in HoldingPCs PROVE Leased(wk[w])'
      BY <2>1
    <3>2. Leased(wk[w]) /\ Owns(wk[w].job, wk[w].epoch)
      BY <2>1, <2>2, <3>1, StaysLeased DEF CalmWorker
    <3>3. versions[MyVersion(w)].opLease # 1 /\ versions[MyVersion(w)].opLease \in Lease
      BY <1>3, <2>1, <2>2, <3>2 DEF LosesLease, VersionRow
    <3>4. versions'[MyVersion(w)].opLease > 0
      BY <1>2, <1>4, <2>2, <3>2, <3>3 DEF Leased
    <3> QED
      BY <1>2, <2>1, <2>2, <3>2, <3>4 DEF Leased, Held, ForJob, SameHolder
  <2>5. RouteFirst(wk[w])' /\ BranchFirst(wk[w])'
    BY <1>2, <2>1, <2>2
    DEF CalmWorker, RouteFirst, BranchFirst, ForJob, Serves, NoBranchLeft, SameHolder, SameContent
  <2> QED
    BY <1>1, <2>1, <2>2, <2>3, <2>4, <2>5 DEF CalmWorker
<1>6. ASSUME NEW j \in Jobs PROVE CalmJob(j)'
  <2>1. CalmJob(j) /\ VersionOf[j] \in Versions
    BY JobsAssumption DEF CalmInv
  <2> QED
    BY <1>1, <1>2, <2>1 DEF CalmJob, SameHolder, SameContent, Serves, NoBranchLeft
<1>7. ASSUME NEW v \in Versions PROVE CalmVersion(v)'
  BY <1>2, <1>7 DEF CalmInv, CalmVersion, SameHolder, SameContent, NoBranchLeft
<1> QED
  BY <1>5, <1>6, <1>7 DEF CalmInv

LEMMA StutterCalm ==
  ASSUME CalmInv, UNCHANGED vars
  PROVE  CalmInv'
  BY DEF vars, CalmInv, Running, CalmWorker, Mine, Leased, Held, ForJob, RouteFirst, BranchFirst,
         Serves, NoBranchLeft, CalmJob, CalmVersion

LEMMA InitCalm == Init => CalmInv
<1> SUFFICES ASSUME Init PROVE CalmInv
  OBVIOUS
<1>1. \A w \in Workers : wk[w].pc = "idle"
  BY DEF Init, Resting
<1>2. \A j \in Jobs : jobs[j].status = "absent" /\ jobs[j].step = "deploy"
  BY DEF Init
<1>3. \A v \in Versions : versions[v].status = "pending"
  BY DEF Init
<1> QED
  BY <1>1, <1>2, <1>3 DEF CalmInv, Running, CalmJob, CalmVersion, NoBranchLeft

LEMMA NextCalm == MaxStalls = 0 /\ Inv /\ UndoInv /\ CalmInv /\ [Next]_vars => CalmInv'
<1> SUFFICES ASSUME MaxStalls = 0, Inv, UndoInv, CalmInv, [Next]_vars PROVE CalmInv'
  OBVIOUS
<1>1. ASSUME NEW w \in Workers, Claiming(w) PROVE CalmInv'
  BY <1>1, ClaimCalm DEF Claiming
<1>2. ASSUME NEW w \in Workers, Deploying(w) PROVE CalmInv'
  BY <1>2, DeployingAsideCalm, DeployingWritesCalm, DeployingJobsCalm, ClaimOperationCalm
  DEF Deploying
<1>3. ASSUME NEW w \in Workers, Failing(w) PROVE CalmInv'
  BY <1>3, FailingCalm
<1>4. ASSUME NEW w \in Workers, Undoing(w) PROVE CalmInv'
  BY <1>4, UndoingCalm
<1>5. ASSUME NEW w \in Workers, Keeping(w) \/ Discovering(w) \/ Crash(w) PROVE CalmInv'
  BY <1>5, KeepingCalm, DiscoveringCalm
<1>6. CASE (\E j \in Jobs : EnqueueJob(j)) \/ (\E v \in Versions : ThirdPartyDesire(v))
  BY <1>6, OutsideCalm
<1>7. CASE Tick
  BY <1>7, TickCalm
<1>8. CASE UNCHANGED vars
  BY <1>8, StutterCalm
<1> QED
  BY <1>1, <1>2, <1>3, <1>4, <1>5, <1>6, <1>7, <1>8 DEF Next

LEMMA CalmInvariance ==
  ASSUME MaxStalls = 0
  PROVE  Spec => [](Inv /\ UndoInv /\ CalmInv)
<1>1. Init => CalmInv
  BY InitCalm
<1>2. Inv /\ UndoInv /\ CalmInv /\ [Next]_vars => CalmInv'
  BY NextCalm
<1> QED
  BY <1>1, <1>2, UndoInvariance, PTL DEF Spec

LEMMA NoBranchWhenSettled == Inv /\ UndoInv /\ CalmInv => FailedVersionHasNoBranch
<1> SUFFICES ASSUME Inv, UndoInv, CalmInv,
                    NEW v \in Versions, versions[v].status = "failed",
                    \A j \in Jobs : VersionOf[j] = v => Settled(j)
             PROVE  ~versions[v].branch
  BY DEF FailedVersionHasNoBranch
<1>1. ASSUME versions[v].op # NoJob PROVE FALSE
  <2>1. PICK j \in Jobs : j = versions[v].op
    BY <1>1 DEF Inv, TypeOK, VersionRow
  <2>2. /\ VersionOf[j] = v /\ versions[v].opEpoch \in 1 .. jobs[j].epoch
        /\ jobs[j].epoch \in Nat
    BY <1>1, <2>1, BoundsAssumption DEF Inv, OperationFromClaim, TypeOK, JobRow, Epoch
  <2>3. jobs[j].status # "absent"
    BY <2>2 DEF Inv, AbsentUnclaimed
  <2>4. jobs[j].status \notin {"completed", "failed"}
    BY <2>1, <2>2 DEF UndoInv, FailedHoldsNothing, CalmInv, CalmJob
  <2> QED
    BY <2>2, <2>3, <2>4 DEF Settled
<1> QED
  BY <1>1 DEF CalmInv, CalmVersion, NoBranchLeft

(* Where no worker loses a lease while it runs, a failed version whose jobs  *)
(* have settled has no data branch, although forking and destroying it are   *)
(* not fenced: for any number of jobs of a version, workers, crashes and     *)
(* failed calls.                                                            *)
THEOREM NoBranchOnceFailed ==
  ASSUME MaxStalls = 0
  PROVE  Spec => []FailedVersionHasNoBranch
  BY CalmInvariance, NoBranchWhenSettled, PTL

(* Where no worker loses a lease while it runs and, as the API enqueues them, *)
(* each version has one job, a job is completed only when its version is     *)
(* ready and its route active, and it stays so.                              *)
THEOREM CompletedVersionServes ==
  ASSUME MaxStalls = 0, \A v \in Versions : OneJob(v)
  PROVE  Spec => []CompletedServes
<1>1. CalmInv => CompletedServes
  BY JobsAssumption DEF CalmInv, CalmJob, CompletedServes, Serves
<1> QED
  BY <1>1, CalmInvariance, PTL

-----------------------------------------------------------------------------
(* Who writes the step of a job under compensation. *)

StepsFenced ==
  \A j \in Jobs :
    Compensating(j) /\ jobs'[j].step # jobs[j].step =>
      \E w \in Workers : /\ wk[w].pc \in CompPCs \cup {"cstart"}
                         /\ wk[w].job = j /\ StepWritable(w)

(* Under compensation, the row's step is one of it already. *)
LEMMA CompensatingStep ==
  ASSUME CalmInv, NEW j \in Jobs, Compensating(j)
  PROVE  jobs[j].step \in CompSteps
  BY DEF CalmInv, CalmJob, Compensating

LEMMA SameStep ==
  ASSUME Inv, CalmInv, NEW j \in Jobs, NEW row, SetJob(j, row),
         Compensating(j) => row.step = jobs[j].step
  PROVE  StepsFenced
  BY DEF StepsFenced, SetJob, Inv, TypeOK

LEMMA PersistFenced ==
  ASSUME Inv, CalmInv, NEW w \in Workers, wk[w].job \in Jobs, NEW step, PersistStep(w, step),
         wk[w].pc \in CompPCs \cup {"cstart"}
  PROVE  StepsFenced
  BY DEF StepsFenced, PersistStep, SetJob, Inv, TypeOK

LEMMA SettleFenced ==
  ASSUME Inv, CalmInv, NEW j \in Jobs, NEW status, Settle(j, status)
  PROVE  StepsFenced
<1>1. PICK row : row = [jobs[j] EXCEPT !.status = status, !.lease = NoLease, !.worker = NoWorker]
  OBVIOUS
<1>2. SetJob(j, row) /\ row.step = jobs[j].step
  BY <1>1 DEF Settle, JobRow, Inv, TypeOK
<1> QED
  BY <1>2, SameStep

LEMMA HandedBackFenced ==
  ASSUME Inv, CalmInv, NEW j \in Jobs, ToCompensating(j)
  PROVE  StepsFenced
<1>1. PICK row : row = [jobs[j] EXCEPT !.status = "compensating", !.lease = NoLease,
                                       !.worker = NoWorker, !.step = Normalized(@)]
  OBVIOUS
<1>2. SetJob(j, row) /\ row.step = Normalized(jobs[j].step)
  BY <1>1 DEF ToCompensating, JobRow, Inv, TypeOK
<1>3. Compensating(j) => row.step = jobs[j].step
  BY <1>2, CompensatingStep DEF Normalized
<1> QED
  BY <1>2, <1>3, SameStep

LEMMA StepsStill == jobs' = jobs => StepsFenced
  BY DEF StepsFenced

LEMMA DeployingFenced ==
  ASSUME Inv, UndoInv, CalmInv, NEW w \in Workers, Deploying(w)
  PROVE  StepsFenced
<1>1. CASE jobs' = jobs
  BY <1>1, StepsStill
<1>2. CASE RequeueBusy(w)
  <2>1. wk[w].job \in Jobs
    BY <1>2, CalmFacts DEF RequeueBusy, Running
  <2> QED
    BY <1>2, <2>1, SettleFenced, StepsStill DEF RequeueBusy
<1>3. CASE WriteStep(w)
  <2>1. Running(w) /\ Early(wk[w])
    BY <1>3 DEF WriteStep, Running, Early, EarlyPCs, DeployPCs
  <2>2. PICK j \in Jobs : /\ j = wk[w].job /\ jobs[j].step = "deploy" /\ jobs[j].status = "claimed"
    BY <2>1, CalmFacts
  <2>3. SetJob(j, [jobs[j] EXCEPT !.step = "deploy"]) /\ ~Compensating(j)
    BY <1>3, <2>2 DEF WriteStep, Compensating, CompSteps
  <2> QED
    BY <2>3, SameStep
<1>4. CASE CompleteJob(w)
  <2>1. PICK j \in Jobs : j = wk[w].job
    BY <1>4, CalmFacts DEF CompleteJob, Running
  <2>2. PICK row : row = [jobs[j] EXCEPT !.status = "completed", !.lease = NoLease]
    OBVIOUS
  <2>3. SetJob(j, row) /\ row.step = jobs[j].step
    BY <1>4, <2>1, <2>2 DEF CompleteJob, JobRow, Inv, TypeOK
  <2> QED
    BY <2>3, SameStep
<1> QED
  BY <1>1, <1>2, <1>3, <1>4
  DEF Deploying, ClaimOperation, StepFails, WriteStatus, EndStage, AssertBeforeFork, Fork,
      AssertAfterFork, Qualify, SetRoute, FinalizeIdle, BootstrapProd, CronResidentDesire,
      DeployDone, ReleaseOperation

LEMMA FailingFenced ==
  ASSUME Inv, UndoInv, CalmInv, NEW w \in Workers, Failing(w)
  PROVE  StepsFenced
<1>0. wk[w].job \in Jobs
  <2>1. Running(w)
    BY DEF Failing, FinalizeFailure, MarkVersionFailed, AssertAfterFailed, StartCompensation,
           AbortWithoutOperation, FailNow, HandBack, Running
  <2> QED
    BY <2>1, CalmFacts
<1>1. CASE jobs' = jobs
  BY <1>1, StepsStill
<1>2. CASE StartCompensation(w)
  BY <1>0, <1>2, PersistFenced DEF StartCompensation
<1>3. CASE FailNow(w)
  BY <1>0, <1>3, SettleFenced, StepsStill DEF FailNow
<1>4. CASE HandBack(w)
  BY <1>0, <1>4, HandedBackFenced, StepsStill DEF HandBack
<1> QED
  BY <1>1, <1>2, <1>3, <1>4
  DEF Failing, FinalizeFailure, MarkVersionFailed, AssertAfterFailed, AbortWithoutOperation

LEMMA UndoingFenced ==
  ASSUME Inv, UndoInv, CalmInv, NEW w \in Workers, Undoing(w)
  PROVE  StepsFenced
<1>0. wk[w].job \in Jobs
  <2>1. Running(w)
    BY DEF Undoing, CheckOwnership, CompensateStep, DestroyBranch, DestroyFails,
           AssertAfterDestroy, StepIncomplete, PersistNext, PersistAndHandBack,
           FailCompensated, FailSuperseded, Running
  <2> QED
    BY <2>1, CalmFacts
<1>1. CASE jobs' = jobs
  BY <1>1, StepsStill
<1>2. CASE PersistNext(w) \/ PersistAndHandBack(w)
  BY <1>0, <1>2, PersistFenced DEF PersistNext, PersistAndHandBack, CompPCs
<1>3. CASE FailCompensated(w) \/ FailSuperseded(w)
  BY <1>0, <1>3, SettleFenced, StepsStill DEF FailCompensated, FailSuperseded
<1> QED
  BY <1>1, <1>2, <1>3
  DEF Undoing, CheckOwnership, CompensateStep, DestroyBranch, DestroyFails, AssertAfterDestroy,
      StepIncomplete

LEMMA BesidesFenced ==
  ASSUME Inv, UndoInv, CalmInv, NEW w \in Workers,
         Claiming(w) \/ Keeping(w) \/ Discovering(w) \/ Crash(w)
  PROVE  StepsFenced
<1>1. ASSUME NEW j \in Jobs, NEW mode \in {"deploy", "compensate"}, Claim(w, j, mode)
      PROVE  StepsFenced
  <2>1. PICK row : row = [jobs[j] EXCEPT
                            !.status = "claimed", !.lease = LeaseTicks, !.worker = w,
                            !.epoch = @ + 1,
                            !.step = IF mode = "compensate" THEN Normalized(@) ELSE @]
    OBVIOUS
  <2>2. SetJob(j, row) /\ row.step \in {jobs[j].step, Normalized(jobs[j].step)}
    BY <1>1, <2>1 DEF Claim, JobRow, Inv, TypeOK
  <2>3. Compensating(j) => row.step = jobs[j].step
    BY <2>2, CompensatingStep DEF Normalized
  <2> QED
    BY <2>2, <2>3, SameStep
<1>2. CASE Keeping(w)
  <2>1. wk[w].job \in Jobs
    BY <1>2, CalmFacts DEF Keeping, RenewJobLease, RenewOperation, Inv, GoodWorker, Running
  <2>2. PICK j \in Jobs : j = wk[w].job
    BY <2>1
  <2>3. PICK row : row = [jobs[j] EXCEPT !.lease = LeaseTicks]
    OBVIOUS
  <2>4. jobs' = jobs \/ (SetJob(j, row) /\ row.step = jobs[j].step)
    BY <1>2, <2>2, <2>3 DEF Keeping, RenewJobLease, RenewOperation, JobRow, Inv, TypeOK
  <2> QED
    BY <2>4, SameStep, StepsStill
<1>3. CASE Discovering(w)
  <2>1. jobs' = jobs \/ \E j \in Jobs : ToCompensating(j)
    BY <1>3 DEF Discovering, Discover, Reconcile, WorkerState, Inv, TypeOK
  <2> QED
    BY <2>1, HandedBackFenced, StepsStill
<1>4. CASE Crash(w)
  BY <1>4, StepsStill DEF Crash
<1> QED
  BY <1>1, <1>2, <1>3, <1>4 DEF Claiming, ClaimJob, ClaimCompensatingJob

LEMMA NextFenced == Inv /\ UndoInv /\ CalmInv /\ [Next]_vars => StepsFenced
<1> SUFFICES ASSUME Inv, UndoInv, CalmInv, [Next]_vars PROVE StepsFenced
  OBVIOUS
<1>1. ASSUME NEW w \in Workers, Deploying(w) \/ Failing(w) \/ Undoing(w) PROVE StepsFenced
  BY <1>1, DeployingFenced, FailingFenced, UndoingFenced
<1>2. ASSUME NEW w \in Workers, Claiming(w) \/ Keeping(w) \/ Discovering(w) \/ Crash(w)
      PROVE  StepsFenced
  BY <1>2, BesidesFenced
<1>3. ASSUME NEW j \in Jobs, EnqueueJob(j) PROVE StepsFenced
  <2>1. PICK row : row = [jobs[j] EXCEPT !.status = "pending"]
    OBVIOUS
  <2>2. SetJob(j, row) /\ row.step = jobs[j].step
    BY <1>3, <2>1 DEF EnqueueJob, JobRow, Inv, TypeOK
  <2> QED
    BY <2>2, SameStep
<1>4. CASE Tick
  <2>1. \A j \in Jobs : jobs'[j].step = jobs[j].step
    BY <1>4 DEF Tick, JobRow, Inv, TypeOK
  <2> QED
    BY <2>1 DEF StepsFenced
<1>5. CASE UNCHANGED vars \/ \E v \in Versions : ThirdPartyDesire(v)
  BY <1>5, StepsStill DEF vars, ThirdPartyDesire
<1> QED
  BY <1>1, <1>2, <1>3, <1>4, <1>5 DEF Next

(* Where no worker loses a lease while it runs, the step of a job that is    *)
(* being compensated is written by the holder of its claim alone, with the   *)
(* claim's lease running: UpdateJobStep, which asks for no claim, never      *)
(* meets such a row.                                                        *)
THEOREM CompensationFenced ==
  ASSUME MaxStalls = 0
  PROVE  Spec => CompensationStepFenced
<1>1. Inv /\ UndoInv /\ CalmInv /\ [Next]_vars => StepsFenced
  BY NextFenced
<1>2. Spec => [](Inv /\ UndoInv /\ CalmInv)
  BY CalmInvariance
<1>3. Spec => [][StepsFenced]_vars
  BY <1>1, <1>2, PTL DEF Spec
<1> QED
  BY <1>3 DEF CompensationStepFenced, StepsFenced

===============================================================================
