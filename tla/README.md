# cellp in TLA+

cellp is a control plane that deploys versions of Cloudflare-Worker-like bundles: it
fetches a bundle, forks the project's data with `offshoot`, runs the bundle with
`celld`, and routes traffic to it. Its state is one SQLite database. This directory
holds TLA+ models of its core logic, the TLC runs that check them, and proofs.
Paths below are relative to `src/cellp/internal/`.

## The system

| component | state it keeps | operations | what makes it correct |
|---|---|---|---|
| deploy pipeline (`orch`, `registry`) | `jobs` rows: status, step, lease, worker, claim epoch; in `versions` the deploy operation: job, epoch, lease | claim, renew, deploy step by step, fail, compensate, take over | one attempt at a time changes a version; a failed deploy is undone; every job ends |
| production switch (`orch`) | `projects.prod_version_id`, `previous_prod_*`, `routes.active`, offshoot's main branch, cron triggers of deployed manifests | promote with compensations, reconcile cron triggers | prod serves, only prod runs crons |
| version life cycle (`orch`, `api`, `gc`) | `versions.status`, `pinned`, process, data branch, job; the rows that refer to the version | create, archive, reaper pass, wake, destroy, pin, unpin, purge | prod is never archived, the last prod is kept for rollback, destroyed is final, nothing refers to a version that is gone |
| serving desire (`orch`, `gateway/activator`, `serve`) | `serving_desires`: replicas, reason, generation; the operators' pin in memory | qualify, activate, idle, promote, pin for a wake or an operator, keep resident for crons | each writer compares the generation; a demand is not lost to another's release |
| elastic scheduler (`elastic/scheduler`) | none of its own; a write lock in `controller_guard` | tick: place, start, probe, drain, stop, renew assignments, move the version's status | no more assignments than desired or than a node can hold |
| node agent (`elastic/agent`, `runtime`) | processes; `agent_commands`: token, lease, result | start, probe, drain, stop, reconcile after a restart | an endpoint is ready only while its process runs under a live assignment |
| node registration (`elastic/nodereg`, `elastic/registryrelay`, `agentrun`) | `runtime_nodes`: generation, lease, cordon, capacity; caches of nonces | status, activate, heartbeat, relayed calls, release | one life per generation; a superseded agent ends |
| route snapshot (`gateway`, `registry`) | `route_revision`, the last known good copy | build, poll, apply, wait for a publication | the copy is the registry's of its revision and catches up |
| gateway (`gateway`) | the route cache, the open listeners | resolve host, prod, route and endpoint; invalidate | a cached route is stale only for a known reason |
| activator (`gateway/activator`) | shared calls, slots, budgets | admit, join or start a flight, raise the desire, poll | one activation per version, bounded waiting, every request answered |
| port ledger (`registry`, `orch`, `gateway`) | `port_allocations`, `ingress_bindings.listen_port`, listeners | reserve, bind, detach, release, reconcile | a port has one holder, prod keeps its port |
| cellpd process (`serve`) | `controller_guard`: holder and pid | acquire, force, start the services, clean up, release | who writes holds the guard; the cleanup ends |

Who calls whom: the API starts `orch` calls in the goroutine of the request; workers
of `orch` poll the job table; the reaper, the garbage collector, the scheduler and
the snapshot poller are loops; agents are other processes that reach the registry
through registration and relay. They share nothing but the database, in which each registry
call is a transaction over a single connection. So the hard behaviours are these:
between any two registry calls of one actor, another actor may act, time may pass
or the process may die; a lease may end while its holder still runs; and what the
gateway holds in memory (cache, copy, flights, listeners) follows the database with a delay.

## The modules

| module | what it is |
|---|---|
| `DeployJobs` | the deploy pipeline |
| `AttemptLock` | what the deploy operation promises: a lock per version that each attempt holds at most once, and whose holder alone changes the version |
| `ProdSwitch` | the production switch and the life of deployed versions |
| `VersionRows` | the rows of versions from creation to the purge |
| `ServingDesire` | the writers of the serving desire and the pass that follows it |
| `Replicas` | node leases, assignments, the scheduler's pass, the node agents |
| `NodeLife` | lives of an agent process against registration and relay |
| `RouteSnapshot` | the routing tables, their revision and the gateway's copy |
| `GatewayRoutes` | the gateway's cache and a request through it |
| `Activator` | cold requests: admission, flights, answers |
| `PortLedger` | dedicated ports: ledger, bindings, listeners |
| `ControllerLife` | the controller guard and the life of a cellpd process |
| `*_proofs` | theorems, for every value of the constants: about the module of the name, and `Records_proofs` about `PortLedger` and `ServingDesire`, `Processes_proofs` about `NodeLife` and `ControllerLife`, `GatewayMemory_proofs` about `RouteSnapshot` and `Activator` |
| `MC*` | small instances for TLC |

Where two modules meet, one keeps what the other details: the desire of `ServingDesire` is `Wish`
in `Replicas` and `wanted` in `Activator`; `Replicas` is the single `rep` of `ServingDesire`; the
copy of `RouteSnapshot` is a choice in `GatewayRoutes`; a deploy is a few steps of `ProdSwitch`,
`VersionRows` and `GatewayRoutes`. `MCRaces`, `MCRecords`, `MCProcesses` and `MCProgress` hold several
scenarios, one of which the initial state chooses: each scenario is the specification
of one module, and the others stay where they begin. A state of one scenario therefore
says nothing about another; the scenarios are together to be run together.

## The deploy pipeline (`DeployJobs`, `AttemptLock`, `DeployJobs_proofs`)

### What the code does

`POST /versions` stores a version and enqueues a job in the `jobs` table of one
SQLite database. A pool of orchestrator workers (`orch/orchestrator.go`) claims
jobs. A claim sets `status = claimed`, a worker id, a 5 minute lease and a
`claim_epoch` that only grows. A worker that deploys then claims the *deploy
operation* of the version: three columns of the version's row that name a job, a
claim epoch and a second lease. The pair (job id, epoch) is an *attempt*. Most
writes of the pipeline are fenced: they are refused unless the attempt is the
one the version's row names (`deployOperationAssertInTx`). A goroutine renews
the two leases, one after the other, and cancels the worker's context at the
first refusal. A deploy that fails is compensated: desire, route, data branch and
operation are undone step by step; each step is persisted in the job's row, so
another worker can go on after a crash.

### How the model corresponds

| model | code |
|---|---|
| `jobs[j]` | a row of `jobs`; `lease` is the time left of `lease_expires_at` |
| `versions[v]` | the row of `versions` with the version's `serving_desires.reason`, its route and whether its data branch exists |
| `prod` | `projects.prod_version_id` |
| `wk[w]` | what a worker goroutine has in its local variables, `pc` says which call comes next, `keeper` is the goroutine that renews the leases |
| `Tick` | the passing of time, for every lease |
| `Crash` | the end of the process that runs the worker |
| `ThirdPartyDesire` | a desire written by an activation, an operator, a promotion |

Every registry call is one SQLite transaction over one connection, and is one
action. Whatever lies between two calls is a point where other workers, time
and crashes intervene. A call that fails for a reason the model does not keep
(network, file system, SQL) is a nondeterministic failure of the step.

A *stall* is a tick that takes a lease away from a worker that still runs: the
renewing goroutine was late. The code is built for that case, which is what the
fence is for; `deploy_stall` and `deploy_takeover` have one stall. The steps that are
not fenced rely on the absence of stalls, and their properties are checked in
`deploy_live`, where workers crash but do not stall, and proved for that case.

### What is checked

| run | question |
|---|---|
| `deploy_stall` | one job, one stall, three claims: is at most one worker behind the fence (`FenceExclusive`), are attempts unique and rows well formed (`ClaimsSound`: `AttemptsDistinct`, `ClaimedLease`, `OperationFromClaim`), is a failed deploy undone (`FailedDeployUndone`), does the pipeline implement the lock of `AttemptLock` (`ImplementsLock`)? |
| `deploy_takeover` | two jobs of a version that is not elastic, which takes another path through deployment: the second job waits for the operation or takes it over from a worker that may still run. Does a failed job hold nothing (`FailedHoldsNothing`), is the route off when both have failed (`FailedDeployUndone`)? |
| `deploy_live` | crashes and failing cleanups, no stall: does every job settle (`EventuallySettled`), is no data branch left of a failed version, does a completed job serve, are compensation steps written under their claim? |

Bounds. One version and one or two jobs: nothing in the pipeline relates different
versions but the bootstrap of prod. Two workers: the fence is between a stale and a
current attempt. Three claims of a job (`MaxEpoch`) let the stale worker be followed
by two others, six in `deploy_live` leave each fault its claims of deploy and
compensation. `LeaseTicks` is 1: the code only asks whether a lease has passed. One or two faults
and one stall: each of them starts one more take-over. In `deploy_takeover` the
constraint `SecondAfterStall` lets the second job come only after the stall and
follows its worker until it is about to fork, because the case of interest is the
take-over.

Fairness (`deploy_live`). A worker that is not crashed goes on (weak fairness of its
steps; a Go routine that is not blocked runs, and every call has a timeout). Its loop
(`runWorker`) asks for a job and for a compensation in every round, so a claim that is
possible again and again is made (strong fairness). Time passes. No fairness is
assumed of crashes, of failures or of success.

### What is proved

`DeployJobs_proofs` proves `Spec => []Inv` with
`Inv == TypeOK /\ ClaimedLease /\ OperationFromClaim /\ AttemptsDistinct /\ AbsentUnclaimed /\ GoodWorker`
and from it `FenceExclusive`, the property the pipeline rests on. `FenceExclusive`
alone is not inductive: that two workers do not both pass the fence needs that no two
workers have the same attempt (`AttemptsDistinct`), and this needs that epochs of
workers and of operations come from claims already made (`OperationFromClaim`), with
epochs that only grow. `GoodWorker` says what a running worker's control point implies
of its local variables. The proof assumes nothing but the assumptions on the
constants, and bounds neither workers, jobs, claims nor stalls. The argument has one
lemma per group of actions: all but a claim and a tick are a `SmallStep`, which replaces
at most one row of each table by a good one and says what the row may differ in.

It also proves the refinement, `Spec => ImplementsLock`. `SmallStep` sorts the
writes of a version's row into harmless ones (the operation kept or let go, status and
route kept), writes under the fence, and the grant of the operation; they are `Lose`,
`Write` and `Grant` of `AttemptLock`. A claim and a tick are `Lose`: an operation taken by an
earlier epoch stops counting when the job is claimed again. That a job enqueued later
cannot revive an operation needs `AbsentUnclaimed` (a job that is not enqueued has epoch 0);
that a grant is the job's first use of its epoch needs `AttemptsDistinct`.

A second inductive invariant, `UndoInv`, gives `FailedHoldsNothing` and
`FailedDeployUndone`. Neither is inductive: what a failed deploy left behind depends on
where the attempt, or the job's row, stands. `UndoInv` says for every place what is
undone when it is reached: `Cleared(v, step)` for the compensation that stands before
`step` (read from the row while nobody works on it, from the worker while somebody
does) and for a version that no operation holds; `LetGo` for a worker about to write
"failed" (its claim has lapsed, or its job no longer holds the operation). `GoodRow` collects what a worker
knows at each of its control points. A stalled worker's writes do no harm since each is
fenced (`Raised`: only the owner of the operation writes) or only takes away
(`Lowered`). The step lemma has one case per action; each action is sorted into what
it may do to the jobs (`JobsMild`) and to the versions (`VersionsMild`).

The desire part of `FailedDeployUndone` is stated for versions with one job (`OneJob`).
The API enqueues only one (`api/server.go:401` is the only call of `Enqueue`, once per created version);
the job table does not enforce it. With two jobs on one elastic version and a crash,
TLC finds the desire of the one job outlasting the failure of the other, until
`Discover` takes it up; the first attempt at the proof stopped there.
`ReasonsAssumption` (job ids, which are UUIDs, are none of the other reasons of a
desire) is used here only.

A third inductive invariant, `CalmInv`, is for the writes that are not fenced: forking and destroying the
data branch, the job's step (`UpdateJobStep`), completion. They rest on workers that keep their leases or die, so its
theorems assume `MaxStalls = 0`, the constant of `deploy_live`; they bound neither crashes, failed calls, claims, jobs
nor workers. `CalmWorker` says that a running worker's claim is its own and its lease runs, so no two work for one job,
and that from the grant of the operation to its release (`HoldingPCs`) the operation is the worker's and its lease runs
(`Leased`), so no two write to one version. The rest follows one attempt: `RouteFirst` says at which places the version
is ready and its route active, `BranchFirst` at which a failed version has no branch left, `CalmJob` what a row's step
and status say of that while nobody works on it, `CalmVersion` that an operation is not released before. `CalmJobs` and
`CalmVersions` show once that a step which writes one row of its own, or of nobody's, disturbs no other worker;
`TickCalm` is the only place that uses `MaxStalls = 0`. TLC checked `CalmInv` first, on the constants of `deploy_live`
and with two jobs.

- `FailedVersionHasNoBranch` (`NoBranchOnceFailed`): also where a version has several jobs. A failed version keeps a
  branch only while a job holds its operation, and a settled job holds none.
- `CompletedServes` (`CompletedVersionServes`): assumes that each version has one job, as the API enqueues them; a
  second job could deploy a version that serves again, and fail.
- `CompensationStepFenced` (`CompensationFenced`): a worker that is deploying finds the step "deploy" in its row, so the
  unfenced write changes no step of a compensation.

Only model-checked: liveness (`EventuallySettled`), which the prover cannot treat.

## Production and the life of versions (`ProdSwitch`, `ProdSwitch_proofs`)

### What the code does

`Promote` (`orch/orchestrator.go`) is a saga: drain and switch off the old prod's route,
promote the data onto offshoot's main branch (a hard gate), then commit pointer and
route in one transaction with a compare-and-set on the pointer, then raise the
desire of an elastic version. A failure runs the compensations of the steps done, in
reverse, dropping their errors. A goroutine it leaves behind deploys the new and
the old prod again, with and without cron triggers. `Archive`, the reaper, `Wake` and
`Destroy` read the version, check it, and write several times.

### How the model corresponds

| model | code |
|---|---|
| `project` | `prod_version_id` (`NoVersion` is NULL, `Blank` the empty string), `previous_prod_version_id`; `kept`: `previous_prod_at` is within `RollbackKeep` |
| `versions[v]` | status, pin and route of the version, whether its manifest has crons, where its process runs (at the address the route records, elsewhere, or nowhere), whether its data branch exists |
| `main` | the version last promoted onto offshoot's main branch |
| `dep[v]` | the four steps of a deploy that meet production |
| `call[a]` | a call under way: its next step and its local variables |
| `cron[s]`, `pass` | the reconciliation left behind; the reaper's list and the project it read |
| `CutShort` | the client's context ends, or cellpd stops |

A write whose error the code drops (`_ = o.store...`) is `Dropping(write)`: done, or
not done and counted as a fault. `MaxCalls` is the number of calls under way at a
time; with 1 the calls of the run are made one after the other, each with whatever its
own failures leave behind for the next one. `races` has 2.

### What is checked

| run | question |
|---|---|
| `switch_calls` | all operations on a version and its elastic fork, with two failures and a cut: does prod serve after every call that at most one failure hit (`ProdServes`), is prod never archived (`RowsKept`), destroyed final and the previous prod kept for rollback (`LifeKept`)? |
| `races`, scenario `switch` | two promotions at a time with deploys and reconciliations in between: whoever wins, does prod serve? |
| `processes`, scenario `switch` | three versions that are not elastic, a call cut at any step: is only prod armed (`OnlyProdArmed`), is an archived version off (`ArchivedIsOff`), does every version that serves or can be woken have its data (`ServedHasData`)? |

Bounds. Two versions are enough for old and new prod; a third is there where a
bystander matters (children, two promotions that replace a prod). Faults and cuts
are 0 to 2, each instance says how many. `races` is symmetric in its versions,
which are all elastic roots. No liveness is claimed: each
call is a straight line of steps.

### What is proved

Most of `ProdSwitch_proofs` treats calls that are made one after the other (`OneCall`, that is
`MaxCalls = 1`), each beginning with whatever the failures and the cuts of the earlier ones
left behind: for any number of versions, of slots, of faults and of cuts, elastic versions or
not. That hypothesis is the one under which the properties hold: with overlapping calls
an archive and a promotion make an archived version prod (see "Findings"), so
`races` only checks `ProdServes`, for promotions and reconciliations; the end of the module proves that
for any number of promotions (below), and that every variable keeps its type (`TypesKept`) with any
calls at a time. Two assumptions on
the constants, that `Versions` and `Slots` are finite sets and that the names of actors and
versions differ, let "one thing is under way" (`Room`, a cardinality) be read as "nothing else is".

`SwitchCorrect` proves `OneCall /\ Spec => []AllInv`, with
`AllInv == SwitchInv /\ ServesInv /\ DataInv /\ OffInv /\ ArmInv`. None of the checked properties
is inductive: they speak of a moment when nothing is under way, and what holds then depends on
what each call knew at each of its steps.

- `SwitchInv` gives that knowledge: `PromoteFits` (from the first switched route to the
  commit the pointer is what the promotion read; after the commit it is the target, whose
  route is on), `ArchiveFits`, `CronFits`, `DeployFits`, and `PassFits` (nothing moves the previous prod
  while the reaper goes over its list). It includes the type invariant and `NeverArchiveProd`.
- `ServesInv` says who may find the route of a ready prod off: a promotion between its drain
  and the end of its undoing, or a destroy. With it a single fault has one place left to be
  (`faults <= 1`), and each undoing switches the old route on twice.
- `DataInv` and `OffInv` are for behaviours without a fault, since a status write that is dropped
  breaks both; cuts are allowed, because the order of the writes is safe at each of them.
- `ArmInv` says whose cron triggers are still to be taken away (`ToDisarm`) and that a first deploy
  arms only a version of a project without prod.

The theorems `RowsStayKept`, `ProdGoesOnServing`, `DataIsKept`, `ArchivedStaysOff` and `ArmedIsProd`
follow from it; the last also needs that no version is elastic, as a replica that
moves is not asked by the reconciliation. `LifeGoesOn` (`LifeKept`) has one more lemma per action, `StatusSafe`:
no step writes the status of a destroyed version, and only the last step of an archive writes "archived".
The proof of a step goes through one of a few lemmas for its kind (`PlainStep`, `RouteStep`, `ArchiveStep`,
`DestroyStep`, `CronGoes`, `DeployGoes`), which say what it has to meet.

`RacesGoOnServing` is about promotions that overlap, any number of them, with deploys, reconciliations, pins
and moves in between (`OnlyPromotes`, a condition on `Ops` and on no bound): with `faults = 0` `ProdServes`
holds. Its invariant `RaceInv` says that the route of prod is on unless a promotion that drained this version
is between its drain and its commit or the end of its undoing (`Owes`): if the compare-and-set of that
promotion succeeds prod moves on, if it fails the route is switched on again, also when prod has
meanwhile gone to another version and come back. It needs that nothing is drained before the first prod, so
that the bootstrap of a first deploy finds the route on. Failures are excluded because the gate's refusal
switches off the target's route, which another promotion may have made prod. TLC went through `RaceInv` with
three promotions of two versions at a time, a fault and a cut.

Not in the model: environment and ingress side effects of `Promote` (their failures
are only logged), the time conditions of `MayArchive` (grace and idle time: any ready
version may be past them), replicas (in `Replicas`, where promotion is one of the causes of `Wish`).

## Replicas of elastic versions (`Replicas`, `Replicas_proofs`)

### What the code does

An elastic version has a *desire*: how many replicas, and a generation. The scheduler
(`elastic/scheduler`) passes over the versions one after the other: it fails assignments
that have ended, renews those about to end, calls the agent of each replica's node
(start, probe, drain or stop), and claims new assignments for what is missing. A
second lane renews assignments while a pass is stuck in a call. An assignment
(`runtime_replicas`) has a lease that never exceeds the node's, and the generation of
the node it was made for. The agent (`elastic/agent`) serves the calls, each in a goroutine
that may go on when the scheduler has given up, and reconciles its processes with the
rows in a loop. A replica that is ready or draining has an endpoint
(`runtime_replica_endpoints`), which gateways route to.

### How the model corresponds

| model | code |
|---|---|
| `nodes[n]` | a row of `runtime_nodes`: generation, lease, cordon |
| `reps[r]`, `eps[r]` | rows of `runtime_replicas` and `runtime_replica_endpoints`; the state `absent` is no row |
| `cmds[r]` | the start command of the replica in `runtime_agent_commands`: its key is made of replica and generation |
| `procs[r]` | the process in the table of the agent's runtime manager: none, not healthy (`sick`), healthy (`up`) |
| `agents[n]` | the loop of `ReconcileNode`: its next step, the rows and processes it read |
| `hs[h]` | a request an agent serves: its next step, its scope's lease, the row it read, its command token |
| `pass` | the scheduler's pass: the nodes and the time read at its beginning, the rows, the replica at hand |
| `want` | the version's row of `serving_desires`; `Wish` changes it |
| `Observe`, `Refusal`, `Terminalize`, `Withdraw`, `Validity`, `Renew`, `Commit` | the registry's transactions, used by the actions of scheduler and agent |
| `Down`, `Leave` | the end of an agent; an orderly one waits for its requests and releases the lease |

Times are absolute and the same for everyone, as all of them are written and compared in
UTC; `Tick` advances the clock between any two steps. The context of a request
(`live`) ends when the scheduler gives up (`PassGivesUp`): steps under that context fail
from then on, steps under a context of their own do not. The lifecycle lock of a
replica is held while its process is started and waited for (`Locked`).

### What is checked

| run | question |
|---|---|
| `replica_faults` | one replica that is wanted or not, and one fault: a crash, a shutdown, a cordon, a start, a call or a process that fails. Is nothing published whose assignment is fenced (`FencedNotPublished`), is no process kept from an earlier life of the node (`AgentsSound`), do endpoints have the state and the lease of their rows (`EndpointFollowsRow`)? |
| `replica_endpoint_leaves` | the same with one request at a time: does the endpoint of a dead process leave (`DeadEndpointLeaves`)? |
| `replica_renewals` | two replicas where one is wanted, heartbeats, the renewal lane and the pass: do assignments stay within the node's lease (`LeaseWithinNode`), does a pass fail no live assignment (`DropsOnlyDead`), do claims stay within the desire (`ClaimsWithinDesire`)? |

Bounds. One node: a replica is never moved, it is replaced by another, and what nodes
share is only the count of the claim. One replica id in `replica_faults`, as the hazards
are between the actors on one replica; two in `replica_renewals` so that a claim meets a
place that is taken again. The clock ends at 2 (at 1 in `replica_endpoint_leaves`), with leases of 1 (they end during the
instance) or of 2 with heartbeats that move them. In `replica_faults` the agent serves two
requests at a time, one that was given up and its successor; elsewhere the scheduler
waits for the end of the one it gave up. One fault is one fault in the whole instance, a
call given up included.

Fairness (`replica_endpoint_leaves`). The loop of an agent that lives goes on, and so do the
requests it serves (weak fairness of `Reconciling` and of `Handling`): goroutines whose
calls have timeouts. Nothing is assumed of scheduler, clock and heartbeat, so an
endpoint leaves by the agent's own doing or the agent is down.

### What is proved

`Replicas_proofs` proves all six safety properties, for any number of nodes, replicas, handlers, faults and lengths
of leases. The assumptions are the constants' types, that `Replicas` is finite, and that at least one replica
may be wanted and the clock may move (`MaxWant` and `MaxTime` are not 0; a deploy refuses a policy with
`MaxReplicas < 1`, `orch/elastic_deploy_qualification.go:98`).

What a transaction writes depends on what an actor has read long before: the scheduler's pass holds rows and a
time, an agent's loop rows and processes, a request the row and the lease of its scope. So `Inv` (theorem
`Invariance`) says of each actor, at each of its steps, what its reads still are worth:

- `GoodRow`: a replica is placed on a node or absent; its generation is one the node has had, and while that
  generation is the present one of a live node its lease ends no later than the node's, also when it has ended,
  since a failed replica may be started again.
- `GoodProc`, `GoodHandler`, `GoodAgent`: who has a process, or has passed the check of the generation, works
  for an assignment of the node's present life. That does not change under it, because a node gets a new
  generation only when its agent has ended, and its loop, requests and processes with it (`OneAgent`,
  `Emptied`).
- `GoodPass`: the replica at hand is placed, and each decision keeps the facts it needs of the rows and the
  nodes it read (`Reads`), so that a drop still concerns an ended assignment when it is written.

All actions but one are `Mild` steps: they leave every replica where it is, no node goes back in generations, a
running agent's node keeps its own, and every table, loop and request is again one that `Inv` allows.
`MildKeeps` shows once that such a step keeps `Inv` and publishes nothing that is fenced; each action then has a
lemma that it is mild. The one action that is not is the claim of a free id for a node (`Claims`, `ClaimKeeps`):
it compares the count with the desire in its own transaction, and this is what `ClaimsWithinDesire` rests on, a
statement about a cardinality.

`DeadEndpointLeaves` is liveness and stays with TLC.

Not in the model: other versions (their replicas only take capacity), anti-affinity,
the version's status and the controller guard (both in `ServingDesire`), the agent of
`agentrun` (its life is in `NodeLife`), processes that outlive their agent.

## The rows of versions (`VersionRows`, `VersionRows_proofs`)

`POST /versions` counts the pending jobs, inserts the version and enqueues its job in three
transactions. `Archive` and `Destroy` write the status twice, around the route, the process
and the data. The collector deletes, in one transaction, what was destroyed long ago, and old
job rows in another.

| model | code |
|---|---|
| `vrows[v]` | the row of `versions` (status, whether it is old enough), its job with its stage, its route, and `kin`: the other rows that refer to it |
| `calls[c]` | an API request: its operation and its next step |
| `CellpdStops`, `cut` | cellpd stops; the versions whose call was under way |

Scenario `rows` of `races`: two versions, the second created from the first, two requests at
a time, a queue of one, one stop. `RowsSound` says that the queue exceeds its limit by no more
than the requests that counted before (`QueueOvershoot`), that no row refers to a version that is
gone (`NoDanglingRows`), and that a version is stuck without a call that takes it further
only after a stop (`StuckOnlyByStop`). Deploy and life cycle are as coarse as the fates of rows
allow, the other modules have them in full. Sweeps of files are not modelled.

`VersionRows_proofs` proves `RowsSound` for any number of versions, any finite number of callers and any
queue. `VrInv` strengthens it by what a row may look like in each status (`RowsFit`), what a request
knows of its version at each step (`RequestsFit`, which has to survive the steps of every
other request: the calls interleave), which version of a caller keeps a status from being stuck (`InHand`), and
by `QueueHeld`: pending jobs and the creations that have counted them are at most the bound and one less
than the callers. The last is a statement about cardinalities, and rests on `Callers` being finite.

## The serving desire (`ServingDesire`, `Records_proofs`)

Each writer of `serving_desires` reads the row, decides, and writes with a compare-and-set on
the generation; some try again, some give up. Operator commands of one version share a pin
in memory: the first raises the desire, the last lowers it again. The scheduler's pass reads
policy, desire and replicas one after the other, moves the replica, and moves the version
between `deploy_ready` and `ready` with a transaction that checks again.

| model | code |
|---|---|
| `desire`, `policy`, `vers` | rows of `serving_desires`, `serving_policies`, and the version with its route and whether it is prod |
| `rep` | the version's replica: none, starting, ready |
| `pin` | `operatorServingEnsurer.active`: its count, whether the raise was its own, the row before |
| `job[p]` | a process: its next call, the row it read, its attempts |
| `sdPass` | what the pass has read |
| `cast` | the processes of a behaviour |

Scenario `desire` of `records`: seven casts of two or three processes, the pairs that write for
different reasons. `PinsHold`: while the pin is the operators' own, a command that runs has its
demand, and when only operators have acted the version is wanted by nobody in the end.
`CooledUnwanted`: the status moves to `deploy_ready` only when at that moment nobody wants the
version, however old the reads of the pass. More than two attempts (`CasAttempts`) repeat the same
read and write.

`Records_proofs` proves both for any number of processes of every kind, any casts and any number of attempts; it
assumes that `Operators` is finite (they are counted), that the names of operators are those of no other process,
and that wakes are none of the flights, deploys, promotions and crons. What a process has read is of an older
generation or is the row itself (`Past`), which is why its compare-and-set, if it succeeds, decides on the row
that is there. Around it `SdInv` has three parts. `OneFirst`: one operator at a time raises the desire for the
others, the pin is not their own before it has succeeded, and it raises only where it has found no demand.
`OneDrop`, as long as no wake has begun: an own pin means that the demand is there, only one operator lowers it,
and no operator raises meanwhile. `SomeoneLowers`, for behaviours of operators alone that meet no error:
whenever there is a demand, somebody is left who takes it away. `CooledUnwanted` needs only that a pass about to
cool read no demand: the transaction compares the generation.

## Lives of an agent (`NodeLife`, `Processes_proofs`)

A standalone agent asks for the node's status, activates the next generation, reconciles, opens
its listener, and then sends heartbeats and relayed calls from one loop. The controller
checks a request (nonce, window, the node's row) and writes in a later transaction. An answer can be
lost, and a request that was given up may still be written. The agent treats some answers as
fatal and the others as passing.

| model | code |
|---|---|
| `node` | the row of `runtime_nodes`: generation, end of the lease |
| `seen` | the replay caches of registration and relay |
| `life[l]` | a start of the process: its next step, its generation, whether the listener accepts, commands under way |
| `requests` | requests on their way, and answers not yet heard |

Scenario `node` of `processes` and of `progress`: two lives (a restart while the old process still
runs is the case of interest), one lost answer, refusal or crash; the clock ends at 2.
`NodesFenced`: no two lives hold one generation. `ReleasedIdle`: a lease is given back only when
its life neither runs nor accepts a command. `SupersededEnds`: a life whose generation was taken
over ends. Fairness for the last: the controller handles a request that waits, the agent hears an
answer and its waits end (weak fairness), and the ticker of the heartbeat fires again and again
(strong fairness: the other cases of the loop's `select` may come between).

`Processes_proofs` proves the two safety properties for any set of lives, any times to live and any number of
commands and faults. That no two lives hold one generation rests on the compare-and-set of the activation, but a
life learns of its generation from an answer that may come late, or from a request that was checked long before
it is written. `LifeInv` therefore ties requests to lives and to the node's row: a life waits for at most one
answer and an activation is won by one request only (`Single`); a generation that was won is behind the row's
and is no life's until the answer is heard (`GoodRequest`). For `ReleasedIdle` it says that a life asks for its
release only when it has closed its listener and its commands have ended.

## The route snapshot (`RouteSnapshot`, `GatewayMemory_proofs`)

A snapshot is built in one read transaction. A poll compares the revision, builds, and applies, without
a lock over the whole; the ticker and every waiting deploy poll. Writes of the tables move
`route_revision`, the end of a node does not.

| model | code |
|---|---|
| `table`, `cordon`, `rev` | versions with their endpoints and routes, the node's cordon, `route_revision` |
| `held` | `RouteSnapshotHolder`: the revision and the endpoints of the copy |
| `poll[p]` | `PollOnce` of the ticker or of a deploy: next step, what it read |
| `wait` | the deploy that waits until its version is published |

Scenario `publish` of `progress`: an enrolled version whose deploy waits and a legacy version, two pollers, two
revisions, one read that fails. `CopyCurrent`: a copy whose revision is the registry's routes what the
registry would publish now. `HolderCatchesUp`: when the tables are at rest the copy comes to
their revision, under weak fairness of the ticker's poll.

`GatewayMemory_proofs` proves `CopyCurrent` for any number of versions, pollers, revisions, errors and any
times to live. The copy is compared with the tables only when its revision is theirs, so `SnInv`
speaks of every snapshot on its way as well: what a poller has built belongs to its
revision, revisions of built snapshots are at most the registry's, and one of the current revision
has the endpoints that are public, but for those a node's end took away without moving it.

## A request in the gateway (`GatewayRoutes`, `GatewayRoutes_proofs`)

The gateway resolves host, prod pointer, route and endpoint through a read-through cache. Writers
go through a store that drops the entries after it has written.

| model | code |
|---|---|
| `row`, `state` | bindings, prod pointer, routes; the versions' statuses |
| `cache` | `RouteCache`, its entries by table |
| `op` | the operation under way, its writes to come and the keys it will drop |
| `reqs[r]` | a request: its next lookup and what it found |
| `excuse` | history: why an entry may differ from its row |

Scenario `routes` of `records`: two versions, one of them enrolled, one request, a cache of one
entry per table, two operations or failed reads. `RoutesExcused`: an entry differs from its row only while
its invalidation is under way, or because the row was written past the invalidating store, a
lookup filled it with what it had read before, or a failed read was cached as absent; and a
request that meets a version asleep all along (archived, and nobody wakes it) is not proxied to it but
for these reasons. A version that is not enrolled is still "archived" when `Wake` switches its route on: it counts
as awake from the beginning of that call. The time to live of
entries is an expiry at any moment; negative entries, which last 60 seconds, expire like the others.

`GatewayRoutes_proofs` proves `RoutesExcused` for any number of versions, requests, operations and failed
reads, any size of the cache, and ports of either kind. `GwInv` adds to it: what an operation has still to
write, by its kind (`OpFits`: every write but one past the store drops the entries of its rows; no operation but
the wake turns on or drops the route of an archived version; an archive records "archived" only after its route
is off; a wake that has not recorded "ready" has still to do it); the route of a sleeping version is off and no
drop of its entry is to come (`SleepersOff`); prod is not archived; what a request read and has yet to
fill in is the row, or there is a reason (`FillFits`); and the versions a request found asleep still are (`OffFits`).
The proof has one lemma per action, and for a write one per kind of operation.

## The activator (`Activator`, `GatewayMemory_proofs`)

A request without a warm endpoint takes a waiter and its body's bytes from the budget and joins
the call of its key, or is told to retry while a call runs in the background. One action is one
critical section of `Group.mu`, `Budget.mu` or `FlightLimiter.mu`.

| model | code |
|---|---|
| `asks[r]` | a request in `Admit` or `WakeAfterDeadEndpoint`: next step, key, body |
| `flights[k]` | `Group.m`: what the goroutine of the call has reached, whether it gives a slot back |
| `slots`, `budget` | `FlightLimiter`, `Budget`, in all and per version |
| `cold[v]` | what registry and snapshot say of a version |
| `group` | the shutdown of the activator |

Scenario `activate` of `progress`: two requests of one version, bodies below, at and above the limit. `AdmissionSound`:
budgets are what their waiters hold, slots are not fewer than the flights that hold one, a
closed group has no flight, a waiter has a flight or an answer. `EveryAskAnswered`: under weak fairness of
the steps of requests and flights, whose waits all end by deadlines, each request is answered; its own
deadline is not relied on. `activator_slots` is the finding below.

`GatewayMemory_proofs` proves `AdmissionSound` for any number of requests, versions and generations and any
limits, if requests and versions are finitely many. The budget keeps each of its numbers twice, in all and per
version, and gives back with a floor at zero (`Less`), so that it counts right is a statement about sums: that
of a version is what its waiting requests hold, and that of all is the sum over the versions. A sum is the
cardinality of a set of units (`Units`, `Total`), and the lemmas `TotalMore`, `TotalLess` and `TotalAtLeast` say
what one changed entry does to it and that no entry exceeds it; so the floor is never reached. `BudgetTaken` and
`BudgetGiven` are the two steps that move the budget, `SlotTaken` and `SlotGiven` those that move the slots. For
the slots only "at least" can be proved, by the finding; what they must cover is `Claimed`, the flights that
give a slot back and the requests that bring one. `ActInv` adds that only a request on its way to a new flight
brings a slot (`NewKnown`), and that a flight which returned has its result (`ResultKnown`), without which its
waiters would be left without flight and answer.

## Ports (`PortLedger`, `Records_proofs`)

A dedicated port is a row of the ledger, a number in the binding and an open listener. The registry
attaches and detaches in transactions; `ListenerManager.Reconcile` goes over the rows one call at
a time, opens what is missing and releases what it takes for an orphan.

| model | code |
|---|---|
| `ledger` | the active row of each port: its id and owner |
| `bound` | `ingress_bindings`: active, port |
| `open`, `rec`, `due` | `ListenerManager.servers`, a reconciliation under way, one that is asked for |
| `tier`, `created`, `had`, `lost`, `mishaps` | a project's tier, whether it exists, the ports it had; rows lost; restarts and errors so far |

Scenario `ports` of `records`: two projects for two ports, so that the pool runs out and freed ports
are taken by the other project; three ledger rows, one restart or error. `LedgerSound`: an active binding
has its row, owners have one row, ports have one holder, and after the last reconciliation
the listeners are those of the ledger; `ProdPortStable`: prod keeps its port. Both leave out the one
way in which a row is lost (`PortLedgerRule` below).

`Records_proofs` proves both for any number of projects, any range of ports, and any number of rows and mishaps.
`PortInv` adds to them: which owners a project may have in its tier (`OwnersSound`), that what calls
have read of a port is still the port of the binding (`ReadsSound`: `had` remembers it), that ids of rows are
not used again, so a row the reconciliation listed either is gone or was only handed from the
reserve to the prod binding (`ListSound`, `Follows`), and that the ports seen together with those still on the
list are the ports that are served, unless another reconciliation was asked for (`ListenSound`).

## cellpd (`ControllerLife`, `Processes_proofs`)

`serve.Run` acquires the guard (a holder whose pid is dead is cleared, `--force` takes it anyway), starts its
services, and at the end stops them in order under one deadline before it gives back the
lease of its embedded agent and the guard.

| model | code |
|---|---|
| `guard` | `controller_guard`: holder and pid |
| `cellpd[p]` | a process: its next step, the holder it saw, which services are up, the lease of its agent, whether the cleanup met its deadline |
| `setbacks` | crashes, failed starts and failed stops so far |

Scenario `cellpd` of `processes` (three processes: one that dies and two that want its guard) and of
`progress` (one process). `GuardSound`: a process whose services run is the holder. `LeaseReleasedQuiet`: the
agent's lease is given back only when nothing of the process can use it. `CleanupEnds`: the cleanup ends,
under weak fairness of its steps and of its deadline.

`Processes_proofs` proves the first two for any number of processes, tries and setbacks. A
process that writes is the holder because its services come up after it took the guard, because the
guard is cleared only of a holder that is dead, and because it is given back only after a cleanup in
which no wait was given up. The inductive `GuardInv` says the second of every process that has read the
guard (the holder it saw is dead and stays dead), and says for each stage of the cleanup which services are gone
if the process still counts as quiesced. `QuietRelease` is the action property for the stage "lease".

## Findings

`activator_slots` ends with a counterexample to a sentence of the repository.
`beginSharedActivation` (`gateway/activator/activator.go:247`) asks whether a call runs, takes a slot of the
flight limiter and starts the call in three critical sections. When another request starts
the call of the key in between, the request joins it: the function that would give the slot back
never runs, no error is returned, and the slot stays taken. `FlightLimiter` then no longer "bounds
concurrent activation flights" (`admission.go:5`) but their number minus the slots lost.

Further sentences of the repository do not hold of the models. Their formulas stand in the modules;
each can be checked with the constants given here.

| formula | sentence | what happens |
|---|---|---|
| `ProdSwitch!NeverArchiveProd`, `MaxCalls = 2` | `docs/decisions.md:267` "永不 archive prod" (never archive prod) | a promotion commits between `Archive`'s look at the pointer (`orch/archive.go:104`) and its writes |
| `ProdSwitch!FailedPromoteKeepsProd`, a project without prod | `docs/decisions.md:80` | the undo of a first promotion (`orch/orchestrator.go:488`) writes an empty string where NULL was (`registry/sqlite.go:908`); no promotion of the project succeeds afterwards |
| `Replicas!TerminalNotRevived`, the constants of `MCReplicaFaults.cfg` | `elastic/agent/lifecycle_test.go:373` | a reconciliation that read a replica while it was pending records it as starting (`elastic/agent/handler.go:733`) after the scheduler had it stopped, and starts it again |
| `ServingDesire!ActivatedBecomesReady`, `SdCasts = {{"p1"}}`, with `SdFairness` | `docs/plans/SURGE-PROPOSED-AD.md:43` | a promotion raises the desire for a reason other than `activator_ensure`, the only one with which a version may become ready (`registry/serving_sqlite.go:81`): the replica is there, the version stays `deploy_ready` |
| `NodeLife!FreshNotRejected`, two lives | `elastic/agent/transport/replay.go:9` | nonces count from 1 in each process (`agentrun/run.go:261`): the first requests of a restarted agent are rejected as repeated while the old ones are in the cache |
| `PortLedger!PortLedgerRule`, the constants of `MCRecords.cfg` | `docs/plans/INGRESS-PORT-DEPLOYMENT.md:86` | a reconciliation listed the row while it was the project's reserve and releases it after the prod binding took it |
| `VersionRows!ParentOutlivesChild`, the constants of `MCRecords.cfg` | `docs/plans/SURGE-E0-START-PACK.md:99` | `CountChildVersions` (`registry/sqlite.go:1427`) does not count a child that has cooled to `deploy_ready` |
| `RouteSnapshot!HeldNeverGoesBack`, two pollers | `elastic/contract/snapshot.go:11` "revision must increase monotonically" | a poll that built first applies last |
| `RouteSnapshot!AckMeansRoutable`, two pollers | `orch/route_snapshot_ack.go` | the copy is replaced between the look that succeeds and the end of the wait |
| `GatewayRoutes!ReadyOnlyBySnapshot`, the constants of `MCRecords.cfg` | `gateway/activator_wire.go:50` | when the reads of policy or version fail, or the version becomes ready in between, the request takes its static route |
| `ControllerLife!GuardFreedQuiet`, one process | `serve/controller_guard.go:22` | a deploy opens a listener again after `CloseAll`, or the goroutine that a promotion left behind (`orch/cron_policy.go:93`) still runs |

The conditions in the properties stand for other things the models do, which no
sentence of the repository rules out as clearly:

- `UpdateJobStep` is not fenced, and every deploy step uses it, so a superseded worker can
  overwrite the step of a compensation (`CompensationStepFenced` holds without stalls).
- `Promote` and its compensations run under the context of the request: cut short, they
  leave the old prod's route off (`ProdServes` asks for `cuts = 0`). Two failures in one
  promotion, the second in a compensation, do the same (`faults <= 1`).
- The promotion of the data is not compensated: after a promotion that was undone, main
  carries the data of a version that is not prod. No property ties `main` to `prod`.
- The cron reconciliation asks the address recorded at deploy, so a replica that moved
  keeps its crons (`OnlyProdArmed` is checked for versions that do not move).
- Status writes do not compare. With overlapping calls an archive that read the version
  before it was destroyed brings it back (`LifeKept` is checked with one call at a time).
- A reconciliation beside a stop records ready between the withdrawal of the endpoint and
  the stop of the process when it read the row as starting. The next reconciliation
  withdraws it (`DeadEndpointLeaves`).
- A replica claimed between the read of the rows and the listing of the processes is
  stopped as an orphan by the sweep of that reconciliation.
- A call that carries the lease of before a renewal may be answered `generation_stale`
  (`transport/server.go:431`); the scheduler then fails a live assignment
  (`DropsOnlyDead` leaves this drop out).
- A draining replica whose assignment has ended cannot be failed, and ends every pass
  over its version until an agent terminalizes it.
- An operator's raise that is lost to a failed read, a wake that fails after its raise and a promotion that
  fails its preflight leave the desire raised; a wake takes over the operators' reason, and its
  release may take a promotion's raise (`orch/archive.go:219`). `PinsHold` excludes the wakes.
- `ensureProdIngress` ignores the error of its read of the binding. `Destroy` does not detach the preview
  port of the version it destroys. A reserve is released by the reconciliation that follows it.
- Writes of the fenced deploy transactions do not pass the invalidating store; their route stays cached until
  its entry expires (`excuse` "not_wrapped").
- A `cellpd` whose start fails before its API goroutine exists waits for that goroutine until the deadline and
  keeps the guard. `pidAlive` takes a process it may not signal for dead.

## What is proved and what is only model-checked

| module | proved for every value of the constants | checked by TLC only |
|---|---|---|
| `DeployJobs` | `ClaimsSound`, `FenceExclusive`, `ImplementsLock`, `FailedHoldsNothing`, `FailedDeployUndone`; with `MaxStalls = 0` `FailedVersionHasNoBranch`, `CompensationStepFenced`, and `CompletedServes` with one job per version | `EventuallySettled` |
| `ProdSwitch` | with `MaxCalls = 1` `RowsKept`, `ProdServes`, `LifeKept`, and while `faults = 0` `ServedHasData`, `ArchivedIsOff`, and `OnlyProdArmed` without elastic versions; with overlapping promotions `ProdServes` while `faults = 0` | |
| `VersionRows` | `RowsSound` | |
| `NodeLife` | `NodesFenced`, `ReleasedIdle` | `SupersededEnds` |
| `RouteSnapshot` | `CopyCurrent` | `HolderCatchesUp` |
| `PortLedger` | `LedgerSound`, `ProdPortStable` | |
| `ControllerLife` | `GuardSound`, `LeaseReleasedQuiet` | `CleanupEnds` |
| `Replicas` | `AgentsSound`, `FencedNotPublished`, `EndpointFollowsRow`, `LeaseWithinNode`, `DropsOnlyDead`, `ClaimsWithinDesire` | `DeadEndpointLeaves` |
| `ServingDesire` | `PinsHold`, `CooledUnwanted` | |
| `GatewayRoutes` | `RoutesExcused` | |
| `Activator` | `AdmissionSound` | `EveryAskAnswered` |

The liveness properties (`EventuallySettled`, `DeadEndpointLeaves`, `EveryAskAnswered`, `HolderCatchesUp`,
`SupersededEnds`, `CleanupEnds`) are out of the prover's reach, which has neither fairness nor ENABLED. The theorems
say in their hypotheses what the runs fix by their constants.

Deadlock is not checked where a behaviour may stop: when every job is settled, every
call of a cast is done, or a bound is used up.

## Not modelled

- Uploads and artifacts, environment, KV, D1 and workflow handlers, telemetry, metrics, health, the dashboard,
  encoding: they move data, and nothing the modelled parts decide depends on it. The autoscaler only reports.
- Manifests, process supervision and disk sweeps (`runtime`, `gc`): file and process I/O. A process is up or
  not, a manifest has crons or not.
- Certificates and TLS (`elastic/controllermtls`, `elasticdevcerts`): their state is in files and in the
  library.
- Placement by resources and anti-affinity between versions: they only make a claim fail.
- Configuration, the command line, the web console and the scripts outside `cellp`.
