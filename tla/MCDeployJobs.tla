---------------------------- MODULE MCDeployJobs ----------------------------
(* DeployJobs on small instances.                                            *)
EXTENDS DeployJobs, TLC

CONSTANTS j1, j2, v1

SoloVersionOf == j1 :> v1                \* as the API enqueues: one job per version
PairVersionOf == j1 :> v1 @@ j2 :> v1    \* as the registry allows: two

WorkerSymmetry == Permutations(Workers)

(* The second job of the pair comes once a worker has lost a lease, is       *)
(* claimed once and followed until it is about to fork.                     *)
SecondAfterStall ==
  /\ jobs[j2].epoch <= 1
  /\ jobs[j2].status # "absent" => stalls > 0
  /\ \A w \in Workers : wk[w].job = j2 => wk[w].stage = "fetching"
=============================================================================
