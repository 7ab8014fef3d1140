---------------------------- MODULE AttemptLock ----------------------------
(***************************************************************************)
(* What the deploy operation of a version promises to the deploy pipeline:  *)
(* a lock whose holders are attempts <<job, epoch>>.  Epochs of a job only  *)
(* grow, an attempt that was granted or gave up never comes back, and the   *)
(* version's document is written by the current owner alone.                *)
(***************************************************************************)
EXTENDS Integers

CONSTANTS Jobs, Versions, NoJob

VARIABLES
  owner,  \* the attempt that owns a version, <<NoJob, 0>> for none
  last,   \* the last attempt of each job that was granted or burnt
  doc     \* what the owner may write: a version's status and route

lockVars == <<owner, last, doc>>

Free(v) == owner[v] = <<NoJob, 0>>

Init ==
  /\ owner = [v \in Versions |-> <<NoJob, 0>>]
  /\ last = [j \in Jobs |-> 0]
  /\ doc = [v \in Versions |-> <<"pending", "none">>]

(* A later attempt of a job takes a version, a free one or one whose owner   *)
(* it puts out: a job that is recorded as ended may have a worker left.     *)
Grant(v, j) ==
  /\ last'[j] > last[j]
  /\ last' = [last EXCEPT ![j] = last'[j]]
  /\ owner' = [owner EXCEPT ![v] = <<j, last'[j]>>]
  /\ UNCHANGED doc

(* Released, expired or outdated: some versions become free. *)
Lose ==
  /\ \A v \in Versions : owner'[v] \in {owner[v], <<NoJob, 0>>}
  /\ owner' = [v \in Versions |-> owner'[v]]
  /\ \A j \in Jobs : last'[j] >= last[j]
  /\ last' = [j \in Jobs |-> last'[j]]
  /\ UNCHANGED doc

Write(v) ==
  /\ ~Free(v)
  /\ doc' = [doc EXCEPT ![v] = doc'[v]]
  /\ UNCHANGED <<owner, last>>

Next ==
  \/ \E v \in Versions, j \in Jobs : Grant(v, j)
  \/ Lose
  \/ \E v \in Versions : Write(v)

Spec == Init /\ [][Next]_lockVars
=============================================================================
