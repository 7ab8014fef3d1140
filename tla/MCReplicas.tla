----------------------------- MODULE MCReplicas -----------------------------
(* Replicas on small instances.                                              *)
EXTENDS Replicas, TLC

Symmetric == Permutations(Replicas)
=============================================================================
