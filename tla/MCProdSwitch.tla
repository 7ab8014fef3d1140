---------------------------- MODULE MCProdSwitch ----------------------------
(* ProdSwitch on small instances.                                            *)
EXTENDS ProdSwitch, TLC

CONSTANTS v1, v2, v3

PairParentOf == v1 :> NoVersion @@ v2 :> v1                    \* a root and its fork
=============================================================================
