----------------------------- MODULE MCProcesses -----------------------------
(***************************************************************************)
(* Calls on three versions, lives of an agent, lives of cellpd.  A         *)
(* behaviour is of one of three scenarios, each a specification of its     *)
(* own: the others stay in their initial state.                            *)
(***************************************************************************)
EXTENDS ProdSwitch, NodeLife, ControllerLife, TLC

CONSTANTS v1, v2, v3

VARIABLE scenario

TrioParentOf == v1 :> NoVersion @@ v2 :> v1 @@ v3 :> NoVersion   \* a root, its fork, a root

ProcessesInit ==
    /\ scenario \in {"switch", "node", "cellpd"}
    /\ Init /\ NlInit /\ ClInit

ProcessesNext ==
    /\ UNCHANGED scenario
    /\ \/ scenario = "switch" /\ Next /\ UNCHANGED <<nlVars, clVars>>
       \/ scenario = "node"   /\ NlNext /\ UNCHANGED <<vars, clVars>>
       \/ scenario = "cellpd" /\ ClNext /\ UNCHANGED <<vars, nlVars>>

ProcessesSpec == ProcessesInit /\ [][ProcessesNext]_<<scenario, vars, nlVars, clVars>>
================================================================================
