------------------------------ MODULE MCRecords ------------------------------
(***************************************************************************)
(* The records that several calls write: ports and bindings, the serving   *)
(* desire, the routes and the cache that a request finds its version with. *)
(* A behaviour is of one of three scenarios, each a specification of its   *)
(* own: the others stay in their initial state.                            *)
(***************************************************************************)
EXTENDS PortLedger, ServingDesire, GatewayRoutes, TLC

CONSTANTS g1, g2

VARIABLE scenario

\* Who acts together: two operators, one and a promotion, ...
RecordsCasts ==
    {{"o1", "o2"}, {"o1", "p1", "f1"}, {"d1", "o1"}, {"w1", "o1"}, {"w1", "p1"},
     {"c1", "p1"}, {"c1", "o1"}}

RecordsSymmetry == Permutations(Projects)

Aside(s) == scenario # s

RecordsInit ==
    /\ scenario \in {"ports", "desire", "routes"}
    /\ PortInit /\ (Aside("ports") => tier = [p \in Projects |-> "host"])
    /\ SdInit /\ (Aside("desire") => cast = {"o1", "o2"} /\ vers.status = "ready")
    /\ GwInit /\ (Aside("routes") => \A v \in GwVersions : state[v] # "archived")

RecordsNext ==
    /\ UNCHANGED scenario
    /\ \/ scenario = "ports"  /\ PortNext /\ UNCHANGED <<sdVars, gwVars>>
       \/ scenario = "desire" /\ SdNext /\ UNCHANGED <<portVars, gwVars>>
       \/ scenario = "routes" /\ GwNext /\ UNCHANGED <<portVars, sdVars>>

RecordsSpec == RecordsInit /\ [][RecordsNext]_<<scenario, portVars, sdVars, gwVars>>
================================================================================
