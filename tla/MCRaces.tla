------------------------------- MODULE MCRaces -------------------------------
(***************************************************************************)
(* Two promotions at a time; two calls on the rows of a parent and a fork. A*)
(* behaviour is of one of two scenarios, each a specification of its own:  *)
(* the other stays in its initial state.                                   *)
(***************************************************************************)
EXTENDS ProdSwitch, VersionRows, TLC

CONSTANTS v1, v2, v3

VARIABLE scenario

RootsParentOf == [v \in Versions |-> NoVersion]

\* b is created from a.
RowsParentOf == [v \in VrVersions |-> IF v = "b" THEN "a" ELSE NoVr]

RaceSymmetry == Permutations(Versions)

RacesInit ==
    /\ scenario \in {"switch", "rows"}
    /\ Init /\ VrInit

RacesNext ==
    /\ UNCHANGED scenario
    /\ \/ scenario = "switch" /\ Next /\ UNCHANGED vrVars
       \/ scenario = "rows"   /\ VrNext /\ UNCHANGED vars

RacesSpec == RacesInit /\ [][RacesNext]_<<scenario, vars, vrVars>>
================================================================================
