------------------------------ MODULE MCProgress ------------------------------
(***************************************************************************)
(* What must happen in the end, in one run.  A behaviour is of one of four *)
(* scenarios, each a specification of its own with its fairness: the       *)
(* others stay in their initial state.                                     *)
(***************************************************************************)
EXTENDS Activator, RouteSnapshot, NodeLife, ControllerLife

VARIABLE scenario

ProgressScenarios == {"activate", "publish", "node", "cellpd"}

ProgressInit ==
    /\ scenario \in ProgressScenarios
    /\ ActInit /\ SnInit /\ NlInit /\ ClInit

ProgressNext ==
    /\ UNCHANGED scenario
    /\ \/ scenario = "activate" /\ ActNext /\ UNCHANGED <<snVars, nlVars, clVars>>
       \/ scenario = "publish"  /\ SnNext /\ UNCHANGED <<actVars, nlVars, clVars>>
       \/ scenario = "node"     /\ NlNext /\ UNCHANGED <<actVars, snVars, clVars>>
       \/ scenario = "cellpd"   /\ ClNext /\ UNCHANGED <<actVars, snVars, nlVars>>

progressVars == <<scenario, actVars, snVars, nlVars, clVars>>

ProgressSpec ==
    /\ ProgressInit /\ [][ProgressNext]_progressVars
    \* ActFairness
    /\ \A r \in ActRequests : WF_actVars(scenario = "activate" /\ RequestStep(r))
    /\ \A k \in Keys : WF_actVars(scenario = "activate" /\ FlightStep(k))
    \* SnFairness
    /\ \A p \in Pollers \ {Waiter} : WF_snVars(scenario = "publish" /\ PollStep(p))
    \* NlFairness
    /\ \A l \in Lives :
         /\ WF_nlVars(scenario = "node" /\ \E q \in requests : q.by = l /\ (Checks(q) \/ RelayChecks(q)))
         /\ WF_nlVars(scenario = "node" /\ \E q \in requests : q.by = l /\ Commits(q))
         /\ WF_nlVars(scenario = "node" /\ HearsAnswer(l))
         /\ SF_nlVars(scenario = "node" /\ HeartbeatDue(l))
         /\ WF_nlVars(scenario = "node" /\ Quiesced(l))
         /\ WF_nlVars(scenario = "node" /\ QuiesceTimesOut(l))
    \* ClFair
    /\ \A p \in Cellpds :
         /\ WF_clVars(scenario = "cellpd" /\ Cleans(p))
         /\ WF_clVars(scenario = "cellpd" /\ Deadline(p))
================================================================================
