------------------------------ MODULE MCReview ------------------------------
(***************************************************************************)
(* Which providers a review may use and what it makes of them, in one      *)
(* instance for TLC: the run of the agent, the user's plan and preference, *)
(* and the settings a backend starts with.  These components share no      *)
(* state, so the instance explores them one at a time.                     *)
(***************************************************************************)
EXTENDS MCAgentRun, PlanPreference, StartUp

CONSTANTS page1, page2

VARIABLE part   \* the component at work

TwoScreens == {page1, page2}
TwoModels == {ollama, openai}

reviewVars == <<part, vars, planVars, startVars>>

\* A component at rest is in one of its initial states.
ReviewInit ==
    /\ part \in {"agent", "preferences", "start"}
    /\ Init /\ PlanInit /\ StartInit
    /\ part # "preferences" => /\ row.plan = "free"
                               /\ server.registered = Models
                               /\ server.keyed = Models
    /\ part # "start" => \A l \in DOMAIN layers : layers[l] = <<>>

ReviewNext ==
    /\ UNCHANGED part
    /\ \/ part = "agent" /\ Next /\ UNCHANGED <<planVars, startVars>>
       \/ part = "preferences" /\ PlanNext /\ UNCHANGED <<vars, startVars>>
       \/ part = "start" /\ StartNext /\ UNCHANGED <<vars, planVars>>

\* The fairness is that of AgentRun, where it is at work.
AgentStep == part = "agent" /\ Step

ReviewSpec == ReviewInit /\ [][ReviewNext]_reviewVars /\ WF_vars(AgentStep)

\* Every run of the agent comes to an end, whatever the model keeps asking
\* for and however often it repeats itself (runner.py, max_rounds).
ReviewsEnd == part = "agent" ~> pc = "ended"

\* The type invariants of the components.
ReviewTypeOK == TypeOK /\ PlanTypeOK /\ StartTypeOK
=============================================================================
