--------------------------- MODULE PlanPreference ---------------------------
(***************************************************************************)
(* One user's plan and preferred model: the users row, the requests that   *)
(* change it (PATCH /api/app/me, POST /api/billing/plan), the Settings     *)
(* screens that send them, and the provider a review then asks for.  A     *)
(* request decides on the row as it read it; its commit writes only the    *)
(* columns it changed (SQLAlchemy), whatever the row holds by then.  Team  *)
(* is like Pro here.  Plan changes are self-served, as in development.     *)
(***************************************************************************)
EXTENDS Integers, FiniteSets

CONSTANTS
    Screens,        \* open Settings pages
    Models,         \* the names of [providers.*] sections
    LocalModel,     \* the one in Free's allowed_providers
    DefaultModel, FallbackModel,
    MaxRedeploys,   \* bound
    MaxSaves        \* bound: requests that were answered

ASSUME PlanAssumption ==
    /\ {LocalModel, DefaultModel, FallbackModel} \subseteq Models
    /\ {"none", "provider_not_in_plan"} \cap Models = {}
    /\ MaxRedeploys \in Nat /\ MaxSaves \in Nat /\ IsFiniteSet(Screens)

VARIABLES
    row,        \* users.plan_id and users.preferred_provider
    server,     \* plans of the code, providers with an adapter, and with a key
    screen,     \* of each Settings page: what it shows and its request
    redeploys, saves,
    raced       \* history: a commit met a row that had changed since its read

planVars == <<row, server, screen, redeploys, saves, raced>>

NoModel == "none"
Refused == "provider_not_in_plan"

-----------------------------------------------------------------------------
(* Plans and providers *)

PLANS == [free |-> [allowed |-> {LocalModel}, switch |-> FALSE],
          pro  |-> [allowed |-> Models, switch |-> TRUE]]

\* A plan that the code no longer has counts as Free.
PlanFor(r) == IF r.plan \in server.plans THEN PLANS[r.plan] ELSE PLANS["free"]

\* pick_provider: what is asked for, or the first the plan allows.
PickProvider(plan, requested) ==
    CASE requested # NoModel -> IF requested \in plan.allowed THEN requested
                                                              ELSE Refused
      [] requested = NoModel /\ DefaultModel \in plan.allowed -> DefaultModel
      [] requested = NoModel /\ DefaultModel \notin plan.allowed
                             /\ FallbackModel \in plan.allowed -> FallbackModel
      [] OTHER -> LocalModel

\* chat(): the provider of a review that names none.
TargetOf(r) ==
    PickProvider(PlanFor(r), IF r.preferred \in server.registered
                             THEN r.preferred ELSE NoModel)

\* list_providers() and the Settings page: the tiles that can be picked.
Tiles(r) ==
    LET plan == PlanFor(r)
    IN  {m \in server.registered \cap server.keyed :
            \/ plan.switch /\ m \in plan.allowed
            \/ m = PickProvider(plan, NoModel)}

\* update_me(): may this row prefer that model?
Accepts(r, name) ==
    name # NoModel =>
        /\ name \in server.registered
        /\ PlanFor(r).switch /\ name \in PlanFor(r).allowed
        /\ name \in server.keyed

-----------------------------------------------------------------------------
Servers == {s \in [plans : {{"free"}, {"free", "pro"}},
                   registered : SUBSET Models, keyed : SUBSET Models] :
               LocalModel \in s.registered /\ LocalModel \in s.keyed}

NoRow == [plan |-> "free", preferred |-> NoModel]

PlanInit ==
    /\ server \in {s \in Servers : s.plans = {"free", "pro"}}
    /\ row \in [plan : {"free", "pro"}, preferred : {NoModel}]
    /\ screen = [s \in Screens |->
          [stage |-> "closed", plan |-> "free", plans |-> {}, can |-> FALSE,
           tiles |-> {}, epoch |-> 0,
           kind |-> "model", value |-> NoModel, seen |-> NoRow]]
    /\ redeploys = 0 /\ saves = 0 /\ raced = FALSE

\* The page loads the plan and the tiles.
LoadScreen(s) ==
    /\ screen[s].stage \notin {"sent", "commit"}
    /\ screen' = [screen EXCEPT ![s] =
          [@ EXCEPT !.stage = "open", !.plan = row.plan,
                    !.plans = server.plans, !.can = PlanFor(row).switch,
                    !.tiles = Tiles(row), !.epoch = redeploys]]
    /\ UNCHANGED <<row, server, redeploys, saves, raced>>

SendForm(s, kind, value) ==
    /\ screen[s].stage = "open" /\ saves < MaxSaves
    /\ screen' = [screen EXCEPT ![s] = [@ EXCEPT !.stage = "sent",
                                         !.kind = kind, !.value = value]]
    /\ UNCHANGED <<row, server, redeploys, saves, raced>>

\* The form is enabled for plans that can switch.
SaveModel(s) ==
    /\ screen[s].can
    /\ \E m \in screen[s].tiles \cup {NoModel} : SendForm(s, "model", m)

ChoosePlan(s) ==
    \E p \in screen[s].plans \ {screen[s].plan} : SendForm(s, "plan", p)

\* current_user() reads the row; the checks are made on it.
ReadRow(s) ==
    /\ screen[s].stage = "sent"
    /\ LET ok == IF screen[s].kind = "model" THEN Accepts(row, screen[s].value)
                 ELSE screen[s].value \in server.plans
       IN  screen' = [screen EXCEPT
              ![s].stage = IF ok THEN "commit" ELSE "refused",
              ![s].seen = row]
    /\ UNCHANGED <<row, server, redeploys, saves, raced>>

FormSaved(s) ==
    /\ screen' = [screen EXCEPT ![s].stage = "accepted"]
    /\ saves' = saves + 1
    /\ raced' = (raced \/ row # screen[s].seen)
    /\ UNCHANGED <<server, redeploys>>

\* update_me() commits.
CommitModel(s) ==
    /\ screen[s].stage = "commit" /\ screen[s].kind = "model"
    /\ row' = IF screen[s].value = screen[s].seen.preferred THEN row
              ELSE [row EXCEPT !.preferred = screen[s].value]
    /\ FormSaved(s)

\* Mutant of CommitPlan: the preference outlives the plan.
CommitPlanOnly(s) ==
    /\ screen[s].stage = "commit" /\ screen[s].kind = "plan"
    /\ row' = [row EXCEPT !.plan = screen[s].value]
    /\ FormSaved(s)

\* change_plan() commits, and clears a preference the new plan does not have.
CommitPlan(s) ==
    /\ screen[s].stage = "commit" /\ screen[s].kind = "plan"
    /\ LET seen == screen[s].seen
           new == PLANS[screen[s].value]
           kept == new.switch /\ seen.preferred \in new.allowed
           planned == IF screen[s].value = seen.plan THEN row
                      ELSE [row EXCEPT !.plan = screen[s].value]
       IN  row' = IF seen.preferred = NoModel \/ kept THEN planned
                  ELSE [planned EXCEPT !.preferred = NoModel]
    /\ FormSaved(s)

\* Another release or another configuration; its requests are cut off.
Redeploy ==
    /\ redeploys < MaxRedeploys
    /\ redeploys' = redeploys + 1
    /\ server' \in Servers \ {server}
    /\ screen' = [s \in Screens |->
          IF screen[s].stage \in {"sent", "commit"}
          THEN [screen[s] EXCEPT !.stage = "open"] ELSE screen[s]]
    /\ UNCHANGED <<row, saves, raced>>

PlanNext ==
    \/ \E s \in Screens :
          \/ LoadScreen(s) \/ SaveModel(s) \/ ChoosePlan(s) \/ ReadRow(s)
          \/ CommitModel(s) \/ CommitPlan(s)
    \/ Redeploy

PlanSpec == PlanInit /\ [][PlanNext]_planVars

-----------------------------------------------------------------------------
(* Properties *)

\* What the row, the configuration and the screens can hold.
PlanTypeOK ==
    /\ row \in [plan : DOMAIN PLANS, preferred : Models \cup {NoModel}]
    /\ server \in Servers
    /\ \A s \in Screens :
          /\ screen[s].stage \in {"closed", "open", "sent", "commit",
                                  "accepted", "refused"}
          /\ screen[s].tiles \subseteq Models
          /\ screen[s].seen.plan \in DOMAIN PLANS
    /\ redeploys \in 0..MaxRedeploys /\ raced \in BOOLEAN
    /\ saves \in 0..(MaxSaves + Cardinality(Screens))

\* A review that names no model is never refused for the model the user once
\* saved, whatever plans and models were chosen since and whatever became of
\* the configuration: unless two requests on the row overlapped, or the plan
\* of the row is gone from the code.  (Then every review fails with
\* provider_not_in_plan, and a page of the Free plan has no Save button.)
NotLockedOut == ~ raced /\ row.plan \in server.plans => TargetOf(row) # Refused

\* A tile that a page offers is accepted, unless the plan or the server has
\* changed since the page was loaded.
OffersAccepted ==
    \A s \in Screens :
        screen[s].stage = "refused" =>
            \/ screen[s].seen.plan # screen[s].plan
            \/ redeploys # screen[s].epoch

ReviewsNotLockedOut == NotLockedOut /\ OffersAccepted
=============================================================================
