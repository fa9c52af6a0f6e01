----------------------------- MODULE MCServing -----------------------------
(***************************************************************************)
(* What serves a request before its own work begins, in one instance for   *)
(* TLC: the gateway, the limiter behind it, the browser's session, the     *)
(* accounts, the in-flight key and the health report.  These components    *)
(* share no state, so the instance explores them one at a time.  The tabs  *)
(* of the browser are alike.                                               *)
(***************************************************************************)
EXTENDS RateLimit, InFlightSlot, Gateway, Health, RefreshTokens, Accounts, TLC

CONSTANTS r1, r2, r3, a1, a2, proxy, user, email, cloud, local, off,
          tab1, tab2, s1, s2, s3, e1, e2

VARIABLE part   \* the component at work

ThreeReviews == {r1, r2, r3}
ThreeAddresses == {a1, a2, proxy}
OneUser == {user}
OneEmail == {email}
OneOfEach == [auth |-> 1, login_account |-> 1, agent |-> 1, default |-> 1]
ThreeProviders == {cloud, local, off}
OneOff == {off}
OnlyOk == {"ok"}
TwoTabs == {tab1, tab2}
ThreeSignUps == {s1, s2, s3}
TwoEmails == {e1, e2}
Symmetry == Permutations(Tabs)

Parts == {"limiter", "slot", "gateway", "health", "tokens", "accounts"}

servingVars == <<part, vars, slotVars, gatewayVars, healthVars, refreshVars,
                 accountsVars>>

\* A component at rest is in one of its initial states.
ServingInit ==
    /\ part \in Parts
    /\ Init /\ SlotInit /\ GatewayInit /\ HealthInit /\ RefreshInit
    /\ AccountsInit
    /\ part # "gateway" => deployment = "direct"
    /\ part # "accounts" =>
          plans /\ \A r \in SignUps : signup[r].email = e1

ServingNext ==
    /\ UNCHANGED part
    /\ \/ /\ part = "limiter" /\ Next
          /\ UNCHANGED <<slotVars, gatewayVars, healthVars, refreshVars,
                        accountsVars>>
       \/ /\ part = "slot" /\ SlotNext
          /\ UNCHANGED <<vars, gatewayVars, healthVars, refreshVars, accountsVars>>
       \/ /\ part = "gateway" /\ GatewayNext
          /\ UNCHANGED <<vars, slotVars, healthVars, refreshVars, accountsVars>>
       \/ /\ part = "health" /\ HealthNext
          /\ UNCHANGED <<vars, slotVars, gatewayVars, refreshVars, accountsVars>>
       \/ /\ part = "tokens" /\ RefreshNext
          /\ UNCHANGED <<vars, slotVars, gatewayVars, healthVars, accountsVars>>
       \/ /\ part = "accounts" /\ AccountsNext
          /\ UNCHANGED <<vars, slotVars, gatewayVars, healthVars, refreshVars>>

ServingSpec == ServingInit /\ [][ServingNext]_servingVars

\* The type invariants: a component at rest keeps the state of its own start.
ServingTypeOK ==
    /\ part = "limiter" => TypeOK
    /\ part = "slot" => SlotTypeOK
    /\ part = "gateway" => GatewayTypeOK
    /\ part = "health" => HealthTypeOK
    /\ part = "tokens" => RefreshTypeOK
    /\ part = "accounts" => AccountsTypeOK
=============================================================================
