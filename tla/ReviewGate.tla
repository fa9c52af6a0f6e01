----------------------------- MODULE ReviewGate -----------------------------
(***************************************************************************)
(* What the in-flight slots of services/billing promise, with the cache,   *)
(* the snapshot and the database left out: of one user's reviews, no more  *)
(* than the plan's daily limit are ever running at the same moment.  A     *)
(* review is admitted at most once, and ends.                              *)
(***************************************************************************)
EXTENDS Naturals, FiniteSets

CONSTANTS Reviews, Limit

VARIABLES running, ended

vars == <<running, ended>>

Init == running = {} /\ ended = {}

Admit(r) ==
    /\ r \notin running \cup ended
    /\ Cardinality(running) < Limit
    /\ running' = running \cup {r}
    /\ UNCHANGED ended

Finish(r) ==
    /\ r \in running
    /\ running' = running \ {r}
    /\ ended' = ended \cup {r}

Refuse(r) ==
    /\ r \notin running \cup ended
    /\ ended' = ended \cup {r}
    /\ UNCHANGED running

Next == \E r \in Reviews : Admit(r) \/ Finish(r) \/ Refuse(r)

Spec == Init /\ [][Next]_vars
=============================================================================
