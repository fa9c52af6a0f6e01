-------------------------- MODULE MCGuidelineStore --------------------------
(* Instances of GuidelineStore for TLC. *)
EXTENDS GuidelineStore, TLC

CONSTANTS style, naming, once, again

TwoDocuments == {style, naming}
TwoDeletes == {once, again}
EveryFault == {"refused", "timeout", "commit", "unsure", "crash"}
SlowQdrant == {"timeout"}
Symmetry == Permutations(Documents) \cup Permutations(Deletes)
=============================================================================
