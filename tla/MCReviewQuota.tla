--------------------------- MODULE MCReviewQuota ---------------------------
(* Instances of ReviewQuota for TLC.  The requests are interchangeable     *)
(* where none is oversized, so they are a symmetry set in those runs that  *)
(* check no liveness.                                                      *)
EXTENDS ReviewQuota, TLC

CONSTANTS r1, r2, r3

ThreeReviews == {r1, r2, r3}
TwoReviews == {r1, r2}
NoReviews == {}
OneOversized == {r3}

UnitCost == {1}
NoneOrUnit == {0, 1}

Nothing == {}
Everything == {"crash", "budget", "db", "delete", "cache", "expire",
               "uncounted"}
Deaths == {"crash", "budget", "cache"}
Deletions == {"delete"}

Symmetry == Permutations(Reviews)
=============================================================================
