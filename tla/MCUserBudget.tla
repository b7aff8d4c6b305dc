--------------------------- MODULE MCUserBudget ---------------------------
(* Instances of UserBudget for TLC. *)
EXTENDS UserBudget, TLC

CONSTANTS r1, r2, g1, g2

TwoRequests == {r1, r2}
TwoGateways == {g1, g2}

Symmetry == Permutations(Requests) \cup Permutations(Gateways)
=============================================================================
