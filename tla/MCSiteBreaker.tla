--------------------------- MODULE MCSiteBreaker ---------------------------
(* Instances of SiteBreaker for TLC. *)
EXTENDS SiteBreaker, TLC

CONSTANTS q1, q2, q3, m1, m2, m3

TwoRequests == {q1, q2}
ThreeRequests == {q1, q2, q3}
OneModel == {m1}
TwoModels == {m1, m2}
ThreeModels == {m1, m2, m3}

\* No model redirect, and one that rewrites m1 to m2.
Itself == [m \in Models |-> m]
Redirected == [m \in Models |-> IF m = m1 THEN m2 ELSE m]

\* The cooldowns 60 s, 5 min and 30 min grow; so do these.
TwoLevels == [l \in 1..MaxLevel |-> l]

Symmetry == Permutations(Requests)
=============================================================================
