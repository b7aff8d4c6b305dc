--------------------------- MODULE MCRefreshFamily ---------------------------
(* Instances of RefreshFamily for TLC. *)
EXTENDS RefreshFamily, TLC

CONSTANTS a1, a2, a3, r1, r2, t1, t2, t3

TwoAttempts == {a1, a2}
ThreeAttempts == {a1, a2, a3}
OneRecord == {r1}
TwoRecords == {r1, r2}
TwoTokens == {t1, t2}
ThreeTokens == {t1, t2, t3}

Symmetry == Permutations(Attempts) \cup Permutations(Records) \cup Permutations(Tokens \ {FirstToken})
=============================================================================
