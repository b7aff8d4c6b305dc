------------------------- MODULE MCUsageAggregation -------------------------
(* Instances of UsageAggregation for TLC. *)
EXTENDS UsageAggregation

CONSTANTS e1, e2, p1, p2

TwoEntries == {e1, e2}
TwoInstances == {p1, p2}
=============================================================================
