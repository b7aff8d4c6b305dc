--------------------------- MODULE MCDownstreamKey ---------------------------
(* Instances of DownstreamKey for TLC. *)
EXTENDS DownstreamKey, TLC

CONSTANTS r1, r2, r3, g1, g2

ThreeRequests == {r1, r2, r3}
TwoGateways == {g1, g2}

Free == [period |-> "none", length |-> 1, requests |-> NoLimit, tokens |-> NoLimit,
         rpm |-> NoLimit, tpm |-> NoLimit, max |-> NoLimit, redis |-> FALSE]

\* Keys with a quota of requests or tokens, and keys with a request or token rate.
QuotaKeys ==
  {[Free EXCEPT !.period = "all_time", !.requests = 1, !.max = 1],
   [Free EXCEPT !.period = "past", !.requests = 1],
   [Free EXCEPT !.period = "calendar", !.requests = 1, !.tokens = 2]}
RateKeys ==
  {[Free EXCEPT !.rpm = 1, !.redis = b] : b \in BOOLEAN}
    \cup {[Free EXCEPT !.rpm = 2, !.tpm = 1, !.redis = b] : b \in BOOLEAN}
AllKeys == QuotaKeys \cup RateKeys

\* The clock reaches 2 where a request must be able to leave a sliding window.
Horizon == [k \in AllKeys |-> IF k.redis \/ k.period = "calendar" THEN 1 ELSE 2]

Symmetry == Permutations(Requests) \cup Permutations(Gateways)
=============================================================================
