---------------------------- MODULE FifoAdmission ----------------------------
(***************************************************************************)
(* What internal/channellimit promises for one channel: slots are given    *)
(* in arrival order, never beyond the limit in force, and never withheld   *)
(* while one is free. limit = 0 means unlimited.                           *)
(***************************************************************************)
EXTENDS Integers, Sequences, FiniteSets

CONSTANTS Callers, Limits
VARIABLES limit, holders, queue
vars == <<limit, holders, queue>>

Free(l, h) == l = 0 \/ Cardinality(h) < l

\* From holders h and queue q under limit l, the longest front of q that fits
\* becomes a holder and the rest stays queued.
Serve(l, h, q) ==
  \E n \in 0..Len(q) :
    LET front == {q[i] : i \in 1..n} IN
    /\ limit' = l
    /\ holders' = h \cup front
    /\ queue' = SubSeq(q, n + 1, Len(q))
    /\ n > 0 => l = 0 \/ Cardinality(holders') <= l
    /\ queue' # <<>> => ~Free(l, holders')

Init == limit = 0 /\ holders = {} /\ queue = <<>>

\* A caller arrives behind the others, with the policy it read.
Arrive(c, l) == /\ \A i \in DOMAIN queue : queue[i] # c
                /\ c \notin holders
                /\ Serve(l, holders, Append(queue, c))

\* An arrival that is turned away still brings its policy.
TurnAway(l) == Serve(l, holders, queue)

GiveBack(c) == c \in holders /\ Serve(limit, holders \ {c}, queue)

Abandon(i) == /\ i \in DOMAIN queue
              /\ Serve(limit, holders, SubSeq(queue, 1, i - 1) \o SubSeq(queue, i + 1, Len(queue)))

\* An unused channel forgets its policy.
Forget == holders = {} /\ queue = <<>> /\ limit' = 0 /\ UNCHANGED <<holders, queue>>

Next == \/ \E c \in Callers, l \in Limits : Arrive(c, l)
        \/ \E l \in Limits : TurnAway(l)
        \/ \E c \in Callers : GiveBack(c)
        \/ \E i \in DOMAIN queue : Abandon(i)
        \/ Forget

Spec == Init /\ [][Next]_vars
=============================================================================
