------------------------- MODULE AttemptLoop_proofs -------------------------
(***************************************************************************)
(* Proofs about the attempt loop: what a request may do in it, and that    *)
(* permits, queues and slots belong to the requests inside an attempt.     *)
(***************************************************************************)
EXTENDS AttemptLoop, DataLemmas

USE AttemptAssumption

-----------------------------------------------------------------------------
(* The variables of a request *)

Loops == [forced : Forcible \cup {NoCandidate}, excluded : SUBSET Candidates,
          rejected : SUBSET Channels, attempt : 0..(MaxRetries + 1)]
Rounds == [cand : Candidates \cup {NoCandidate}, again : BOOLEAN, endpoint : Nat \ {0}]
Replies == {"none", "error", "answer", "stream"}
Outcomes == [fault : BOOLEAN, outcome : {"none", "failure", "success"}]

\* Requests that are between selection and the end of an attempt, and those that
\* hold a permit or a place in a queue if their candidate is direct.
Trying == {"acquire", "queued", "barred"} \cup Admitted
Holding == {"queued"} \cup Admitted

LoopTypeOK ==
  /\ pc \in [Requests -> Steps]
  /\ loop \in [Requests -> Loops]
  /\ round \in [Requests -> Rounds]
  /\ reply \in [Requests -> Replies]
  /\ health \in [Requests -> Outcomes]
  /\ left \subseteq Requests

\* What a request knows at each step: it has a candidate that it was not turned
\* away from, it has sent nothing yet, and its last outcome is no longer there.
Knows(r) ==
  /\ pc[r] \in Trying => Candidate(r) \in Candidates /\ loop[r].attempt <= MaxRetries
  /\ pc[r] \in {"acquire", "queued"} => Direct(Candidate(r))
  /\ pc[r] \in {"acquire"} \cup Holding => Channel(r) \notin loop[r].rejected
  /\ reply[r] # "none" => pc[r] \in {"streaming", "done"}
  /\ health[r].outcome = "failure" <=> health[r].fault
  /\ health[r].outcome # "none" => pc[r] \in {"select", "done"}

LoopInv == LoopTypeOK /\ \A r \in Requests : Knows(r)

Elsewhere(r) ==
  \A q \in Requests \ {r} : /\ pc'[q] = pc[q] /\ loop'[q] = loop[q] /\ round'[q] = round[q]
                            /\ reply'[q] = reply[q] /\ health'[q] = health[q]

\* A step of r leaves the others alone and knows what it has to.
Moves(r) == LoopTypeOK' /\ Knows(r)' /\ Elsewhere(r)

LEMMA FreshTypes == Fresh \in Loops /\ NoRound \in Rounds /\ Unmarked \in Outcomes
BY DEF Fresh, NoRound, Unmarked, Loops, Rounds, Outcomes

LEMMA LoopTypes ==
  ASSUME NEW l \in Loops, NEW bar \in SUBSET Channels, NEW n \in 0..(MaxRetries + 1)
  PROVE  [l EXCEPT !.attempt = n, !.rejected = @ \cup bar] \in Loops
<1> DEFINE union == l.rejected \cup bar
<1>1. union \in SUBSET Channels
  BY DEF Loops
<1> HIDE DEF union
<1>2. [l EXCEPT !.attempt = n, !.rejected = union] \in Loops
  BY <1>1 DEF Loops
<1> QED
  BY <1>2 DEF union

\* The request is over.
LEMMA DoneMoves ==
  ASSUME LoopInv, NEW r \in Requests, Done(r),
         reply' \in [Requests -> Replies], health' \in [Requests -> Outcomes],
         \A q \in Requests \ {r} : reply'[q] = reply[q] /\ health'[q] = health[q],
         health'[r].outcome = "failure" <=> health'[r].fault
  PROVE  Moves(r) /\ pc'[r] = "done"
<1>1. LoopTypeOK' /\ Elsewhere(r)
  BY FreshTypes DEF LoopInv, LoopTypeOK, Done, Goto, Elsewhere, Steps
<1>2. pc'[r] = "done"
  BY DEF LoopInv, LoopTypeOK, Done, Goto
<1> QED
  BY <1>1, <1>2 DEF Moves, Knows, Trying, Holding, Admitted, InAttempt

LEMMA ReplyMoves ==
  ASSUME LoopInv, NEW r \in Requests, NEW what \in Replies, Reply(r, what),
         health' \in [Requests -> Outcomes],
         \A q \in Requests \ {r} : health'[q] = health[q],
         health'[r].outcome = "failure" <=> health'[r].fault
  PROVE  Moves(r) /\ pc'[r] = "done"
<1>1. reply' \in [Requests -> Replies] /\ \A q \in Requests \ {r} : reply'[q] = reply[q]
  BY DEF LoopInv, LoopTypeOK, Reply
<1> QED
  BY <1>1, DoneMoves DEF Reply

\* The request selects again: it has not answered yet.
LEMMA AgainMoves ==
  ASSUME LoopInv, NEW r \in Requests, NEW l \in Loops, Again(r, l), pc[r] \in Trying \ {"streaming"},
         health' \in [Requests -> Outcomes],
         \A q \in Requests \ {r} : health'[q] = health[q],
         health'[r].outcome = "failure" <=> health'[r].fault
  PROVE  Moves(r) /\ pc'[r] = "select"
<1>1. LoopTypeOK' /\ Elsewhere(r)
  BY FreshTypes DEF LoopInv, LoopTypeOK, Again, Goto, Elsewhere, Steps
<1>2. pc'[r] = "select" /\ reply'[r] = reply[r] /\ reply[r] = "none"
  BY DEF LoopInv, LoopTypeOK, Again, Goto, Knows, Trying, Admitted, InAttempt
<1> QED
  BY <1>1, <1>2 DEF Moves, Knows, Trying, Holding, Admitted, InAttempt

LEMMA SkipMoves ==
  ASSUME LoopInv, NEW r \in Requests, NEW again, NEW l \in Loops, Skip(r, again, l),
         pc[r] \in Trying \ {"streaming"}, health' = health
  PROVE  Moves(r) /\ pc'[r] \in {"select", "done"}
<1>1. /\ health' \in [Requests -> Outcomes]
      /\ \A q \in Requests \ {r} : health'[q] = health[q]
      /\ health'[r].outcome = "failure" <=> health'[r].fault
  BY DEF LoopInv, LoopTypeOK, Knows
<1>2. CASE Reply(r, "error")
  BY <1>1, <1>2, ReplyMoves DEF Replies
<1>3. CASE Again(r, l)
  BY <1>1, <1>3, AgainMoves
<1> QED
  BY <1>2, <1>3 DEF Skip

LEMMA RejectMoves ==
  ASSUME LoopInv, NEW r \in Requests, Reject(r), health' = health,
         pc[r] \in Trying \ {"streaming"}, Direct(Candidate(r))
  PROVE  Moves(r) /\ pc'[r] \in {"select", "done"}
<1>1. Channel(r) \in Channels
  BY DEF LoopInv, LoopTypeOK, Knows, Direct, Channel
<1>2. [loop[r] EXCEPT !.rejected = @ \cup {Channel(r)}] \in Loops
  <2>1. loop[r] \in Loops /\ loop[r].attempt \in 0..(MaxRetries + 1) /\ {Channel(r)} \in SUBSET Channels
    BY <1>1 DEF LoopInv, LoopTypeOK, Loops
  <2>2. [loop[r] EXCEPT !.attempt = loop[r].attempt, !.rejected = @ \cup {Channel(r)}] \in Loops
    BY <2>1, LoopTypes
  <2> QED
    BY <2>1, <2>2 DEF Loops
<1> DEFINE l == [loop[r] EXCEPT !.rejected = @ \cup {Channel(r)}]
<1>3. Skip(r, r \in left \/ round[r].again, l)
  BY DEF Reject
<1> HIDE DEF l
<1> QED
  BY <1>2, <1>3, SkipMoves DEF l

\* An outcome is honest.
LEMMA RecordHonest ==
  ASSUME LoopInv, NEW r \in Requests, pc[r] \in InAttempt, NEW fault \in BOOLEAN,
         NEW what \in {"none", "failure", "success"}, Record(r, fault, what)
  PROVE  /\ health' \in [Requests -> Outcomes]
         /\ \A q \in Requests \ {r} : health'[q] = health[q]
         /\ health'[r].outcome = "failure" <=> health'[r].fault
<1>1. CASE ~Stored(r, what)
  BY <1>1 DEF Record, LoopInv, LoopTypeOK, Knows
<1>2. CASE Stored(r, what)
  <2>1. health' = [health EXCEPT ![r] = [fault |-> fault, outcome |-> what]]
    BY <1>2 DEF Record
  <2>2. what = "failure" <=> fault
    BY <1>2 DEF Record, Stored
  <2>3. [fault |-> fault, outcome |-> what] \in Outcomes
    BY DEF Outcomes
  <2> QED
    BY <2>1, <2>2, <2>3 DEF LoopInv, LoopTypeOK
<1> QED
  BY <1>1, <1>2

\* The attempt is over and another round may follow.
LEMMA NextRoundMoves ==
  ASSUME LoopInv, NEW r \in Requests, NextRound(r), RetriesLeft(r), pc[r] \in {"endpoint", "sent"},
         health' \in [Requests -> Outcomes],
         \A q \in Requests \ {r} : health'[q] = health[q],
         health'[r].outcome = "failure" <=> health'[r].fault
  PROVE  Moves(r) /\ pc'[r] = "select"
<1>1. PICK bar \in {{}, {Channel(r)} \ {NoChannel}} :
             Again(r, [loop[r] EXCEPT !.attempt = @ + 1, !.rejected = @ \cup bar])
  BY DEF NextRound
<1>2. bar \subseteq Channels
  BY DEF LoopInv, LoopTypeOK, Knows, Channel, Trying, Admitted, InAttempt
<1> DEFINE l == [loop[r] EXCEPT !.attempt = @ + 1, !.rejected = @ \cup bar]
<1>3. l \in Loops
  <2>1. loop[r] \in Loops /\ loop[r].attempt + 1 \in 0..(MaxRetries + 1) /\ bar \in SUBSET Channels
    BY <1>2 DEF LoopInv, LoopTypeOK, Loops, RetriesLeft
  <2> QED
    BY <2>1, LoopTypes
<1>4. Again(r, l)
  BY <1>1
<1> HIDE DEF l
<1> QED
  BY <1>3, <1>4, AgainMoves DEF Trying, Admitted, InAttempt

LEMMA QuietMoves ==
  ASSUME LoopInv, NEW r \in Requests, NEW l \in Steps, Goto(r, l), UNCHANGED <<loop, reply, health, left>>,
         round' \in [Requests -> Rounds], \A q \in Requests \ {r} : round'[q] = round[q],
         pc[r] \in Trying, round'[r].cand = round[r].cand, l \in Admitted \cup {"queued"},
         l = "queued" => Direct(Candidate(r)),
         pc[r] # "barred", pc[r] # "streaming"
  PROVE  Moves(r) /\ pc'[r] = l
<1>1. LoopTypeOK' /\ Elsewhere(r) /\ pc'[r] = l
  BY DEF LoopInv, LoopTypeOK, Goto, Elsewhere
<1>2. /\ Candidate(r)' = Candidate(r) /\ Channel(r)' = Channel(r) /\ loop'[r] = loop[r]
      /\ reply'[r] = "none" /\ health'[r] = health[r]
  BY DEF LoopInv, LoopTypeOK, Knows, Trying, Admitted, InAttempt, Candidate, Channel
<1>3. Candidate(r) \in Candidates /\ loop[r].attempt <= MaxRetries /\ Channel(r) \notin loop[r].rejected
  BY DEF LoopInv, Knows, Trying, Holding
<1>4. health[r].outcome = "none" /\ ~health[r].fault
  BY DEF LoopInv, LoopTypeOK, Outcomes, Knows, Trying, Admitted, InAttempt
<1> QED
  BY <1>1, <1>2, <1>3, <1>4 DEF Moves, Knows, Direct, Trying, Holding, Admitted, InAttempt

-----------------------------------------------------------------------------
(* Every step of a request *)

LEMMA SelectMoves ==
  ASSUME LoopInv, NEW r \in Requests, Select(r)
  PROVE  Moves(r) /\ pc'[r] \in {"barred", "acquire", "slot"}
<1>1. PICK c \in Offered(r) :
        /\ Goto(r, IF Barred(r, c) THEN "barred" ELSE IF Direct(c) THEN "acquire" ELSE "slot")
        /\ loop' = [loop EXCEPT ![r].excluded = @ \cup {c}]
        /\ round' = [round EXCEPT ![r] = [cand |-> c, again |-> c \in loop[r].excluded, endpoint |-> 1]]
  BY DEF Select
<1> DEFINE ro == [cand |-> c, again |-> c \in loop[r].excluded, endpoint |-> 1]
           excluded == loop[r].excluded \cup {c}
           lo == [loop[r] EXCEPT !.excluded = excluded]
<1>2. c \in Candidates
  BY DEF Offered
<1>3. ro \in Rounds /\ ro.cand = c
  BY <1>2 DEF Rounds
<1>4. lo \in Loops /\ lo.rejected = loop[r].rejected /\ lo.attempt = loop[r].attempt
  <2>1. loop[r] \in Loops /\ excluded \in SUBSET Candidates
    BY <1>2 DEF LoopInv, LoopTypeOK, Loops
  <2> HIDE DEF excluded
  <2> QED
    BY <2>1 DEF Loops
<1>5. loop' = [loop EXCEPT ![r] = lo] /\ round' = [round EXCEPT ![r] = ro]
  BY <1>1
<1> HIDE DEF ro, lo
<1>6. LoopTypeOK' /\ Elsewhere(r)
  <2>1. /\ pc' \in [Requests -> Steps]
        /\ \A q \in Requests \ {r} : pc'[q] = pc[q]
    BY <1>1 DEF LoopInv, LoopTypeOK, Goto, Steps
  <2>2. /\ health' \in [Requests -> Outcomes] /\ UNCHANGED <<reply, left>>
        /\ \A q \in Requests \ {r} : health'[q] = health[q]
    BY FreshTypes DEF Select, LoopInv, LoopTypeOK
  <2> QED
    BY <1>3, <1>4, <1>5, <2>1, <2>2 DEF LoopInv, LoopTypeOK, Elsewhere
<1>7. /\ loop'[r] = lo /\ round'[r] = ro /\ health'[r] = Unmarked /\ reply'[r] = "none"
      /\ pc'[r] = IF Barred(r, c) THEN "barred" ELSE IF Direct(c) THEN "acquire" ELSE "slot"
  BY <1>1, <1>5 DEF Select, LoopInv, LoopTypeOK, Knows, Goto
<1>8. Candidate(r)' = c /\ Channel(r)' = ChannelOf[c] /\ loop[r].attempt <= MaxRetries
  BY <1>3, <1>7 DEF Candidate, Channel, Select
<1>9. pc'[r] # "barred" => ChannelOf[c] \notin loop[r].rejected
  BY <1>2, <1>7 DEF LoopInv, LoopTypeOK, Loops, Barred, Direct
<1>10. Knows(r)'
  BY <1>2, <1>4, <1>7, <1>8, <1>9 DEF Knows, Direct, Unmarked, Trying, Holding, Admitted, InAttempt
<1> QED
  BY <1>6, <1>7, <1>10 DEF Moves

\* An attempt that ends tells its outcome.
LEMMA EndMoves ==
  ASSUME LoopInv, NEW r \in Requests,
         FailRetried(r) \/ FailFinally(r) \/ Succeed(r) \/ StreamEnds(r) \/ RetryUnsent(r) \/ Panic(r)
  PROVE  Moves(r) /\ pc'[r] \in {"select", "done"}
<1>0. /\ health \in [Requests -> Outcomes] /\ reply \in [Requests -> Replies]
      /\ health[r].outcome = "failure" <=> health[r].fault
  BY DEF LoopInv, LoopTypeOK, Knows
<1>1. CASE FailRetried(r)
  <2>1. PICK fault \in BOOLEAN : Record(r, fault, "failure")
    BY <1>1 DEF FailRetried
  <2>2. pc[r] = "sent" /\ RetriesLeft(r) /\ NextRound(r)
    BY <1>1 DEF FailRetried
  <2> QED
    BY <2>1, <2>2, RecordHonest, NextRoundMoves DEF InAttempt
<1>2. CASE FailFinally(r)
  <2>1. PICK fault \in BOOLEAN, what \in {"none", "failure"} : Record(r, fault, what)
    BY <1>2 DEF FailFinally
  <2>2. pc[r] = "sent" /\ Reply(r, "error")
    BY <1>2 DEF FailFinally
  <2> QED
    BY <2>1, <2>2, RecordHonest, ReplyMoves DEF InAttempt, Replies
<1>3. CASE Succeed(r)
  <2>1. pc[r] = "sent" /\ Reply(r, "answer") /\ Record(r, FALSE, "success")
    BY <1>3 DEF Succeed
  <2> QED
    BY <2>1, RecordHonest, ReplyMoves DEF InAttempt, Replies
<1>4. CASE StreamEnds(r)
  <2>1. PICK fault \in BOOLEAN : Record(r, fault, IF fault THEN "failure" ELSE "success")
    BY <1>4 DEF StreamEnds
  <2>2. pc[r] = "streaming" /\ Done(r) /\ reply' = reply
    BY <1>4 DEF StreamEnds
  <2> QED
    BY <1>0, <2>1, <2>2, RecordHonest, DoneMoves DEF InAttempt
<1>5. CASE RetryUnsent(r)
  <2>1. pc[r] = "endpoint" /\ RetriesLeft(r) /\ NextRound(r) /\ health' = health
    BY <1>5 DEF RetryUnsent
  <2> QED
    BY <1>0, <2>1, NextRoundMoves
<1>6. CASE Panic(r)
  <2>1. Done(r) /\ reply' = reply /\ health' = health
    BY <1>6 DEF Panic
  <2> QED
    BY <1>0, <2>1, DoneMoves
<1> QED
  BY <1>1, <1>2, <1>3, <1>4, <1>5, <1>6

\* A request that waited in vain or was refused goes on or ends.
LEMMA RefusedMoves ==
  ASSUME LoopInv, NEW r \in Requests,
         \/ TurnedAway(r) \/ StopWaiting(r) \/ Denied(r) \/ Saturated(r)
         \/ PassOver(r) \/ GiveUp(r) \/ RefuseLocally(r)
  PROVE  Moves(r) /\ pc'[r] \in {"select", "done"}
<1>0. /\ health \in [Requests -> Outcomes] /\ loop[r] \in Loops
      /\ health[r].outcome = "failure" <=> health[r].fault
  BY DEF LoopInv, LoopTypeOK, Knows
<1>1. CASE TurnedAway(r) \/ StopWaiting(r) \/ Denied(r)
  <2>1. /\ Reject(r) /\ health' = health
        /\ pc[r] \in {"acquire", "queued"} \/ (pc[r] = "endpoint" /\ Direct(Candidate(r)))
    BY <1>1 DEF TurnedAway, StopWaiting, Denied
  <2>2. Direct(Candidate(r))
    BY <2>1 DEF LoopInv, Knows
  <2> QED
    BY <2>1, <2>2, RejectMoves DEF Trying, Admitted, InAttempt
<1>2. CASE Saturated(r)
  <2>1. pc[r] = "slot" /\ health' = health
    BY <1>2 DEF Saturated
  <2>2. CASE ~Direct(Candidate(r))
    <3> DEFINE l == [loop[r] EXCEPT !.attempt = @ + 1]
    <3>1. loop[r].attempt <= MaxRetries
      BY <2>1 DEF LoopInv, Knows, Trying, Admitted
    <3>2. l \in Loops
      BY <1>0, <3>1 DEF Loops
    <3>3. Again(r, l)
      BY <1>2, <2>2 DEF Saturated
    <3> HIDE DEF l
    <3> QED
      BY <1>0, <2>1, <3>2, <3>3, AgainMoves DEF Trying, Admitted
  <2>3. CASE Direct(Candidate(r))
    <3>1. Skip(r, round[r].again, loop[r])
      BY <1>2, <2>3 DEF Saturated
    <3> QED
      BY <1>0, <2>1, <3>1, SkipMoves DEF Trying, Admitted, InAttempt
  <2> QED
    BY <2>2, <2>3
<1>3. CASE PassOver(r)
  BY <1>0, <1>3, SkipMoves DEF PassOver, Trying
<1>4. CASE GiveUp(r) \/ RefuseLocally(r)
  <2>1. Reply(r, "error") /\ health' = health
    BY <1>4 DEF GiveUp, RefuseLocally
  <2> QED
    BY <1>0, <2>1, ReplyMoves DEF Replies
<1> QED
  BY <1>1, <1>2, <1>3, <1>4

\* A request that goes on inside its round.
LEMMA AheadMoves ==
  ASSUME LoopInv, NEW r \in Requests,
         \/ AcquireAtOnce(r) \/ JoinQueue(r) \/ (Woken(r) /\ Goto(r, "slot"))
         \/ TakeSlot(r) \/ Send(r) \/ NextEndpoint(r)
  PROVE  Moves(r) /\ pc'[r] \in Holding \ {"streaming"}
<1>0. round \in [Requests -> Rounds] /\ pc \in [Requests -> Steps]
  BY DEF LoopInv, LoopTypeOK
<1>1. CASE AcquireAtOnce(r) \/ JoinQueue(r)
  <2>1. Direct(Candidate(r))
    BY <1>1 DEF LoopInv, Knows, AcquireAtOnce, JoinQueue
  <2>2. \E l \in {"slot", "queued"} : Goto(r, l) /\ pc[r] = "acquire" /\ UNCHANGED <<loop, round, reply, health, left>>
    BY <1>1 DEF AcquireAtOnce, JoinQueue
  <2> QED
    BY <1>0, <2>1, <2>2, QuietMoves DEF Trying, Holding, Admitted, InAttempt, Steps
<1>2. CASE Woken(r) /\ Goto(r, "slot")
  <2>1. pc[r] = "queued" /\ pc'[r] # "done"
    BY <1>0, <1>2 DEF Woken, Goto
  <2>2. ~Reply(r, "error")
    BY <1>0, <2>1 DEF Reply, Done, Goto
  <2>3. UNCHANGED <<loop, round, reply, health, left>>
    BY <1>2, <2>2 DEF Woken
  <2> QED
    BY <1>0, <1>2, <2>1, <2>3, QuietMoves DEF Trying, Holding, Admitted, InAttempt, Steps
<1>3. CASE TakeSlot(r) \/ Send(r)
  <2>1. \E l \in {"endpoint", "sent"} : Goto(r, l) /\ pc[r] \in {"slot", "endpoint"} /\ UNCHANGED <<loop, round, reply, health, left>>
    BY <1>3 DEF TakeSlot, Send
  <2> QED
    BY <1>0, <2>1, QuietMoves DEF Trying, Holding, Admitted, InAttempt, Steps
<1>4. CASE NextEndpoint(r)
  <2>1. Goto(r, "endpoint") /\ pc[r] \in {"endpoint", "sent"} /\ UNCHANGED <<loop, reply, health, left>>
    BY <1>4 DEF NextEndpoint
  <2>2. /\ round' \in [Requests -> Rounds] /\ round'[r].cand = round[r].cand
        /\ \A q \in Requests \ {r} : round'[q] = round[q]
    BY <1>0, <1>4 DEF NextEndpoint, Rounds
  <2> QED
    BY <2>1, <2>2, QuietMoves DEF Trying, Holding, Admitted, InAttempt, Steps
<1> QED
  BY <1>1, <1>2, <1>3, <1>4

LEMMA StartMoves ==
  ASSUME LoopInv, NEW r \in Requests, Start(r)
  PROVE  Moves(r) /\ pc'[r] \in {"select", "done"}
<1>0. /\ health \in [Requests -> Outcomes] /\ health' = health /\ pc[r] = "start"
      /\ health[r].outcome = "failure" <=> health[r].fault
  BY DEF LoopInv, LoopTypeOK, Knows, Start
<1>1. CASE Reply(r, "error")
  BY <1>0, <1>1, ReplyMoves DEF Replies
<1>2. CASE ~Reply(r, "error")
  <2>1. Goto(r, "select") /\ UNCHANGED <<loop, round, reply, left>>
    BY <1>2 DEF Start
  <2>2. LoopTypeOK' /\ Elsewhere(r) /\ pc'[r] = "select"
    BY <1>0, <2>1 DEF LoopInv, LoopTypeOK, Goto, Elsewhere, Steps
  <2> QED
    BY <1>0, <2>1, <2>2 DEF LoopInv, LoopTypeOK, Moves, Knows, Trying, Holding, Admitted, InAttempt
<1> QED
  BY <1>1, <1>2

LEMMA StreamMoves ==
  ASSUME LoopInv, NEW r \in Requests, BeginStream(r)
  PROVE  Moves(r) /\ pc'[r] = "streaming"
<1>1. LoopTypeOK' /\ Elsewhere(r) /\ pc'[r] = "streaming"
  BY DEF BeginStream, LoopInv, LoopTypeOK, Goto, Elsewhere, Steps, Replies
<1>2. /\ Candidate(r)' = Candidate(r) /\ Channel(r)' = Channel(r) /\ loop'[r] = loop[r] /\ health'[r] = health[r]
      /\ pc[r] = "sent"
  BY DEF BeginStream, Candidate, Channel
<1>3. /\ Candidate(r) \in Candidates /\ loop[r].attempt <= MaxRetries /\ Channel(r) \notin loop[r].rejected
      /\ health[r].outcome = "none" /\ ~health[r].fault
  BY <1>2 DEF LoopInv, LoopTypeOK, Outcomes, Knows, Trying, Holding, Admitted, InAttempt
<1> QED
  BY <1>1, <1>2, <1>3 DEF Moves, Knows, Trying, Holding, Admitted, InAttempt

LEMMA WokenRefused ==
  ASSUME LoopInv, NEW r \in Requests, Woken(r), Reply(r, "error")
  PROVE  Moves(r) /\ pc'[r] = "done"
<1>1. /\ health \in [Requests -> Outcomes] /\ health' = health
      /\ health[r].outcome = "failure" <=> health[r].fault
  BY DEF LoopInv, LoopTypeOK, Knows, Woken
<1> QED
  BY <1>1, ReplyMoves DEF Replies

LEMMA StepMoves ==
  ASSUME LoopInv, NEW r \in Requests, RequestStep(r) \/ StopWaiting(r) \/ Panic(r)
  PROVE  Moves(r)
<1>1. CASE Start(r) \/ Select(r) \/ BeginStream(r)
  BY <1>1, StartMoves, SelectMoves, StreamMoves
<1>2. CASE Woken(r)
  BY <1>2, WokenRefused, AheadMoves DEF Woken
<1>3. CASE AcquireAtOnce(r) \/ JoinQueue(r) \/ TakeSlot(r) \/ Send(r) \/ NextEndpoint(r)
  BY <1>3, AheadMoves
<1>4. CASE TurnedAway(r) \/ StopWaiting(r) \/ Denied(r) \/ Saturated(r) \/ PassOver(r) \/ GiveUp(r) \/ RefuseLocally(r)
  BY <1>4, RefusedMoves
<1>5. CASE FailRetried(r) \/ FailFinally(r) \/ Succeed(r) \/ StreamEnds(r) \/ RetryUnsent(r) \/ Panic(r)
  BY <1>5, EndMoves
<1> QED
  BY <1>1, <1>2, <1>3, <1>4, <1>5 DEF RequestStep

LEMMA LoopInvHolds == Spec => []LoopInv
<1>1. Init => LoopInv
  <2> SUFFICES ASSUME Init PROVE LoopInv
    OBVIOUS
  <2>1. LoopTypeOK
    <3> DEFINE first == {[Fresh EXCEPT !.forced = c] : c \in Forcible \cup {NoCandidate}}
    <3>1. first \subseteq Loops
      BY DEF Fresh, Loops
    <3>2. loop \in [Requests -> first]
      BY Zenon DEF Init
    <3> HIDE DEF first
    <3>3. loop \in [Requests -> Loops]
      BY <3>1, <3>2
    <3> QED
      BY <3>3, FreshTypes DEF Init, LoopTypeOK, Steps, Replies
  <2>2. ASSUME NEW r \in Requests PROVE Knows(r)
    BY DEF Init, Knows, Trying, Holding, Admitted, InAttempt, Unmarked
  <2> QED
    BY <2>1, <2>2 DEF LoopInv
<1>2. LoopInv /\ [Next]_vars => LoopInv'
  <2> SUFFICES ASSUME LoopInv, [Next]_vars PROVE LoopInv'
    OBVIOUS
  <2>1. ASSUME NEW r \in Requests, Moves(r) PROVE LoopInv'
    <3>1. ASSUME NEW q \in Requests \ {r} PROVE Knows(q)'
      BY <2>1, <3>1 DEF LoopInv, Moves, Elsewhere, Knows, Candidate, Channel, Direct
    <3> QED
      BY <2>1, <3>1 DEF LoopInv, Moves
  <2>2. ASSUME NEW r \in Requests, Leave(r) PROVE LoopInv'
    BY <2>2 DEF Leave, LoopInv, LoopTypeOK, Knows, Candidate, Channel, Direct
  <2>3. CASE UNCHANGED vars
    BY <2>3 DEF vars, LoopInv, LoopTypeOK, Knows, Candidate, Channel, Direct
  <2> QED
    BY <2>1, <2>2, <2>3, StepMoves DEF Next
<1> QED
  BY <1>1, <1>2, PTL DEF Spec

\* An attempt is held against its channel only if the upstream failed, whoever
\* left meanwhile (recordUpstreamFailure, upstream.go 1749-1767).
THEOREM HonestOutcomes == Spec => []OutcomesHonest
<1>1. LoopInv => OutcomesHonest
  BY DEF LoopInv, Knows, OutcomesHonest
<1> QED
  BY <1>1, LoopInvHolds, PTL

\* A request that was answered, or has begun a stream, only ends (upstream.go
\* 1204-1205).
THEOREM NoRetryAfterOutput == Spec => NothingAfterOutput
<1>1. LoopInv /\ [Next]_vars =>
        [\A r \in Requests : reply[r] # "none" => reply'[r] = reply[r] /\ (pc'[r] \in {"streaming", "done"})]_vars
  <2> SUFFICES ASSUME LoopInv, [Next]_vars, ~UNCHANGED vars, NEW r \in Requests, reply[r] # "none"
               PROVE  reply'[r] = reply[r] /\ pc'[r] \in {"streaming", "done"}
    BY Zenon
  <2>0. pc[r] \in {"streaming", "done"} /\ reply \in [Requests -> Replies]
    BY DEF LoopInv, LoopTypeOK, Knows
  <2>1. ASSUME NEW q \in Requests, q # r, Moves(q) PROVE reply'[r] = reply[r] /\ pc'[r] \in {"streaming", "done"}
    BY <2>0, <2>1 DEF Moves, Elsewhere
  <2>2. ASSUME NEW q \in Requests, Leave(q) PROVE reply'[r] = reply[r] /\ pc'[r] \in {"streaming", "done"}
    BY <2>0, <2>2 DEF Leave
  <2>3. ASSUME RequestStep(r) PROVE StreamEnds(r)
    <3>1. pc[r] \notin {"start", "select", "barred", "acquire", "queued", "slot", "endpoint", "sent"}
      BY <2>0
    <3> QED
      BY <2>3, <3>1 DEF RequestStep, Start, Select, PassOver, GiveUp, AcquireAtOnce, JoinQueue, TurnedAway, Woken,
         TakeSlot, Saturated, RefuseLocally, Denied, Send, NextEndpoint, RetryUnsent, FailRetried, FailFinally,
         Succeed, BeginStream
  <2>4. ASSUME StreamEnds(r) \/ Panic(r) PROVE reply'[r] = reply[r] /\ pc'[r] \in {"streaming", "done"}
    BY <2>4 DEF StreamEnds, Panic, Done, Goto, LoopInv, LoopTypeOK
  <2>5. ~StopWaiting(r)
    BY <2>0 DEF StopWaiting
  <2> QED
    BY <2>1, <2>2, <2>3, <2>4, <2>5, StepMoves DEF Next
<1> QED
  BY <1>1, LoopInvHolds, PTL DEF Spec, NothingAfterOutput

-----------------------------------------------------------------------------
(* A channel: its holders and its queue *)

\* Holders and waiters are different requests, and the holders fit the limit n.
Sound(holders, q, n) ==
  /\ holders \in SUBSET Requests /\ q \in Seq(Requests)
  /\ Unique(q) /\ Elements(q) \cap holders = {}
  /\ n # 0 => Cardinality(holders) <= n

LEMMA SubsetFinite ==
  ASSUME NEW S \in SUBSET Requests
  PROVE  IsFiniteSet(S) /\ Cardinality(S) \in Nat
BY FS_Subset, FS_CardinalityType

\* A waiter that leaves keeps the order of the others (limiter.go 139-141).
LEMMA WithoutKeeps ==
  ASSUME NEW q \in Seq(Requests), Unique(q), NEW r \in Requests
  PROVE  Without(q, r) \in Seq(Requests) /\ Unique(Without(q, r)) /\ Elements(Without(q, r)) = Elements(q) \ {r}
<1>0. DOMAIN q = 1..Len(q)
  BY LenProperties
<1>1. CASE \A i \in DOMAIN q : q[i] # r
  <2>1. Without(q, r) = q
    BY <1>1 DEF Without
  <2>2. r \notin Elements(q)
    BY <1>0, <1>1 DEF Elements
  <2> QED
    BY <2>1, <2>2
<1>2. CASE \E i \in DOMAIN q : q[i] = r
  <2> DEFINE i == CHOOSE j \in DOMAIN q : q[j] = r
  <2>1. i \in 1..Len(q) /\ q[i] = r
    BY <1>0, <1>2
  <2>2. Without(q, r) = SubSeq(q, 1, i - 1) \o SubSeq(q, i + 1, Len(q))
    BY <1>2 DEF Without
  <2> HIDE DEF i
  <2> DEFINE w == SubSeq(q, 1, i - 1) \o SubSeq(q, i + 1, Len(q))
  <2>3. w \in Seq(Requests) /\ Unique(w) /\ Elements(w) = Elements(q) \ {q[i]}
    BY <2>1, RemoveOne
  <2> HIDE DEF w
  <2> QED
    BY <2>1, <2>2, <2>3 DEF w
<1> QED
  BY <1>1, <1>2

\* grant keeps a channel sound and loses nobody (limiter.go 153-160).
LEMMA ServeKeeps ==
  ASSUME permits \in [Channels -> SUBSET Requests], queue \in [Channels -> Seq(Requests)],
         NEW c \in Channels, NEW holders, NEW q, Sound(holders, q, Permits[c]), Serve(c, holders, q)
  PROVE  /\ permits' \in [Channels -> SUBSET Requests] /\ queue' \in [Channels -> Seq(Requests)]
         /\ \A d \in Channels \ {c} : permits'[d] = permits[d] /\ queue'[d] = queue[d]
         /\ Sound(permits'[c], queue'[c], Permits[c])
         /\ permits'[c] \cup Elements(queue'[c]) = holders \cup Elements(q)
         /\ Elements(queue'[c]) \subseteq Elements(q)
<1> DEFINE free == Permits[c] - Cardinality(holders)
           n == IF Permits[c] = 0 \/ Len(q) <= free THEN Len(q) ELSE free
           front == {q[i] : i \in 1..n}
           rest == SubSeq(q, n + 1, Len(q))
<1>1. /\ permits' = [permits EXCEPT ![c] = holders \cup front]
      /\ queue' = [queue EXCEPT ![c] = rest]
  BY DEF Serve
<1>2. /\ holders \in SUBSET Requests /\ q \in Seq(Requests) /\ Unique(q) /\ Elements(q) \cap holders = {}
      /\ Len(q) \in Nat /\ Cardinality(holders) \in Nat /\ IsFiniteSet(holders) /\ Permits[c] \in Nat
  BY SubsetFinite, LenProperties DEF Sound
<1>3. n \in 0..Len(q) /\ (Permits[c] # 0 => n <= free)
  BY <1>2 DEF Sound
<1> HIDE DEF n
<1>4. front \in SUBSET Requests /\ Cardinality(front) <= n
  BY <1>2, <1>3, FrontSize
<1>5. /\ rest \in Seq(Requests) /\ Unique(rest)
      /\ Elements(rest) \cap front = {}
      /\ Elements(rest) \cup front = Elements(q)
  BY <1>2, <1>3, RestOfQueue
<1> HIDE DEF front, rest
<1>6. Permits[c] # 0 => Cardinality(holders \cup front) <= Permits[c]
  <2>1. IsFiniteSet(front) /\ Cardinality(front) \in Nat /\ Cardinality(holders \cap front) \in Nat
    BY <1>2, <1>4, SubsetFinite
  <2>2. Cardinality(holders \cup front) = Cardinality(holders) + Cardinality(front) - Cardinality(holders \cap front)
    BY <1>2, <2>1, FS_Union
  <2> QED
    BY <1>2, <1>3, <1>4, <2>1, <2>2
<1>7. Sound(holders \cup front, rest, Permits[c])
  BY <1>2, <1>4, <1>5, <1>6 DEF Sound
<1>8. permits'[c] = holders \cup front /\ queue'[c] = rest
  BY <1>1
<1> QED
  BY <1>1, <1>2, <1>4, <1>5, <1>7, <1>8

-----------------------------------------------------------------------------
(* Who holds what *)

\* Permits and places in queues belong to the requests that hold or await one.
ChannelsInv ==
  /\ permits \in [Channels -> SUBSET Requests] /\ queue \in [Channels -> Seq(Requests)]
  /\ \A c \in Channels : Sound(permits[c], queue[c], Permits[c])
  /\ \A c \in Channels, r \in Requests :
       /\ r \in permits[c] \cup Elements(queue[c]) <=> pc[r] \in Holding /\ Channel(r) = c
       /\ r \in Elements(queue[c]) => pc[r] = "queued"

\* Slots belong to the requests inside an attempt.
SlotsInv ==
  /\ active \in [Scopes -> Int]
  /\ \A s \in Scopes : active[s] = IF Slots[s] = 0 THEN 0 ELSE Cardinality(Using(s))

\* A step of r that loses nobody else in the channels keeps the invariant when it
\* puts r where its step belongs.
LEMMA ChannelsSettle ==
  ASSUME ChannelsInv, NEW r \in Requests, Moves(r),
         permits' \in [Channels -> SUBSET Requests], queue' \in [Channels -> Seq(Requests)],
         \A c \in Channels : Sound(permits'[c], queue'[c], Permits[c]),
         \A c \in Channels, q \in Requests \ {r} :
           /\ q \in permits'[c] \cup Elements(queue'[c]) <=> q \in permits[c] \cup Elements(queue[c])
           /\ q \in Elements(queue'[c]) => q \in Elements(queue[c]),
         \A c \in Channels :
           /\ r \in permits'[c] \cup Elements(queue'[c]) <=> pc'[r] \in Holding /\ Channel(r)' = c
           /\ r \in Elements(queue'[c]) => pc'[r] = "queued"
  PROVE  ChannelsInv'
<1>1. ASSUME NEW q \in Requests \ {r} PROVE pc'[q] = pc[q] /\ Channel(q)' = Channel(q)
  BY <1>1 DEF Moves, Elsewhere, Channel, Candidate
<1>2. ASSUME NEW c \in Channels, NEW q \in Requests
      PROVE  /\ q \in permits'[c] \cup Elements(queue'[c]) <=> pc'[q] \in Holding /\ Channel(q)' = c
             /\ q \in Elements(queue'[c]) => pc'[q] = "queued"
  <2>1. CASE q = r
    BY <2>1
  <2>2. CASE q # r
    <3>1. /\ q \in permits'[c] \cup Elements(queue'[c]) <=> q \in permits[c] \cup Elements(queue[c])
          /\ q \in Elements(queue'[c]) => q \in Elements(queue[c])
      BY <2>2
    <3>2. /\ q \in permits[c] \cup Elements(queue[c]) <=> pc[q] \in Holding /\ Channel(q) = c
          /\ q \in Elements(queue[c]) => pc[q] = "queued"
      BY DEF ChannelsInv
    <3>3. pc'[q] = pc[q] /\ Channel(q)' = Channel(q)
      BY <1>1, <2>2
    <3> QED
      BY <3>1, <3>2, <3>3
  <2> QED
    BY <2>1, <2>2
<1>3. ASSUME NEW c \in Channels PROVE Elements(queue[c])' = Elements(queue'[c])
  BY DEF Elements
<1>4. ASSUME NEW c \in Channels PROVE Sound(permits[c], queue[c], Permits[c])'
  BY <1>3 DEF Sound, Elements, Unique
<1> QED
  BY <1>2, <1>3, <1>4 DEF ChannelsInv

LEMMA ChannelsStay ==
  ASSUME ChannelsInv, NEW r \in Requests, Moves(r), UNCHANGED admission,
         \A c \in Channels : (pc'[r] \in Holding /\ Channel(r)' = c) <=> (pc[r] \in Holding /\ Channel(r) = c),
         \A c \in Channels : r \in Elements(queue[c]) => pc'[r] = "queued"
  PROVE  ChannelsInv'
<1>1. permits' = permits /\ queue' = queue
  BY DEF admission
<1> QED
  BY <1>1, ChannelsSettle DEF ChannelsInv

LEMMA SlotsStay ==
  ASSUME SlotsInv, NEW r \in Requests, Moves(r), active' = active,
         pc[r] \in InAttempt <=> pc'[r] \in InAttempt,
         pc[r] \in InAttempt => Candidate(r)' = Candidate(r)
  PROVE  SlotsInv'
<1>1. ASSUME NEW s \in Scopes PROVE Using(s)' = Using(s)
  BY DEF Using, Scope, Candidate, Moves, Elsewhere
<1> QED
  BY <1>1 DEF SlotsInv

\* A permit or a place in the queue is given up with the step that needed it.
LEMMA ServeSettles ==
  ASSUME ChannelsInv, NEW r \in Requests, Moves(r), pc'[r] \in {"select", "done"},
         pc[r] \in Holding, Channel(r) \in Channels, NEW q \in Seq(Requests), Unique(q),
         Elements(q) = Elements(queue[Channel(r)]) \ {r},
         Serve(Channel(r), permits[Channel(r)] \ {r}, q)
  PROVE  ChannelsInv'
<1> DEFINE c == Channel(r)
           holders == permits[c] \ {r}
<1>1. /\ permits \in [Channels -> SUBSET Requests] /\ queue \in [Channels -> Seq(Requests)]
      /\ Sound(permits[c], queue[c], Permits[c]) /\ c \in Channels
  BY DEF ChannelsInv
<1>2. Sound(holders, q, Permits[c])
  <2>1. holders \in SUBSET permits[c] /\ permits[c] \in SUBSET Requests
    BY <1>1
  <2>2. /\ Cardinality(holders) <= Cardinality(permits[c])
        /\ Cardinality(holders) \in Nat /\ Cardinality(permits[c]) \in Nat /\ Permits[c] \in Nat
    BY <1>1, <2>1, SubsetFinite, FS_Subset
  <2> QED
    BY <1>1, <2>1, <2>2 DEF Sound
<1>3. Serve(c, holders, q)
  OBVIOUS
<1> HIDE DEF c, holders
<1>4. /\ permits' \in [Channels -> SUBSET Requests] /\ queue' \in [Channels -> Seq(Requests)]
      /\ \A d \in Channels \ {c} : permits'[d] = permits[d] /\ queue'[d] = queue[d]
      /\ Sound(permits'[c], queue'[c], Permits[c])
      /\ permits'[c] \cup Elements(queue'[c]) = holders \cup Elements(q)
      /\ Elements(queue'[c]) \subseteq Elements(q)
  BY <1>1, <1>2, <1>3, ServeKeeps
<1>5. ASSUME NEW d \in Channels PROVE Sound(permits'[d], queue'[d], Permits[d])
  <2>1. CASE d # c
    BY <1>4, <2>1 DEF ChannelsInv
  <2> QED
    BY <1>4, <2>1
<1>6. permits'[c] \cup Elements(queue'[c]) = (permits[c] \cup Elements(queue[c])) \ {r}
  BY <1>4 DEF c, holders
<1>7. Elements(queue'[c]) \subseteq Elements(queue[c]) \ {r}
  BY <1>4 DEF c
<1>8. \A d \in Channels \ {c} : r \notin permits[d] \cup Elements(queue[d])
  BY DEF ChannelsInv, c
<1>9. pc'[r] \notin Holding
  BY DEF Holding, Admitted, InAttempt
<1>10. ASSUME NEW d \in Channels, NEW x \in Requests \ {r}
       PROVE  /\ x \in permits'[d] \cup Elements(queue'[d]) <=> x \in permits[d] \cup Elements(queue[d])
              /\ x \in Elements(queue'[d]) => x \in Elements(queue[d])
  BY <1>4, <1>6, <1>7
<1>11. ASSUME NEW d \in Channels PROVE r \notin permits'[d] \cup Elements(queue'[d])
  BY <1>4, <1>6, <1>8
<1> QED
  BY <1>4, <1>5, <1>9, <1>10, <1>11, ChannelsSettle

LEMMA ReleaseSettles ==
  ASSUME LoopInv, ChannelsInv, NEW r \in Requests, Moves(r), pc'[r] \in {"select", "done"}, ReleasePermit(r),
         pc[r] \in Admitted \/ (pc[r] = "queued" /\ r \in permits[Channel(r)])
  PROVE  ChannelsInv'
<1>1. pc[r] \in Holding /\ pc'[r] \notin Holding /\ Candidate(r) \in Candidates
  BY DEF LoopInv, Knows, Trying, Holding, Admitted, InAttempt
<1>2. CASE Direct(Candidate(r))
  <2>1. Channel(r) \in Channels
    BY <1>1, <1>2 DEF Direct, Channel
  <2>2. r \notin Elements(queue[Channel(r)])
    BY <2>1 DEF ChannelsInv, Sound, Admitted, InAttempt
  <2>3. /\ queue[Channel(r)] \in Seq(Requests) /\ Unique(queue[Channel(r)])
        /\ Elements(queue[Channel(r)]) = Elements(queue[Channel(r)]) \ {r}
    BY <2>1, <2>2 DEF ChannelsInv, Sound
  <2>4. Serve(Channel(r), permits[Channel(r)] \ {r}, queue[Channel(r)])
    BY <1>2 DEF ReleasePermit
  <2> QED
    BY <1>1, <2>1, <2>3, <2>4, ServeSettles
<1>3. CASE ~Direct(Candidate(r))
  <2>1. UNCHANGED admission /\ Channel(r) \notin Channels
    BY <1>3 DEF ReleasePermit, Direct, Channel
  <2>2. \A c \in Channels : r \notin Elements(queue[c])
    BY <2>1 DEF ChannelsInv
  <2> QED
    BY <1>1, <2>1, <2>2, ChannelsStay
<1> QED
  BY <1>2, <1>3

\* Whichever way an attempt ends, it gives back its permit and its slot
\* (upstream.go 379-394).
LEMMA EndSettles ==
  ASSUME LoopInv, ChannelsInv, SlotsInv, NEW r \in Requests, Moves(r), pc'[r] \in {"select", "done"},
         EndAttempt(r), pc[r] \in InAttempt
  PROVE  ChannelsInv' /\ SlotsInv'
<1>1. ChannelsInv'
  BY ReleaseSettles DEF EndAttempt, Admitted
<1>0. Scope(r) \in Scopes
  BY DEF LoopInv, Knows, Trying, Admitted, Scope
<1>2. PICK t \in Scopes : t = Scope(r) /\ Count(t, -1)
  BY <1>0 DEF EndAttempt
<1>3. \A s \in Scopes : Using(s)' = IF s = t THEN Using(s) \ {r} ELSE Using(s)
  BY <1>2 DEF Using, Scope, Candidate, InAttempt, Moves, Elsewhere
<1>4. r \in Using(t)
  BY <1>2 DEF Using
<1>5. \A s \in Scopes : Using(s) \in SUBSET Requests
  BY DEF Using
<1>6. Cardinality(Using(t) \ {r}) = Cardinality(Using(t)) - 1
  BY <1>2, <1>4, <1>5, SubsetFinite, FS_RemoveElement
<1>7. SlotsInv'
  <2>1. active' \in [Scopes -> Int]
    BY <1>2 DEF SlotsInv, Count
  <2>2. ASSUME NEW s \in Scopes, s # t PROVE active'[s] = active[s] /\ Using(s)' = Using(s)
    BY <1>2, <1>3, <2>2 DEF SlotsInv, Count
  <2>3. active'[t] = IF Slots[t] = 0 THEN 0 ELSE Cardinality(Using(t)')
    <3>1. active'[t] = IF Slots[t] = 0 THEN active[t] ELSE active[t] - 1
      BY <1>2 DEF SlotsInv, Count
    <3>2. Using(t)' = Using(t) \ {r}
      BY Zenon, <1>2, <1>3
    <3> QED
      BY <1>2, <1>6, <3>1, <3>2 DEF SlotsInv
  <2>4. ASSUME NEW s \in Scopes PROVE active'[s] = IF Slots[s] = 0 THEN 0 ELSE Cardinality(Using(s)')
    <3>1. CASE s = t
      BY Zenon, <2>3, <3>1
    <3>2. CASE s # t
      <4>1. active[s] = IF Slots[s] = 0 THEN 0 ELSE Cardinality(Using(s))
        BY DEF SlotsInv
      <4> QED
        BY Zenon, <2>2, <2>4, <3>2, <4>1
    <3> QED
      BY <3>1, <3>2
  <2> QED
    BY Zenon, <2>1, <2>4 DEF SlotsInv
<1> QED
  BY <1>1, <1>7

-----------------------------------------------------------------------------
(* Every step keeps permits, queues and slots *)

SharedInv == ChannelsInv /\ SlotsInv

\* Steps that neither take nor give anything.
LEMMA IdleKeeps ==
  ASSUME LoopInv, SharedInv, NEW r \in Requests,
         Start(r) \/ Select(r) \/ PassOver(r) \/ GiveUp(r) \/ TurnedAway(r)
  PROVE  SharedInv'
<1>1. /\ Moves(r) /\ UNCHANGED <<permits, queue, active>>
      /\ pc[r] \in {"start", "select", "barred", "acquire"}
  BY StepMoves DEF RequestStep, Start, Select, PassOver, GiveUp, TurnedAway
<1>2. /\ pc'[r] \in {"select", "done", "barred", "acquire", "slot"}
      /\ pc'[r] = "slot" => ~Direct(Candidate(r)')
  <2>1. CASE Select(r)
    <3>1. PICK c \in Offered(r) :
            /\ Goto(r, IF Barred(r, c) THEN "barred" ELSE IF Direct(c) THEN "acquire" ELSE "slot")
            /\ round' = [round EXCEPT ![r] = [cand |-> c, again |-> c \in loop[r].excluded, endpoint |-> 1]]
      BY <2>1 DEF Select
    <3>2. Candidate(r)' = c
      BY <3>1 DEF LoopInv, LoopTypeOK, Candidate
    <3>3. pc'[r] = IF Barred(r, c) THEN "barred" ELSE IF Direct(c) THEN "acquire" ELSE "slot"
      BY <3>1 DEF LoopInv, LoopTypeOK, Goto
    <3> QED
      BY <3>2, <3>3
  <2>2. CASE Start(r)
    BY <2>2, StartMoves
  <2>3. CASE PassOver(r) \/ GiveUp(r) \/ TurnedAway(r)
    BY <2>3, RefusedMoves
  <2> QED
    BY <2>1, <2>2, <2>3
<1>3. ASSUME NEW c \in Channels
      PROVE  /\ ~(pc'[r] \in Holding /\ Channel(r)' = c)
             /\ ~(pc[r] \in Holding /\ Channel(r) = c)
             /\ r \notin Elements(queue[c])
  <2>1. ~(pc[r] \in Holding /\ Channel(r) = c)
    BY <1>1 DEF Holding, Admitted, InAttempt
  <2>2. pc'[r] = "slot" => Channel(r)' = NoChannel
    BY <1>2 DEF Direct, Channel
  <2>3. ~(pc'[r] \in Holding /\ Channel(r)' = c)
    BY <1>2, <2>2 DEF Holding, Admitted, InAttempt
  <2> QED
    BY <2>1, <2>3 DEF SharedInv, ChannelsInv
<1>4. ChannelsInv'
  BY <1>1, <1>3, ChannelsStay DEF SharedInv, admission
<1>5. SlotsInv'
  BY <1>1, <1>2, SlotsStay DEF SharedInv, InAttempt
<1> QED
  BY <1>4, <1>5 DEF SharedInv

\* Steps inside an attempt.
LEMMA InsideKeeps ==
  ASSUME LoopInv, SharedInv, NEW r \in Requests, Send(r) \/ NextEndpoint(r) \/ BeginStream(r)
  PROVE  SharedInv'
<1>1. /\ Moves(r) /\ UNCHANGED <<permits, queue, active>>
      /\ pc[r] \in InAttempt /\ pc'[r] \in InAttempt
  BY StepMoves DEF RequestStep, Send, NextEndpoint, BeginStream, Goto, InAttempt, LoopInv, LoopTypeOK
<1>2. Candidate(r)' = Candidate(r) /\ Channel(r)' = Channel(r)
  <2>1. Candidate(r)' = Candidate(r)
    BY DEF Send, NextEndpoint, BeginStream, Candidate, LoopInv, LoopTypeOK, Rounds
  <2> QED
    BY <2>1 DEF Channel
<1>3. \A c \in Channels : r \notin Elements(queue[c])
  BY <1>1 DEF SharedInv, ChannelsInv, InAttempt
<1>4. ChannelsInv'
  BY <1>1, <1>2, <1>3, ChannelsStay DEF SharedInv, admission, Holding, Admitted
<1>5. SlotsInv'
  BY <1>1, <1>2, SlotsStay DEF SharedInv
<1> QED
  BY <1>4, <1>5 DEF SharedInv

\* A permit that was waited for belongs to the request before it wakes.
LEMMA WokenKeeps ==
  ASSUME LoopInv, SharedInv, NEW r \in Requests, Woken(r)
  PROVE  SharedInv'
<1>0. pc[r] = "queued" /\ r \in permits[Channel(r)] /\ active' = active /\ Moves(r)
  BY StepMoves DEF Woken, RequestStep
<1>1. CASE Reply(r, "error") /\ ReleasePermit(r)
  <2>1. pc'[r] = "done"
    BY <1>1, WokenRefused
  <2>2. ChannelsInv'
    BY <1>0, <1>1, <2>1, ReleaseSettles DEF SharedInv
  <2>3. SlotsInv'
    BY <1>0, <2>1, SlotsStay DEF SharedInv, InAttempt
  <2> QED
    BY <2>2, <2>3 DEF SharedInv
<1>2. CASE Goto(r, "slot") /\ UNCHANGED <<round, permits, queue>>
  <2>1. pc'[r] = "slot" /\ Candidate(r)' = Candidate(r) /\ Channel(r)' = Channel(r)
    BY <1>2 DEF Goto, Candidate, Channel, LoopInv, LoopTypeOK
  <2>2. \A c \in Channels : r \notin Elements(queue[c])
    BY <1>0 DEF SharedInv, ChannelsInv, Sound
  <2>3. ChannelsInv'
    BY <1>0, <1>2, <2>1, <2>2, ChannelsStay DEF SharedInv, admission, Holding, Admitted
  <2>4. SlotsInv'
    BY <1>0, <2>1, SlotsStay DEF SharedInv, InAttempt
  <2> QED
    BY <2>3, <2>4 DEF SharedInv
<1> QED
  BY <1>1, <1>2 DEF Woken

LEMMA RefusedKeeps ==
  ASSUME LoopInv, SharedInv, NEW r \in Requests, StopWaiting(r) \/ Saturated(r)
  PROVE  SharedInv'
<1>0. Moves(r) /\ pc'[r] \in {"select", "done"} /\ active' = active
  BY StepMoves, RefusedMoves DEF StopWaiting, Saturated, RequestStep
<1>1. pc[r] \in {"queued", "slot"}
  BY DEF StopWaiting, Saturated
<1>2. SlotsInv'
  BY <1>0, <1>1, SlotsStay DEF SharedInv, InAttempt
<1>3. CASE Saturated(r)
  <2>1. ReleasePermit(r) /\ pc[r] \in Admitted
    BY <1>3 DEF Saturated, Admitted
  <2> QED
    BY <1>0, <1>2, <2>1, ReleaseSettles DEF SharedInv
<1>4. CASE StopWaiting(r)
  <2> DEFINE q == Without(queue[Channel(r)], r)
  <2>1. pc[r] \in Holding /\ Direct(Candidate(r)) /\ Candidate(r) \in Candidates
    BY <1>4 DEF StopWaiting, LoopInv, Knows, Trying, Holding
  <2>2. Channel(r) \in Channels
    BY <2>1 DEF Direct, Channel
  <2>3. queue[Channel(r)] \in Seq(Requests) /\ Unique(queue[Channel(r)])
    BY <2>2 DEF SharedInv, ChannelsInv, Sound
  <2>4. q \in Seq(Requests) /\ Unique(q) /\ Elements(q) = Elements(queue[Channel(r)]) \ {r}
    BY <2>3, WithoutKeeps
  <2>5. Serve(Channel(r), permits[Channel(r)] \ {r}, q)
    BY <1>4 DEF StopWaiting
  <2> HIDE DEF q
  <2>6. ChannelsInv'
    BY <1>0, <2>1, <2>2, <2>4, <2>5, ServeSettles DEF SharedInv
  <2> QED
    BY <1>2, <2>6 DEF SharedInv
<1> QED
  BY <1>3, <1>4

LEMMA EndKeeps ==
  ASSUME LoopInv, SharedInv, NEW r \in Requests,
         \/ FailRetried(r) \/ FailFinally(r) \/ Succeed(r) \/ StreamEnds(r) \/ RetryUnsent(r) \/ Panic(r)
         \/ Denied(r) \/ RefuseLocally(r)
  PROVE  SharedInv'
<1>1. EndAttempt(r) /\ pc[r] \in InAttempt
  BY DEF FailRetried, FailFinally, Succeed, StreamEnds, RetryUnsent, Panic, Denied, RefuseLocally, InAttempt
<1>2. Moves(r) /\ pc'[r] \in {"select", "done"}
  BY EndMoves, RefusedMoves
<1> QED
  BY <1>1, <1>2, EndSettles DEF SharedInv

LEMMA SlotTaken ==
  ASSUME LoopInv, SharedInv, NEW r \in Requests, TakeSlot(r)
  PROVE  SharedInv'
<1>0. Moves(r) /\ UNCHANGED <<round, permits, queue>> /\ pc[r] = "slot" /\ pc'[r] = "endpoint"
  BY StepMoves DEF TakeSlot, RequestStep, Goto, LoopInv, LoopTypeOK
<1>1. Candidate(r)' = Candidate(r) /\ Channel(r)' = Channel(r)
  BY <1>0 DEF Candidate, Channel
<1>2. \A c \in Channels : r \notin Elements(queue[c])
  BY <1>0 DEF SharedInv, ChannelsInv
<1>3. ChannelsInv'
  BY <1>0, <1>1, <1>2, ChannelsStay DEF SharedInv, admission, Holding, Admitted, InAttempt
<1>4. Scope(r) \in Scopes
  BY <1>0 DEF LoopInv, Knows, Trying, Admitted, Scope
<1>5. PICK t \in Scopes : t = Scope(r) /\ Count(t, 1)
  BY <1>4 DEF TakeSlot
<1>6. \A s \in Scopes : Using(s)' = IF s = t THEN Using(s) \cup {r} ELSE Using(s)
  BY <1>0, <1>1, <1>5 DEF Using, Scope, Candidate, InAttempt, Moves, Elsewhere
<1>7. r \notin Using(t)
  BY <1>0 DEF Using, InAttempt
<1>8. Using(t) \in SUBSET Requests
  BY DEF Using
<1>9. Cardinality(Using(t) \cup {r}) = Cardinality(Using(t)) + 1
  BY <1>7, <1>8, SubsetFinite, FS_AddElement
<1>10. SlotsInv'
  <2>1. active' \in [Scopes -> Int]
    BY <1>5 DEF SharedInv, SlotsInv, Count
  <2>2. ASSUME NEW s \in Scopes, s # t PROVE active'[s] = active[s] /\ Using(s)' = Using(s)
    BY <1>5, <1>6, <2>2 DEF SharedInv, SlotsInv, Count
  <2>3. active'[t] = IF Slots[t] = 0 THEN 0 ELSE Cardinality(Using(t)')
    <3>1. active'[t] = IF Slots[t] = 0 THEN active[t] ELSE active[t] + 1
      BY <1>5 DEF SharedInv, SlotsInv, Count
    <3>2. Using(t)' = Using(t) \cup {r}
      BY <1>5, <1>6
    <3> QED
      BY <1>5, <1>9, <3>1, <3>2 DEF SharedInv, SlotsInv
  <2>4. ASSUME NEW s \in Scopes PROVE active'[s] = IF Slots[s] = 0 THEN 0 ELSE Cardinality(Using(s)')
    <3>1. CASE s = t
      BY Zenon, <2>3, <3>1
    <3>2. CASE s # t
      <4>1. active[s] = IF Slots[s] = 0 THEN 0 ELSE Cardinality(Using(s))
        BY DEF SharedInv, SlotsInv
      <4> QED
        BY Zenon, <2>2, <2>4, <3>2, <4>1
    <3> QED
      BY <3>1, <3>2
  <2> QED
    BY Zenon, <2>1, <2>4 DEF SlotsInv
<1> QED
  BY <1>3, <1>10 DEF SharedInv

LEMMA Joining ==
  ASSUME LoopInv, NEW r \in Requests, AcquireAtOnce(r) \/ JoinQueue(r)
  PROVE  /\ Moves(r) /\ Channel(r) \in Channels /\ Channel(r)' = Channel(r)
         /\ pc[r] = "acquire" /\ active' = active
<1>1. Moves(r) /\ pc[r] = "acquire" /\ UNCHANGED <<round, active>>
  BY StepMoves DEF AcquireAtOnce, JoinQueue, RequestStep
<1>2. Channel(r)' = Channel(r) /\ Direct(Candidate(r)) /\ Candidate(r) \in Candidates
  BY <1>1 DEF Channel, Candidate, LoopInv, Knows, Trying
<1> QED
  BY <1>1, <1>2 DEF Direct, Channel

LEMMA AcquiredKeeps ==
  ASSUME LoopInv, SharedInv, NEW r \in Requests, AcquireAtOnce(r)
  PROVE  SharedInv'
<1>0. /\ Moves(r) /\ Channel(r) \in Channels /\ Channel(r)' = Channel(r)
      /\ pc[r] = "acquire" /\ active' = active
  BY Joining
<1>1. PICK c \in Channels : c = Channel(r) /\ Channel(r)' = c
  BY <1>0
<1>2. /\ permits' = [permits EXCEPT ![c] = @ \cup {r}] /\ queue' = queue
      /\ pc'[r] = "slot"
      /\ queue[c] = <<>> /\ (Permits[c] = 0 \/ Cardinality(permits[c]) < Permits[c])
  <2>1. Permits[c] = 0 \/ ~(Cardinality(permits[c]) >= Permits[c])
    BY <1>1 DEF AcquireAtOnce, Full
  <2>2. permits[c] \in SUBSET Requests /\ Cardinality(permits[c]) \in Nat /\ Permits[c] \in Nat
    BY SubsetFinite DEF SharedInv, ChannelsInv
  <2> QED
    BY <1>1, <2>1, <2>2 DEF AcquireAtOnce, Full, Goto, LoopInv, LoopTypeOK
<1>3. /\ permits \in [Channels -> SUBSET Requests] /\ queue \in [Channels -> Seq(Requests)]
      /\ Sound(permits[c], queue[c], Permits[c])
      /\ \A d \in Channels : r \notin permits[d] \cup Elements(queue[d])
  BY <1>0 DEF SharedInv, ChannelsInv, Holding, Admitted, InAttempt
<1>4. /\ permits' \in [Channels -> SUBSET Requests]
      /\ permits'[c] = permits[c] \cup {r} /\ \A d \in Channels \ {c} : permits'[d] = permits[d]
  <2>1. permits[c] \cup {r} \in SUBSET Requests
    BY <1>3
  <2> QED
    BY <1>2, <1>3, <2>1
<1>5. Sound(permits[c] \cup {r}, queue[c], Permits[c])
  <2>1. Permits[c] # 0 => Cardinality(permits[c] \cup {r}) <= Permits[c]
    <3>1. permits[c] \in SUBSET Requests /\ r \notin permits[c]
      BY <1>3
    <3>2. IsFiniteSet(permits[c]) /\ Cardinality(permits[c]) \in Nat /\ Permits[c] \in Nat
      BY <3>1, SubsetFinite
    <3>3. Cardinality(permits[c] \cup {r}) = Cardinality(permits[c]) + 1
      BY <3>1, <3>2, FS_AddElement
    <3> HIDE AttemptAssumption
    <3> QED
      BY <1>2, <3>2, <3>3
  <2>2. Elements(queue[c]) \cap (permits[c] \cup {r}) = {}
    BY <1>3 DEF Sound
  <2> QED
    BY <1>3, <2>1, <2>2 DEF Sound
<1>6. ASSUME NEW d \in Channels PROVE Sound(permits'[d], queue'[d], Permits[d])
  <2>1. CASE d = c
    BY <1>2, <1>4, <1>5, <2>1
  <2>2. CASE d # c
    BY <1>2, <1>4, <2>2 DEF SharedInv, ChannelsInv
  <2> QED
    BY <2>1, <2>2
<1>7. ASSUME NEW d \in Channels
      PROVE  /\ r \in permits'[d] \cup Elements(queue'[d]) <=> pc'[r] \in Holding /\ Channel(r)' = d
             /\ r \notin Elements(queue'[d])
  <2>1. pc'[r] \in Holding
    BY <1>2 DEF Holding, Admitted
  <2> QED
    BY <1>1, <1>2, <1>3, <1>4, <2>1
<1>8. ASSUME NEW d \in Channels, NEW q \in Requests \ {r}
      PROVE  q \in permits'[d] \cup Elements(queue'[d]) <=> q \in permits[d] \cup Elements(queue[d])
  BY <1>2, <1>4
<1>9. ChannelsInv'
  <2>1. queue' \in [Channels -> Seq(Requests)]
    BY <1>2, <1>3
  <2> QED
    BY <1>0, <1>2, <1>4, <1>6, <1>7, <1>8, <2>1, ChannelsSettle DEF SharedInv
<1>10. SlotsInv'
  BY <1>0, <1>2, SlotsStay DEF SharedInv, InAttempt
<1> QED
  BY <1>9, <1>10 DEF SharedInv

LEMMA JoinedKeeps ==
  ASSUME LoopInv, SharedInv, NEW r \in Requests, JoinQueue(r)
  PROVE  SharedInv'
<1>0. /\ Moves(r) /\ Channel(r) \in Channels /\ Channel(r)' = Channel(r)
      /\ pc[r] = "acquire" /\ active' = active
  BY Joining
<1>1. PICK c \in Channels : c = Channel(r) /\ Channel(r)' = c
  BY <1>0
<1> DEFINE q == Append(queue[c], r)
<1>2. queue' = [queue EXCEPT ![c] = q] /\ permits' = permits /\ pc'[r] = "queued"
  BY <1>1 DEF JoinQueue, Goto, LoopInv, LoopTypeOK
<1>3. /\ permits \in [Channels -> SUBSET Requests] /\ queue \in [Channels -> Seq(Requests)]
      /\ queue[c] \in Seq(Requests) /\ Len(queue[c]) \in Nat
      /\ Sound(permits[c], queue[c], Permits[c])
      /\ \A d \in Channels : r \notin permits[d] \cup Elements(queue[d])
  BY <1>0, LenProperties DEF SharedInv, ChannelsInv, Holding, Admitted, InAttempt
<1>4. /\ q \in Seq(Requests) /\ Len(q) = Len(queue[c]) + 1
      /\ \A i \in 1..Len(queue[c]) : q[i] = queue[c][i]
      /\ q[Len(queue[c]) + 1] = r
  BY <1>3, AppendProperties
<1> HIDE DEF q
<1>5. Unique(q)
  <2>1. \A i \in 1..Len(queue[c]) : queue[c][i] # r
    BY <1>3 DEF Elements
  <2> SUFFICES ASSUME NEW i \in 1..Len(q), NEW j \in 1..Len(q), q[i] = q[j] PROVE i = j
    BY DEF Unique
  <2>2. CASE i \in 1..Len(queue[c]) /\ j \in 1..Len(queue[c])
    BY <1>3, <1>4, <2>2 DEF Sound, Unique
  <2>3. \A k \in 1..Len(q) : k \in 1..Len(queue[c]) \/ k = Len(queue[c]) + 1
    BY <1>3, <1>4
  <2>4. \A k \in 1..Len(queue[c]) : q[k] # r
    BY <1>4, <2>1
  <2>5. q[Len(queue[c]) + 1] = r
    BY <1>4
  <2> QED
    BY Zenon, <2>2, <2>3, <2>4, <2>5
<1>6. Elements(q) = Elements(queue[c]) \cup {r}
  <2>1. ASSUME NEW x \in Elements(q) PROVE x \in Elements(queue[c]) \cup {r}
    <3>1. PICK i \in 1..Len(q) : q[i] = x
      BY <2>1 DEF Elements
    <3>2. CASE i = Len(queue[c]) + 1
      BY <1>4, <3>1, <3>2
    <3>3. CASE i # Len(queue[c]) + 1
      <4>1. i \in 1..Len(queue[c])
        BY <1>3, <1>4, <3>3
      <4> QED
        BY <1>4, <3>1, <4>1 DEF Elements
    <3> QED
      BY <3>2, <3>3
  <2>2. ASSUME NEW x \in Elements(queue[c]) PROVE x \in Elements(q)
    <3>1. PICK i \in 1..Len(queue[c]) : queue[c][i] = x
      BY <2>2 DEF Elements
    <3>2. i \in 1..Len(q) /\ q[i] = x
      BY <1>3, <1>4, <3>1
    <3> QED
      BY <3>2 DEF Elements
  <2>3. r \in Elements(q)
    <3>1. Len(queue[c]) + 1 \in 1..Len(q)
      BY <1>3, <1>4
    <3> QED
      BY <1>4, <3>1 DEF Elements
  <2> QED
    BY <2>1, <2>2, <2>3
<1>7. queue' \in [Channels -> Seq(Requests)] /\ queue'[c] = q /\ \A d \in Channels \ {c} : queue'[d] = queue[d]
  BY <1>2, <1>3, <1>4
<1>8. ASSUME NEW d \in Channels PROVE Sound(permits'[d], queue'[d], Permits[d])
  <2>1. Sound(permits[c], q, Permits[c])
    BY <1>3, <1>4, <1>5, <1>6 DEF Sound
  <2>2. CASE d = c
    BY <1>2, <1>7, <2>1, <2>2
  <2>3. CASE d # c
    BY <1>2, <1>7, <2>3 DEF SharedInv, ChannelsInv
  <2> QED
    BY <2>2, <2>3
<1>9. ASSUME NEW d \in Channels
      PROVE  r \in permits'[d] \cup Elements(queue'[d]) <=> pc'[r] \in Holding /\ Channel(r)' = d
  <2>1. pc'[r] \in Holding
    BY <1>2 DEF Holding
  <2> QED
    BY <1>1, <1>2, <1>3, <1>6, <1>7, <2>1
<1>10. ASSUME NEW d \in Channels, NEW x \in Requests \ {r}
       PROVE  /\ x \in permits'[d] \cup Elements(queue'[d]) <=> x \in permits[d] \cup Elements(queue[d])
              /\ x \in Elements(queue'[d]) => x \in Elements(queue[d])
  BY <1>2, <1>6, <1>7
<1>11. ChannelsInv'
  <2>1. permits' \in [Channels -> SUBSET Requests]
    BY <1>2, <1>3
  <2> QED
    BY <1>0, <1>2, <1>7, <1>8, <1>9, <1>10, <2>1, ChannelsSettle DEF SharedInv
<1>12. SlotsInv'
  BY <1>0, <1>2, SlotsStay DEF SharedInv, InAttempt
<1> QED
  BY <1>11, <1>12 DEF SharedInv

LEMMA StepKeeps ==
  ASSUME LoopInv, SharedInv, NEW r \in Requests, RequestStep(r) \/ StopWaiting(r) \/ Panic(r)
  PROVE  SharedInv'
<1>1. CASE Start(r) \/ Select(r) \/ PassOver(r) \/ GiveUp(r) \/ TurnedAway(r)
  BY <1>1, IdleKeeps
<1>2. CASE AcquireAtOnce(r) \/ JoinQueue(r) \/ Woken(r)
  BY <1>2, AcquiredKeeps, JoinedKeeps, WokenKeeps
<1>3. CASE StopWaiting(r) \/ Saturated(r) \/ TakeSlot(r)
  BY <1>3, RefusedKeeps, SlotTaken
<1>4. CASE Send(r) \/ NextEndpoint(r) \/ BeginStream(r)
  BY <1>4, InsideKeeps
<1>5. CASE \/ FailRetried(r) \/ FailFinally(r) \/ Succeed(r) \/ StreamEnds(r) \/ RetryUnsent(r) \/ Panic(r)
           \/ Denied(r) \/ RefuseLocally(r)
  BY <1>5, EndKeeps
<1> QED
  BY <1>1, <1>2, <1>3, <1>4, <1>5 DEF RequestStep

LEMMA SharedInvHolds == Spec => []SharedInv
<1>1. Init => SharedInv
  <2> SUFFICES ASSUME Init PROVE SharedInv
    OBVIOUS
  <2>1. \A r \in Requests : pc[r] \notin Holding /\ pc[r] \notin InAttempt
    BY DEF Init, Holding, Admitted, InAttempt
  <2>2. \A c \in Channels : permits[c] = {} /\ queue[c] = <<>>
    BY DEF Init
  <2>3. <<>> \in Seq(Requests) /\ Len(<<>>) = 0
    BY EmptySeq
  <2>4. Elements(<<>>) = {} /\ Unique(<<>>)
    BY <2>3 DEF Elements, Unique
  <2>5. Sound({}, <<>>, 0) /\ \A n \in Nat : Sound({}, <<>>, n)
    BY <2>3, <2>4, FS_EmptySet DEF Sound
  <2>6. ChannelsInv
    <3>1. permits \in [Channels -> SUBSET Requests] /\ queue \in [Channels -> Seq(Requests)]
      BY <2>3 DEF Init
    <3>2. \A c \in Channels : Sound(permits[c], queue[c], Permits[c])
      BY <2>2, <2>5
    <3>3. \A c \in Channels : permits[c] \cup Elements(queue[c]) = {}
      BY <2>2, <2>4
    <3> QED
      BY Zenon, <2>1, <3>1, <3>2, <3>3 DEF ChannelsInv
  <2>7. SlotsInv
    <3>1. \A s \in Scopes : Using(s) = {}
      BY <2>1 DEF Using
    <3>2. active = [s \in Scopes |-> 0]
      BY DEF Init
    <3>3. Cardinality({}) = 0
      BY FS_EmptySet
    <3>4. active \in [Scopes -> Int] /\ \A s \in Scopes : active[s] = 0
      BY <3>2
    <3>5. \A s \in Scopes : Cardinality(Using(s)) = 0
      BY Zenon, <3>1, <3>3
    <3> QED
      BY <3>4, <3>5 DEF SlotsInv
  <2> QED
    BY <2>6, <2>7 DEF SharedInv
<1>2. LoopInv /\ SharedInv /\ [Next]_vars => SharedInv'
  <2> SUFFICES ASSUME LoopInv, SharedInv, [Next]_vars PROVE SharedInv'
    OBVIOUS
  <2>1. ASSUME UNCHANGED <<pc, round, permits, queue, active>> PROVE SharedInv'
    <3>1. ChannelsInv'
      BY <2>1 DEF SharedInv, ChannelsInv, Sound, Unique, Elements, Channel, Candidate
    <3>2. SlotsInv'
      <4>1. ASSUME NEW s \in Scopes PROVE Using(s)' = Using(s)
        BY <2>1 DEF Using, Scope, Candidate
      <4> QED
        BY <2>1, <4>1 DEF SharedInv, SlotsInv
    <3> QED
      BY <3>1, <3>2 DEF SharedInv
  <2>2. ASSUME NEW r \in Requests, Leave(r) PROVE SharedInv'
    BY <2>1, <2>2 DEF Leave
  <2>3. CASE UNCHANGED vars
    BY <2>1, <2>3 DEF vars
  <2> QED
    BY <2>2, <2>3, StepKeeps DEF Next
<1> QED
  BY <1>1, <1>2, LoopInvHolds, PTL DEF Spec

-----------------------------------------------------------------------------
(* Theorems *)

\* Every variable of the loop is well formed, and attempts never pass the
\* retries by more than one (the bound of the loop, upstream.go 214).
THEOREM TypeCorrect == Spec => []TypeOK
<1>1. LoopInv /\ SharedInv => TypeOK
  BY DEF LoopInv, LoopTypeOK, SharedInv, ChannelsInv, SlotsInv, TypeOK, Loops, Rounds, Replies, Outcomes
<1> QED
  BY <1>1, LoopInvHolds, SharedInvHolds, PTL

\* Permits, places in queues and slots belong to the requests that are at a step
\* which needs them: whatever way a request takes out of an attempt, also by a
\* panic, it leaves nothing behind (the deferred calls of upstream.go 379-394).
THEOREM NothingLeftBehind == Spec => []SlotsExact
<1>1. LoopInv /\ SharedInv => SlotsExact
  <2> SUFFICES ASSUME LoopInv, SharedInv PROVE SlotsExact
    OBVIOUS
  <2>1. \A c \in Channels : Queued(c) = Elements(queue[c])
    BY LenProperties DEF SharedInv, ChannelsInv, Queued, Elements
  <2>2. ASSUME NEW c \in Channels, NEW r \in Requests
        PROVE  /\ r \in permits[c] \cup Queued(c) <=> pc[r] \in Admitted \cup {"queued"} /\ Channel(r) = c
               /\ r \in Queued(c) => pc[r] = "queued" /\ r \notin permits[c]
    BY <2>1 DEF SharedInv, ChannelsInv, Sound, Holding
  <2>3. \A c \in Channels : Permits[c] # 0 => Cardinality(permits[c]) <= Permits[c]
    BY DEF SharedInv, ChannelsInv, Sound
  <2> QED
    BY <2>2, <2>3 DEF SharedInv, SlotsInv, SlotsExact
<1> QED
  BY <1>1, LoopInvHolds, SharedInvHolds, PTL

\* A channel that turned a request away never has it in its queue or among its
\* holders again (rejectedDirectChannels, upstream.go 269-274).
THEOREM RejectedForGood == Spec => []RejectedStaysOut
<1>1. LoopInv /\ SharedInv => RejectedStaysOut
  <2> SUFFICES ASSUME LoopInv, SharedInv, NEW r \in Requests, NEW c \in Channels, c \in loop[r].rejected,
                      r \in permits[c] \cup Queued(c)
               PROVE  FALSE
    BY DEF RejectedStaysOut
  <2>1. r \in permits[c] \cup Elements(queue[c])
    BY LenProperties DEF SharedInv, ChannelsInv, Queued, Elements
  <2>2. pc[r] \in Holding /\ Channel(r) = c
    BY <2>1 DEF SharedInv, ChannelsInv
  <2> QED
    BY <2>2 DEF LoopInv, Knows
<1> QED
  BY <1>1, LoopInvHolds, SharedInvHolds, PTL

-----------------------------------------------------------------------------
(* A channel serves its requests in order *)

\* Nobody waits while a permit is free.
Kept(c) == queue[c] # <<>> => ~Admission(c)!Free(Permits[c], permits[c])

InOrder(c) == [Admission(c)!Next]_(Admission(c)!vars)

LEMMA SameCount == \A ch, S : Admission(ch)!Cardinality(S) = Cardinality(S)
BY DEF Admission!Cardinality, Cardinality

LEMMA KeptNext ==
  ASSUME NEW c \in Channels, Kept(c), InOrder(c)
  PROVE  Kept(c)'
<1>1. ASSUME NEW l \in {Permits[c]}, NEW h, NEW q, Admission(c)!Serve(l, h, q) PROVE Kept(c)'
  BY <1>1 DEF Admission!Serve, Admission!Free, Kept
<1>2. CASE UNCHANGED <<Permits[c], permits[c], queue[c]>>
  BY <1>2 DEF Admission!Free, Kept
<1>3. CASE Admission(c)!Forget
  BY <1>3 DEF Admission!Forget, Kept
<1>4. ASSUME Admission(c)!Next, ~Admission(c)!Forget
      PROVE  \E l \in {Permits[c]} : \E h, q : Admission(c)!Serve(l, h, q)
  BY Zenon, <1>4 DEF Admission!Next, Admission!Arrive, Admission!TurnAway, Admission!GiveBack, Admission!Abandon
<1> QED
  BY <1>1, <1>2, <1>3, <1>4 DEF InOrder, Admission!vars

LEMMA OthersInOrder ==
  ASSUME NEW c \in Channels, permits'[c] = permits[c], queue'[c] = queue[c]
  PROVE  InOrder(c)
BY DEF InOrder, Admission!vars

\* A front of the queue becomes holders, as far as the limit goes and no less.
LEMMA FrontServed ==
  ASSUME NEW c \in Channels, NEW h, NEW q, NEW n \in 0..Len(q),
         permits'[c] = h \cup {q[i] : i \in 1..n},
         queue'[c] = SubSeq(q, n + 1, Len(q)),
         n > 0 => Permits[c] = 0 \/ Cardinality(permits'[c]) <= Permits[c],
         queue'[c] # <<>> => Permits[c] # 0 /\ ~(Cardinality(permits'[c]) < Permits[c])
  PROVE  Admission(c)!Serve(Permits[c], h, q)
BY SameCount DEF Admission!Serve, Admission!Free

\* grant serves as the abstract queue does (limiter.go 153-160).
LEMMA ServeInOrder ==
  ASSUME permits \in [Channels -> SUBSET Requests], queue \in [Channels -> Seq(Requests)],
         NEW c \in Channels, NEW holders, NEW q, Sound(holders, q, Permits[c]), Serve(c, holders, q)
  PROVE  /\ Admission(c)!Serve(Permits[c], holders, q)
         /\ \A d \in Channels \ {c} : InOrder(d)
<1> DEFINE free == Permits[c] - Cardinality(holders)
           n == IF Permits[c] = 0 \/ Len(q) <= free THEN Len(q) ELSE free
           front == {q[i] : i \in 1..n}
           rest == SubSeq(q, n + 1, Len(q))
<1>1. /\ permits' = [permits EXCEPT ![c] = holders \cup front]
      /\ queue' = [queue EXCEPT ![c] = rest]
  BY DEF Serve
<1>2. /\ holders \in SUBSET Requests /\ q \in Seq(Requests) /\ Unique(q) /\ Elements(q) \cap holders = {}
      /\ Len(q) \in Nat /\ Cardinality(holders) \in Nat /\ IsFiniteSet(holders) /\ Permits[c] \in Nat
  BY SubsetFinite, LenProperties DEF Sound
<1>3. /\ n \in 0..Len(q) /\ (Permits[c] # 0 => n <= free)
      /\ n # Len(q) => Permits[c] # 0 /\ n = free
  BY <1>2 DEF Sound
<1> HIDE DEF n
<1>4. Cardinality(holders \cup front) = Cardinality(holders) + n
  <2>1. IsFiniteSet(front) /\ Cardinality(front) = n
    BY <1>2, <1>3, FrontSize
  <2>2. holders \cap front = {}
    BY <1>2, <1>3, RestOfQueue
  <2>3. Cardinality(holders \cap front) = 0
    BY <2>2, FS_EmptySet
  <2> HIDE DEF front
  <2>4. Cardinality(holders \cup front) = Cardinality(holders) + Cardinality(front) - Cardinality(holders \cap front)
    BY <1>2, <2>1, FS_Union
  <2> QED
    BY <1>2, <1>3, <2>1, <2>3, <2>4
<1>5. rest # <<>> => n # Len(q)
  <2>1. Len(rest) = Len(q) - n /\ rest \in Seq(Requests)
    BY <1>2, <1>3, Suffix
  <2> HIDE DEF rest
  <2> QED
    BY <1>2, <1>3, <2>1, EmptySeq
<1>6. permits'[c] = holders \cup front /\ queue'[c] = rest
  BY <1>1
<1>7. n > 0 => Permits[c] = 0 \/ Cardinality(permits'[c]) <= Permits[c]
  BY <1>2, <1>3, <1>4, <1>6
<1>8. queue'[c] # <<>> => Permits[c] # 0 /\ ~(Cardinality(permits'[c]) < Permits[c])
  BY <1>2, <1>3, <1>4, <1>5, <1>6
<1>9. Admission(c)!Serve(Permits[c], holders, q)
  BY <1>3, <1>6, <1>7, <1>8, FrontServed
<1>10. \A d \in Channels \ {c} : permits'[d] = permits[d] /\ queue'[d] = queue[d]
  BY <1>1
<1> QED
  BY <1>9, <1>10, OthersInOrder

\* Fewer holders are sound, and so is a queue that somebody left.
LEMMA SoundWithout ==
  ASSUME SharedInv, NEW c \in Channels, NEW r \in Requests
  PROVE  /\ permits \in [Channels -> SUBSET Requests] /\ queue \in [Channels -> Seq(Requests)]
         /\ Sound(permits[c] \ {r}, queue[c], Permits[c])
         /\ Sound(permits[c] \ {r}, Without(queue[c], r), Permits[c])
<1> DEFINE holders == permits[c] \ {r}
<1>1. /\ permits \in [Channels -> SUBSET Requests] /\ queue \in [Channels -> Seq(Requests)]
      /\ Sound(permits[c], queue[c], Permits[c])
  BY DEF SharedInv, ChannelsInv
<1>2. holders \in SUBSET permits[c] /\ permits[c] \in SUBSET Requests
  BY <1>1
<1>3. /\ Cardinality(holders) <= Cardinality(permits[c])
      /\ Cardinality(holders) \in Nat /\ Cardinality(permits[c]) \in Nat /\ Permits[c] \in Nat
  BY <1>1, <1>2, SubsetFinite, FS_Subset
<1>4. Sound(holders, queue[c], Permits[c])
  BY <1>1, <1>3 DEF Sound
<1> HIDE DEF holders
<1>5. Sound(holders, Without(queue[c], r), Permits[c])
  BY <1>4, WithoutKeeps DEF Sound
<1> QED
  BY <1>1, <1>4, <1>5 DEF holders

LEMMA GivenBackInOrder ==
  ASSUME SharedInv, NEW c \in Channels, NEW r \in permits[c], Serve(c, permits[c] \ {r}, queue[c])
  PROVE  \A d \in Channels : InOrder(d)
<1>1. r \in Requests
  BY DEF SharedInv, ChannelsInv
<1>2. /\ Admission(c)!Serve(Permits[c], permits[c] \ {r}, queue[c])
      /\ \A d \in Channels \ {c} : InOrder(d)
  BY <1>1, SoundWithout, ServeInOrder
<1>3. InOrder(c)
  BY <1>1, <1>2 DEF InOrder, Admission!Next, Admission!GiveBack
<1> QED
  BY <1>2, <1>3

\* Whatever way a request takes out of an attempt, its permit passes to the next
\* in the queue (upstream.go 279-281, 379-380).
LEMMA ReleaseInOrder ==
  ASSUME LoopInv, SharedInv, NEW r \in Requests, ReleasePermit(r),
         pc[r] \in Admitted \/ (pc[r] = "queued" /\ r \in permits[Channel(r)])
  PROVE  \A d \in Channels : InOrder(d)
<1>1. CASE Direct(Candidate(r))
  <2>1. Candidate(r) \in Candidates
    BY DEF LoopInv, Knows, Trying
  <2>2. PICK c \in Channels : c = Channel(r)
    BY <1>1, <2>1 DEF Direct, Channel
  <2>3. Serve(c, permits[c] \ {r}, queue[c])
    BY <1>1, <2>2 DEF ReleasePermit
  <2>4. r \in permits[c]
    <3>1. CASE pc[r] \in Admitted
      BY <2>2, <3>1 DEF SharedInv, ChannelsInv, Holding, Admitted, InAttempt
    <3> QED
      BY <2>2, <3>1
  <2> QED
    BY <2>3, <2>4, GivenBackInOrder
<1>2. CASE ~Direct(Candidate(r))
  BY <1>2, OthersInOrder DEF ReleasePermit, admission
<1> QED
  BY <1>1, <1>2

\* A waiter that stops gives up its place, or the permit that came meanwhile
\* (limiter.go 134-148).
LEMMA StoppedInOrder ==
  ASSUME LoopInv, SharedInv, NEW r \in Requests, StopWaiting(r)
  PROVE  \A d \in Channels : InOrder(d)
<1>1. Candidate(r) \in Candidates /\ Direct(Candidate(r)) /\ pc[r] = "queued"
  BY DEF StopWaiting, LoopInv, Knows, Trying
<1>2. PICK c \in Channels : c = Channel(r)
  BY <1>1 DEF Direct, Channel
<1> DEFINE q == queue[c]
<1>3. /\ q \in Seq(Requests) /\ DOMAIN q = 1..Len(q) /\ Elements(q) \cap permits[c] = {}
      /\ r \in permits[c] \cup Elements(q)
  BY <1>1, <1>2, LenProperties DEF SharedInv, ChannelsInv, Sound, Holding
<1>4. Serve(c, permits[c] \ {r}, Without(q, r))
  BY <1>2 DEF StopWaiting
<1>5. CASE r \in permits[c]
  <2>1. Without(q, r) = q
    BY <1>3, <1>5 DEF Without, Elements
  <2> QED
    BY <1>4, <1>5, <2>1, GivenBackInOrder
<1>6. CASE r \notin permits[c]
  <2>1. \E i \in DOMAIN q : q[i] = r
    BY <1>3, <1>6 DEF Elements
  <2>2. PICK i \in DOMAIN q : Without(q, r) = SubSeq(q, 1, i - 1) \o SubSeq(q, i + 1, Len(q))
    BY <2>1 DEF Without
  <2>3. permits[c] \ {r} = permits[c]
    BY <1>6
  <2>4. /\ Admission(c)!Serve(Permits[c], permits[c], Without(q, r))
        /\ \A d \in Channels \ {c} : InOrder(d)
    <3>1. /\ permits \in [Channels -> SUBSET Requests] /\ queue \in [Channels -> Seq(Requests)]
          /\ Sound(permits[c], Without(q, r), Permits[c])
      <4>1. /\ permits \in [Channels -> SUBSET Requests] /\ queue \in [Channels -> Seq(Requests)]
            /\ Sound(permits[c] \ {r}, Without(queue[c], r), Permits[c])
        BY Zenon, SoundWithout
      <4> QED
        BY <2>3, <4>1
    <3>2. Serve(c, permits[c], Without(q, r))
      BY <1>4, <2>3
    <3> QED
      BY <3>1, <3>2, ServeInOrder
  <2>5. InOrder(c)
    BY <2>2, <2>4 DEF InOrder, Admission!Next, Admission!Abandon
  <2> QED
    BY <2>4, <2>5
<1> QED
  BY <1>5, <1>6

\* An arrival behind the others, served at once or not (limiter.go 94-118).
LEMMA ArrivedInOrder ==
  ASSUME SharedInv, NEW c \in Channels, NEW r \in Requests, pc[r] = "acquire",
         Admission(c)!Serve(Permits[c], permits[c], Append(queue[c], r))
  PROVE  InOrder(c)
<1>1. r \notin permits[c] \cup Elements(queue[c]) /\ DOMAIN queue[c] = 1..Len(queue[c])
  <2>1. queue[c] \in Seq(Requests) /\ pc[r] \notin Holding
    BY DEF SharedInv, ChannelsInv, Holding, Admitted, InAttempt
  <2>2. r \notin permits[c] \cup Elements(queue[c])
    BY Zenon, <2>1 DEF SharedInv, ChannelsInv
  <2> QED
    BY <2>1, <2>2, LenProperties
<1>2. r \notin permits[c] /\ \A i \in DOMAIN queue[c] : queue[c][i] # r
  BY <1>1 DEF Elements
<1>3. \E l \in {Permits[c]} : Admission(c)!Arrive(r, l)
  BY <1>2 DEF Admission!Arrive
<1> QED
  BY <1>3 DEF InOrder, Admission!Next

LEMMA AcquiredInOrder ==
  ASSUME LoopInv, SharedInv, NEW r \in Requests, AcquireAtOnce(r)
  PROVE  \A d \in Channels : InOrder(d)
<1>1. PICK c \in Channels : c = Channel(r) /\ pc[r] = "acquire"
  BY Joining
<1>2. /\ permits' = [permits EXCEPT ![c] = @ \cup {r}] /\ queue' = queue
      /\ queue[c] = <<>> /\ ~(Permits[c] # 0 /\ Cardinality(permits[c]) >= Permits[c])
  BY <1>1 DEF AcquireAtOnce, Full
<1>3. /\ permits \in [Channels -> SUBSET Requests] /\ r \notin permits[c]
      /\ permits[c] \in SUBSET Requests /\ Permits[c] \in Nat
  BY <1>1 DEF SharedInv, ChannelsInv, Holding, Admitted, InAttempt
<1>4. IsFiniteSet(permits[c]) /\ Cardinality(permits[c]) \in Nat
  BY <1>3, SubsetFinite
<1>5. Permits[c] = 0 \/ Cardinality(permits[c] \cup {r}) <= Permits[c]
  <2>1. Cardinality(permits[c] \cup {r}) = Cardinality(permits[c]) + 1
    BY <1>3, <1>4, FS_AddElement
  <2> HIDE AttemptAssumption
  <2> QED
    BY <1>2, <1>3, <1>4, <2>1
<1> DEFINE q == Append(queue[c], r)
<1>6. q \in Seq(Requests) /\ Len(q) = 1 /\ q[1] = r
  BY <1>2
<1>7. SubSeq(q, 2, Len(q)) = <<>>
  <2>1. Len(SubSeq(q, 1 + 1, Len(q))) = Len(q) - 1 /\ SubSeq(q, 1 + 1, Len(q)) \in Seq(Requests)
    BY <1>6, Suffix
  <2> HIDE DEF q
  <2> QED
    BY <1>6, <2>1, EmptySeq
<1> HIDE DEF q
<1>8. {q[i] : i \in 1..1} = {r}
  BY <1>6
<1>9. permits'[c] = permits[c] \cup {r} /\ queue'[c] = <<>>
  BY <1>2, <1>3
<1>10. 1 \in 0..Len(q) /\ permits'[c] = permits[c] \cup {q[i] : i \in 1..1} /\ queue'[c] = SubSeq(q, 1 + 1, Len(q))
  BY <1>6, <1>7, <1>8, <1>9
<1>11. Permits[c] = 0 \/ Cardinality(permits'[c]) <= Permits[c]
  BY <1>5, <1>9
<1>12. Admission(c)!Serve(Permits[c], permits[c], q)
  BY <1>9, <1>10, <1>11, FrontServed
<1>13. InOrder(c)
  BY <1>1, <1>12, ArrivedInOrder DEF q
<1>14. \A d \in Channels \ {c} : InOrder(d)
  BY <1>2, OthersInOrder
<1> QED
  BY <1>13, <1>14

LEMMA JoinedInOrder ==
  ASSUME LoopInv, SharedInv, \A d \in Channels : Kept(d), NEW r \in Requests, JoinQueue(r)
  PROVE  \A d \in Channels : InOrder(d)
<1>1. PICK c \in Channels : c = Channel(r) /\ pc[r] = "acquire"
  BY Joining
<1> DEFINE q == Append(queue[c], r)
<1>2. queue' = [queue EXCEPT ![c] = q] /\ permits' = permits
  BY <1>1 DEF JoinQueue
<1>3. /\ queue \in [Channels -> Seq(Requests)] /\ queue[c] \in Seq(Requests)
      /\ permits[c] \in SUBSET Requests /\ Permits[c] \in Nat
  BY DEF SharedInv, ChannelsInv
<1>4. ~Admission(c)!Free(Permits[c], permits[c])
  <2>1. queue[c] # <<>> \/ (Permits[c] # 0 /\ Cardinality(permits[c]) >= Permits[c])
    BY <1>1 DEF JoinQueue, Full
  <2>2. CASE queue[c] # <<>>
    BY <2>2 DEF Kept
  <2>3. CASE Permits[c] # 0 /\ Cardinality(permits[c]) >= Permits[c]
    <3>1. Cardinality(permits[c]) \in Nat
      BY <1>3, SubsetFinite
    <3>2. Permits[c] # 0 /\ ~(Cardinality(permits[c]) < Permits[c])
      BY <1>3, <2>3, <3>1
    <3> QED
      BY <3>2, SameCount DEF Admission!Free
  <2> QED
    BY <2>1, <2>2, <2>3
<1>5. q \in Seq(Requests) /\ Len(q) = Len(queue[c]) + 1 /\ Len(queue[c]) \in Nat
  BY <1>3, AppendProperties, LenProperties
<1> HIDE DEF q
<1>6. SubSeq(q, 0 + 1, Len(q)) = q
  <2>1. Len(q) \in Nat /\ 0 \in 0..Len(q)
    BY <1>5
  <2> DEFINE rest == SubSeq(q, 0 + 1, Len(q))
  <2>2. /\ rest \in Seq(Requests) /\ Len(rest) = Len(q) - 0
        /\ \A i \in 1..Len(rest) : rest[i] = q[0 + i]
    BY <1>5, <2>1, Suffix
  <2> HIDE DEF rest
  <2>3. Len(rest) = Len(q) /\ \A i \in 1..Len(q) : rest[i] = q[i]
    BY <2>1, <2>2
  <2>4. rest = q
    BY <1>5, <2>2, <2>3, SeqEqual
  <2> QED
    BY <2>4 DEF rest
<1>7. permits'[c] = permits[c] \cup {q[i] : i \in 1..0} /\ queue'[c] = SubSeq(q, 0 + 1, Len(q)) /\ 0 \in 0..Len(q)
  BY <1>2, <1>3, <1>5, <1>6
<1>8. permits'[c] = permits[c]
  BY <1>2
<1>9. Admission(c)!Serve(Permits[c], permits[c], q)
  <2>1. Permits[c] # 0 /\ ~(Cardinality(permits'[c]) < Permits[c])
    BY <1>4, <1>8, SameCount DEF Admission!Free
  <2>2. PICK n \in 0..Len(q) : n = 0
    BY <1>7
  <2>3. permits'[c] = permits[c] \cup {q[i] : i \in 1..n} /\ queue'[c] = SubSeq(q, n + 1, Len(q)) /\ ~(n > 0)
    BY <1>7, <2>2
  <2> QED
    BY <2>1, <2>3, FrontServed
<1>10. InOrder(c)
  BY <1>1, <1>9, ArrivedInOrder DEF q
<1>11. \A d \in Channels \ {c} : InOrder(d)
  BY <1>2, OthersInOrder
<1> QED
  BY <1>10, <1>11

LEMMA StepInOrder ==
  ASSUME LoopInv, SharedInv, \A d \in Channels : Kept(d), [Next]_vars
  PROVE  \A d \in Channels : InOrder(d)
<1>1. CASE UNCHANGED admission
  BY <1>1, OthersInOrder DEF admission
<1>2. CASE UNCHANGED vars
  BY <1>1, <1>2 DEF vars, admission
<1>3. ASSUME NEW r \in Requests, RequestStep(r) \/ StopWaiting(r) \/ Panic(r) \/ Leave(r)
      PROVE  \A d \in Channels : InOrder(d)
  <2>1. CASE \/ Start(r) \/ Select(r) \/ PassOver(r) \/ GiveUp(r) \/ TurnedAway(r)
             \/ TakeSlot(r) \/ Send(r) \/ NextEndpoint(r) \/ BeginStream(r) \/ Leave(r)
    BY <1>1, <2>1 DEF admission, Start, Select, PassOver, GiveUp, TurnedAway, TakeSlot, Send, NextEndpoint,
       BeginStream, Leave
  <2>2. CASE AcquireAtOnce(r) \/ JoinQueue(r) \/ StopWaiting(r)
    BY <2>2, AcquiredInOrder, JoinedInOrder, StoppedInOrder
  <2>3. CASE Woken(r)
    <3>1. UNCHANGED admission \/ ReleasePermit(r)
      BY <2>3 DEF Woken, admission
    <3>2. pc[r] = "queued" /\ r \in permits[Channel(r)]
      BY <2>3 DEF Woken
    <3> QED
      BY <1>1, <3>1, <3>2, ReleaseInOrder
  <2>4. CASE Saturated(r)
    BY <2>4, ReleaseInOrder DEF Saturated, Admitted
  <2>5. CASE \/ RefuseLocally(r) \/ Denied(r) \/ RetryUnsent(r) \/ FailRetried(r) \/ FailFinally(r)
             \/ Succeed(r) \/ StreamEnds(r) \/ Panic(r)
    <3>1. EndAttempt(r) /\ pc[r] \in InAttempt
      BY <2>5 DEF FailRetried, FailFinally, Succeed, StreamEnds, RetryUnsent, Panic, Denied, RefuseLocally, InAttempt
    <3> QED
      BY <3>1, ReleaseInOrder DEF EndAttempt, Admitted
  <2> QED
    BY <1>3, <2>1, <2>2, <2>3, <2>4, <2>5 DEF RequestStep
<1> QED
  BY <1>2, <1>3 DEF Next

\* For its requests a channel is a FIFO queue of permits, whatever way they take out
\* of the queue and out of their attempts: permits go out in arrival order, within the
\* limit, and none is withheld while one is free (upstream.go 266-281, 379-380).
THEOREM AdmissionInOrder == Spec => ServedInOrder
<1> DEFINE AllKept == \A d \in Channels : Kept(d)
<1>1. Init => AllKept
  BY DEF Init, Kept
<1>2. LoopInv /\ SharedInv /\ AllKept /\ [Next]_vars => AllKept'
  BY StepInOrder, KeptNext
<1>3. LoopInv /\ SharedInv /\ AllKept /\ [Next]_vars =>
        [\A ch \in Channels : [Admission(ch)!Next]_(Admission(ch)!vars)]_vars
  BY StepInOrder DEF InOrder
<1> QED
  BY <1>1, <1>2, <1>3, LoopInvHolds, SharedInvHolds, PTL DEF Spec, ServedInOrder
=============================================================================
