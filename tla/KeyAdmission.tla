----------------------------- MODULE KeyAdmission -----------------------------
(***************************************************************************)
(* The request and token windows of a key (auth/key_admission.go): a       *)
(* sliding minute in the memory of each process and, when Redis is         *)
(* configured, a fixed minute in two counters that the processes share     *)
(* (internal/sharedcount/counter.go).  A counter that does not answer      *)
(* fails open to the local window.                                         *)
(***************************************************************************)
EXTENDS KeyRequests

CONSTANTS
  Minute  \* the length of the local window

ASSUME AdmissionAssumption == Minute \in Nat

VARIABLES
  call,     \* the locals of Allow: its clock, estimate and the dimensions a counter answered for
  local,    \* keyWindow of each process: times and tokens, in order of admission
  sharedMu, \* the request that makes the shared round trips of each process
  counter,  \* the two keys in Redis
  undone,   \* a rollback took more than the increment it compensates (history)
  joined,   \* requests whose increment each key holds in its present life (history)
  passed    \* admissions: who decided on which dimension, and when (history)

admissionVars == <<call, local, sharedMu, counter, undone, joined, passed>>

Dimensions == {"rpm", "tpm"}
NoCall == [at |-> 0, tokens |-> 0, counted |-> {}]
Absent == [val |-> 0, armed |-> FALSE]
Delta(r, d) == IF d = "rpm" THEN 1 ELSE call[r].tokens

-----------------------------------------------------------------------------
(* The local window *)

\* Pruning stops at the first entry inside the window; entries of delayed
\* requests may be out of order.
Old_Bug(w, t) == Cardinality({i \in DOMAIN w : \A j \in 1..i : w[j].at <= t - Minute})
Old(w, t) == Cardinality({i \in DOMAIN w : \A j \in 1..i : w[j].at < t - Minute})
Prune(w, t) == SubSeq(w, Old(w, t) + 1, Len(w))
TokensIn(w) == MapThenSumSet(LAMBDA i : w[i].tokens, DOMAIN w)

Window(r) == Prune(local[home[r]], call[r].at)
OverLocally(r, d) ==
  /\ key[d] # NoLimit
  /\ IF d = "rpm" THEN Len(Window(r)) >= key.rpm ELSE TokensIn(Window(r)) + call[r].tokens > key.tpm

\* reserveLocked
Reserved(r) == Append(Window(r), [at |-> call[r].at, tokens |-> call[r].tokens])

-----------------------------------------------------------------------------
(* The counters *)

\* Incr and IncrBy: the expiry is set by a second command when the first one
\* created the key.
Increment(c, n) == [val |-> c.val + n, armed |-> c.armed \/ c.val = 0]
\* An increment whose reply was lost, so that no expiry was set.
Unanswered(c, n) == [val |-> c.val + n, armed |-> c.armed]
\* rollbackScript
RolledBack(c, n) == IF c.val <= n THEN Absent ELSE [c EXCEPT !.val = @ - n]

\* withConn: clean, or repeated on another connection after the reply was lost.
Answers(d, n) == {<<Increment(counter[d], n), FALSE>>, <<Unanswered(Increment(counter[d], n), n), TRUE>>,
                  <<Unanswered(Unanswered(counter[d], n), n), TRUE>>}
\* An error for the caller, with or without the increment.
Errors(d, n) == {counter[d], Increment(counter[d], n), Unanswered(counter[d], n)}

Write(d, c) == counter' = [counter EXCEPT ![d] = c]
Joins(r, d) == joined' = [joined EXCEPT ![d] = @ \cup {r}]

-----------------------------------------------------------------------------
(* Allow *)

\* The clock is read before any lock is taken; the shared path prunes at once.
ReadClock(r, n) ==
  /\ call' = [call EXCEPT ![r] = [at |-> now, tokens |-> IF key.tpm = NoLimit THEN 0 ELSE n, counted |-> {}]]
  /\ local' = IF key.redis THEN [local EXCEPT ![home[r]] = Prune(@, now)] ELSE local
  /\ UNCHANGED <<sharedMu, counter, undone, joined, passed>>

\* Allow returns.
Return(r) == call' = [call EXCEPT ![r] = NoCall]

\* The entry of an admission.  Of a local verdict the history keeps those that
\* were reached at the time the request had read.
Record(r) ==
  LET prompt == call[r].at = now /\ call[r].counted # Dimensions IN
  /\ local' = [local EXCEPT ![home[r]] = Reserved(r)]
  /\ passed' = [passed EXCEPT ![r] =
       [done |-> TRUE, shared |-> call[r].counted, tokens |-> call[r].tokens,
        prompt |-> prompt, at |-> IF prompt THEN now ELSE 0]]

\* Without counters: one critical section.
DecideLocally(r, ok) ==
  /\ ok = (\A d \in Dimensions : ~OverLocally(r, d))
  /\ IF ok THEN Record(r)
     ELSE local' = [local EXCEPT ![home[r]] = Window(r)] /\ UNCHANGED passed
  /\ Return(r)
  /\ UNCHANGED <<sharedMu, counter, undone, joined>>

\* A shared increment, after the mutex of the key's round trips.
Count_Bug(r, d, over, lost) ==
  /\ sharedMu[home[r]] \in {r, NoRequest}
  /\ sharedMu' = [sharedMu EXCEPT ![home[r]] = r]
  /\ \E a \in Answers(d, Delta(r, d)) :
       /\ lost = a[2] /\ over = (a[1].val > key[d] + 1)
       /\ Write(d, a[1])
       /\ call' = [call EXCEPT ![r].counted = IF over THEN @ ELSE @ \cup {d}]
  /\ Joins(r, d)
  /\ UNCHANGED <<local, undone, passed>>
Count(r, d, over, lost) ==
  /\ sharedMu[home[r]] \in {r, NoRequest}
  /\ sharedMu' = [sharedMu EXCEPT ![home[r]] = r]
  /\ \E a \in Answers(d, Delta(r, d)) :
       /\ lost = a[2] /\ over = (a[1].val > key[d])
       /\ Write(d, a[1])
       /\ call' = [call EXCEPT ![r].counted = IF over THEN @ ELSE @ \cup {d}]
  /\ Joins(r, d)
  /\ UNCHANGED <<local, undone, passed>>

\* The counter fails: the local window decides, for requests at once and for
\* tokens when the admission is passed.
FailOpen(r, d) ==
  /\ sharedMu[home[r]] \in {r, NoRequest}
  /\ sharedMu' = [sharedMu EXCEPT ![home[r]] = IF d = "rpm" /\ OverLocally(r, d) THEN NoRequest ELSE r]
  /\ \E c \in Errors(d, Delta(r, d)) :
       /\ Write(d, c)
       /\ IF c = counter[d] THEN UNCHANGED joined ELSE Joins(r, d)
  /\ local' = IF d = "rpm" THEN [local EXCEPT ![home[r]] = Window(r)] ELSE local
  /\ IF d = "rpm" /\ OverLocally(r, d) THEN Return(r) ELSE UNCHANGED call
  /\ UNCHANGED <<undone, passed>>

\* The compensating decrement of a refused request: made, or not, or made again
\* by withConn after its reply was lost.
Rollbacks(c, n) == {RolledBack(c, n), c, RolledBack(RolledBack(c, n), n)}

RollBackCount_Bug(r, d, last, faulty) ==
  /\ ~faulty
  /\ sharedMu' = [sharedMu EXCEPT ![home[r]] = IF last THEN NoRequest ELSE r]
  /\ IF last THEN Return(r) ELSE UNCHANGED call
  /\ UNCHANGED <<local, counter, undone, joined, passed>>
RollBackCount(r, d, last, faulty) ==
  LET n == Delta(r, d)
      once == RolledBack(counter[d], n) IN
  /\ sharedMu' = [sharedMu EXCEPT ![home[r]] = IF last THEN NoRequest ELSE r]
  /\ \E c \in Rollbacks(counter[d], n) :
       /\ faulty = (c # once)
       /\ Write(d, c)
       /\ undone' = (undone \/ (r \notin joined[d] /\ c # counter[d]) \/ c \notin {once, counter[d]})
       /\ joined' = [joined EXCEPT ![d] = IF c = Absent THEN {} ELSE IF c = counter[d] THEN @ ELSE @ \ {r}]
  /\ IF last THEN Return(r) ELSE UNCHANGED call
  /\ UNCHANGED <<local, passed>>

\* The local verdict on tokens when no counter gave one, and the reservation.
RecordShared(r, ok) ==
  /\ ok = ("tpm" \in call[r].counted \/ ~OverLocally(r, "tpm"))
  /\ IF ok THEN Record(r)
     ELSE local' = [local EXCEPT ![home[r]] = Window(r)] /\ UNCHANGED passed
  /\ sharedMu' = [sharedMu EXCEPT ![home[r]] = NoRequest]
  /\ Return(r)
  /\ UNCHANGED <<counter, undone, joined>>

\* The minute of a counter ends, by the clock of Redis.
Expire(d) ==
  /\ counter[d].armed
  /\ Write(d, Absent)
  /\ joined' = [joined EXCEPT ![d] = {}]
  /\ UNCHANGED <<call, local, sharedMu, undone, passed>>

-----------------------------------------------------------------------------
NotPassed == [done |-> FALSE, shared |-> {}, tokens |-> 0, prompt |-> FALSE, at |-> 0]

AdmissionInit ==
  /\ call = [r \in Requests |-> NoCall]
  /\ local = [g \in Gateways |-> <<>>]
  /\ sharedMu = [g \in Gateways |-> NoRequest]
  /\ counter = [d \in Dimensions |-> Absent]
  /\ undone = FALSE /\ joined = [d \in Dimensions |-> {}]
  /\ passed = [r \in Requests |-> NotPassed]

\* The memory of a process is gone, and its local verdicts with it.
Forget(g) ==
  /\ local' = [local EXCEPT ![g] = <<>>]
  /\ sharedMu' = [sharedMu EXCEPT ![g] = NoRequest]
  /\ call' = [r \in Requests |-> IF home[r] = g THEN NoCall ELSE call[r]]
  /\ passed' = [r \in Requests |-> IF home[r] = g THEN [passed[r] EXCEPT !.prompt = FALSE, !.at = 0] ELSE passed[r]]
  /\ UNCHANGED <<counter, undone, joined>>

AdmissionTypeOK ==
  /\ call \in [Requests -> [at : 0..MaxTime[key], tokens : Nat, counted : SUBSET Dimensions]]
  /\ local \in [Gateways -> Seq([at : 0..MaxTime[key], tokens : Nat])]
  /\ sharedMu \in [Gateways -> Requests \cup {NoRequest}]
  /\ counter \in [Dimensions -> [val : Nat, armed : BOOLEAN]]
  /\ undone \in BOOLEAN /\ joined \in [Dimensions -> SUBSET Requests]
  /\ passed \in [Requests -> [done : BOOLEAN, shared : SUBSET Dimensions, tokens : Nat,
                              prompt : BOOLEAN, at : 0..MaxTime[key]]]

-----------------------------------------------------------------------------
(* Properties *)

Weight(r, d) == IF d = "rpm" THEN 1 ELSE passed[r].tokens

\* The admissions of a process in the minute before t that its own window decided.
InMinute(g, d, t) == {r \in Requests : /\ home[r] = g /\ passed[r].prompt /\ d \notin passed[r].shared
                                       /\ passed[r].at >= t - Minute /\ passed[r].at <= t}

\* No sliding minute of a process holds more requests or tokens than the limit on
\* the verdict of the local window, whatever order requests reach it in and
\* whether Redis answers, for requests that are decided at the time they read
\* ("exact under concurrency", key_admission.go 263-264).
LocalWindowHolds ==
  \A g \in Gateways, d \in Dimensions, t \in 0..now :
    key[d] # NoLimit => MapThenSumSet(LAMBDA r : Weight(r, d), InMinute(g, d, t)) <= key[d]

\* Over all processes no minute of a counter admits more requests, nor more
\* tokens, than the limit, whatever replies are lost, as long as no rollback took
\* more than its own increment: one that is repeated, or arrives after the minute
\* it compensates has ended, takes the count of an admitted request with it
\* (counter.go 437-440 and 568-572).
SharedWindowHolds ==
  ~undone => \A d \in Dimensions :
    key[d] # NoLimit =>
      MapThenSumSet(LAMBDA r : Weight(r, d), {r \in joined[d] : passed[r].done /\ d \in passed[r].shared}) <= key[d]

\* A refused request does not occupy the window: without faults a counter holds no
\* more than the requests that are still in Allow or passed it ("on deny,
\* compensating Decr so denied requests do not occupy the window",
\* key_admission.go 314).
RefusedLeaveNoTrace ==
  faults = 0 => \A d \in Dimensions :
    counter[d].val <= MapThenSumSet(LAMBDA r : IF passed[r].done THEN Weight(r, d) ELSE Delta(r, d),
                                    {r \in joined[d] : sharedMu[home[r]] = r \/ passed[r].done})
=============================================================================
