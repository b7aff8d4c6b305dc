----------------------------- MODULE AttemptLoop -----------------------------
(***************************************************************************)
(* The attempt loop of handler/proxy/upstream.go: requests select a        *)
(* candidate, wait for its channel, take a slot of its account, try its    *)
(* endpoints and fail over, while other requests compete for the same      *)
(* channels and accounts, clients leave and handlers panic.                *)
(*                                                                         *)
(* A direct candidate belongs to a channel whose permits are given in      *)
(* arrival order (FifoAdmission is that promise, ChannelLimiter the code); *)
(* other candidates belong to a site and wait for nothing.  Every          *)
(* candidate belongs to a scope, its credential or its site, with slots    *)
(* that are taken or refused at once.                                      *)
(***************************************************************************)
EXTENDS Integers, Sequences, FiniteSets

CONSTANTS
  Requests,
  Candidates,   \* what the router offers: a channel of a site, or one grant of a direct channel
  Routes,       \* the candidates of the model a request asks for
  Forcible,     \* candidates that a request may insist on
  NoCandidate,
  Channels,     \* direct channels
  NoChannel,
  Scopes,       \* sites and upstream credentials
  ChannelOf,    \* the direct channel of a candidate, or NoChannel
  ScopeOf,
  Permits,      \* concurrent requests of a channel, 0: unlimited
  Slots,        \* concurrent requests of a scope, 0: unlimited
  Endpoints,    \* protocol endpoints of a candidate, in the order they are tried
  MaxRetries

ASSUME AttemptAssumption ==
  /\ IsFiniteSet(Requests) /\ NoCandidate \notin Candidates /\ NoChannel \notin Channels
  /\ Routes \in [Requests -> SUBSET Candidates] /\ Forcible \subseteq Candidates
  /\ ChannelOf \in [Candidates -> Channels \cup {NoChannel}] /\ ScopeOf \in [Candidates -> Scopes]
  /\ Permits \in [Channels -> Nat] /\ Slots \in [Scopes -> Nat]
  /\ Endpoints \in [Candidates -> Nat \ {0}] /\ MaxRetries \in Nat

VARIABLES
  pc,       \* the next step of a request
  loop,     \* its variables in dispatchUpstream
  round,    \* what it knows of the candidate it is at
  reply,    \* what its client has been sent
  health,   \* what its last attempt stored: an outcome, and whether the upstream had failed
  left,     \* clients that have gone before their request ended
  permits,  \* per channel: requests holding, or just given, a permit
  queue,    \* per channel: requests blocked in Acquire
  active    \* per scope: slots taken

admission == <<permits, queue>>
vars == <<pc, loop, round, reply, health, left, permits, queue, active>>

Direct(c) == ChannelOf[c] # NoChannel
Candidate(r) == round[r].cand
Channel(r) == ChannelOf[Candidate(r)]
Scope(r) == ScopeOf[Candidate(r)]
Last(r) == round[r].endpoint = Endpoints[Candidate(r)]
RetriesLeft(r) == loop[r].attempt < MaxRetries

\* forced: the only candidate the request may use; again: the router offered a
\* candidate that it was asked to exclude.
Fresh == [forced |-> NoCandidate, excluded |-> {}, rejected |-> {}, attempt |-> 0]
NoRound == [cand |-> NoCandidate, again |-> FALSE, endpoint |-> 1]
Unmarked == [fault |-> FALSE, outcome |-> "none"]

Init ==
  /\ pc = [r \in Requests |-> "start"]
  /\ loop \in [Requests -> {[Fresh EXCEPT !.forced = c] : c \in Forcible \cup {NoCandidate}}]
  /\ round = [r \in Requests |-> NoRound]
  /\ reply = [r \in Requests |-> "none"]
  /\ health = [r \in Requests |-> Unmarked]
  /\ left = {}
  /\ permits = [c \in Channels |-> {}]
  /\ queue = [c \in Channels |-> <<>>]
  /\ active = [s \in Scopes |-> 0]

Goto(r, l) == pc' = [pc EXCEPT ![r] = l]

\* The request is over and its variables go with its stack.
Done(r) == /\ Goto(r, "done") /\ left' = left \ {r}
           /\ loop' = [loop EXCEPT ![r] = Fresh] /\ round' = [round EXCEPT ![r] = NoRound]
Reply(r, what) == Done(r) /\ reply' = [reply EXCEPT ![r] = what]

\* The request selects again.
Again(r, l) == /\ Goto(r, "select") /\ loop' = [loop EXCEPT ![r] = l] /\ round' = [round EXCEPT ![r] = NoRound]
               /\ UNCHANGED <<reply, left>>

\* A direct candidate is passed over at no cost.  A router that repeats it although
\* it was asked to exclude it is stopped: nothing else would bound the rounds.
Skip_Bug(r, again, l) == Again(r, l)
Skip(r, again, l) == IF again THEN Reply(r, "error") ELSE Again(r, l)

-----------------------------------------------------------------------------
(* Permits and slots *)

\* The front of the queue takes what is free beside the holders.
Serve(c, holders, waiting) ==
  LET free == Permits[c] - Cardinality(holders)
      n == IF Permits[c] = 0 \/ Len(waiting) <= free THEN Len(waiting) ELSE free
  IN /\ permits' = [permits EXCEPT ![c] = holders \cup {waiting[i] : i \in 1..n}]
     /\ queue' = [queue EXCEPT ![c] = SubSeq(waiting, n + 1, Len(waiting))]

ReleasePermit(r) == IF Direct(Candidate(r)) THEN Serve(Channel(r), permits[Channel(r)] \ {r}, queue[Channel(r)])
                                            ELSE UNCHANGED admission

\* Nothing is counted for a scope without a limit.
Available(s) == Slots[s] = 0 \/ active[s] < Slots[s]
Count(s, n) == active' = IF Slots[s] = 0 THEN active ELSE [active EXCEPT ![s] = @ + n]

\* The deferred calls of an attempt, on every way out of it.
EndAttempt(r) == ReleasePermit(r) /\ Count(Scope(r), -1)

-----------------------------------------------------------------------------
(* Selection *)

\* Some requests cannot be dispatched at all.
Start(r) == /\ pc[r] = "start"
            /\ Reply(r, "error") \/ (Goto(r, "select") /\ UNCHANGED <<loop, round, reply, left>>)
            /\ UNCHANGED <<health, permits, queue, active>>

\* A forced candidate is offered once; otherwise the router may offer any, even
\* one that it was asked to exclude.
Offered(r) == IF loop[r].forced = NoCandidate THEN Routes[r]
              ELSE IF loop[r].excluded = {} THEN {loop[r].forced} \cap Routes[r] ELSE {}

\* Only the candidate itself is remembered, not its channel.
Barred_Bug(r, c) == c \in loop[r].excluded /\ Direct(c) /\ ChannelOf[c] \in loop[r].rejected

\* A channel that turned the request away is not asked again through another grant.
Barred(r, c) == Direct(c) /\ ChannelOf[c] \in loop[r].rejected

Select(r) ==
  /\ pc[r] = "select" /\ loop[r].attempt <= MaxRetries
  /\ \E c \in Offered(r) :
       /\ Goto(r, IF Barred(r, c) THEN "barred" ELSE IF Direct(c) THEN "acquire" ELSE "slot")
       /\ loop' = [loop EXCEPT ![r].excluded = @ \cup {c}]
       /\ round' = [round EXCEPT ![r] = [cand |-> c, again |-> c \in loop[r].excluded, endpoint |-> 1]]
  /\ health' = [health EXCEPT ![r] = Unmarked]
  /\ UNCHANGED <<reply, left, permits, queue, active>>

PassOver(r) == /\ pc[r] = "barred"
               /\ Skip(r, round[r].again, loop[r])
               /\ UNCHANGED <<health, permits, queue, active>>

\* Nothing can be selected, or no attempt is left.
GiveUp(r) == /\ pc[r] = "select"
             /\ Reply(r, "error")
             /\ UNCHANGED <<health, permits, queue, active>>

\* The channel turned the request away: the next candidate, unless the client has
\* gone.
Reject(r) == Skip(r, r \in left \/ round[r].again, [loop[r] EXCEPT !.rejected = @ \cup {Channel(r)}])

-----------------------------------------------------------------------------
(* The channel's permit *)

\* Acquire: at once, behind the others, or not at all when the queue is full.
Full(r) == queue[Channel(r)] # <<>> \/ (Permits[Channel(r)] # 0 /\ Cardinality(permits[Channel(r)]) >= Permits[Channel(r)])

AcquireAtOnce(r) ==
  /\ pc[r] = "acquire" /\ r \notin left /\ ~Full(r)
  /\ permits' = [permits EXCEPT ![Channel(r)] = @ \cup {r}]
  /\ Goto(r, "slot")
  /\ UNCHANGED <<loop, round, reply, health, left, queue, active>>

JoinQueue(r) ==
  /\ pc[r] = "acquire" /\ r \notin left /\ Full(r)
  /\ queue' = [queue EXCEPT ![Channel(r)] = Append(@, r)]
  /\ Goto(r, "queued")
  /\ UNCHANGED <<loop, round, reply, health, left, permits, active>>

\* The queue is full, the client has gone, or the limits of the channel, which are
\* validated before anything else, are none.
TurnedAway(r) ==
  /\ pc[r] = "acquire"
  /\ Reject(r)
  /\ UNCHANGED <<health, permits, queue, active>>

\* The permit came.  A client that has gone gives it back; otherwise the request
\* is authorised again and its candidate looked up again, which may fail.
Woken(r) ==
  /\ pc[r] = "queued" /\ r \in permits[Channel(r)]
  /\ \/ r \notin left /\ Goto(r, "slot") /\ UNCHANGED <<loop, round, reply, left, permits, queue>>
     \/ Reply(r, "error") /\ ReleasePermit(r)
  /\ UNCHANGED <<health, active>>

\* waiters.Remove: a caller that was given its permit is no longer in the queue.
Without(q, r) ==
  IF \A i \in DOMAIN q : q[i] # r THEN q
  ELSE LET i == CHOOSE j \in DOMAIN q : q[j] = r
       IN SubSeq(q, 1, i - 1) \o SubSeq(q, i + 1, Len(q))

\* The timer fired or the client left, perhaps after the permit came.
StopWaiting(r) ==
  /\ pc[r] = "queued"
  /\ Serve(Channel(r), permits[Channel(r)] \ {r}, Without(queue[Channel(r)], r))
  /\ Reject(r)
  /\ UNCHANGED <<health, active>>

-----------------------------------------------------------------------------
(* The slot of the account or site *)

TakeSlot(r) ==
  /\ pc[r] = "slot" /\ Available(Scope(r))
  /\ Count(Scope(r), 1)
  /\ Goto(r, "endpoint")
  /\ UNCHANGED <<loop, round, reply, health, left, permits, queue>>

\* The permit of the channel is kept when its credential is saturated.
Saturated_Bug(r) ==
  /\ pc[r] = "slot" /\ ~Available(Scope(r))
  /\ IF ~Direct(Candidate(r)) THEN Again(r, [loop[r] EXCEPT !.attempt = @ + 1])
     ELSE Skip(r, round[r].again, loop[r])
  /\ UNCHANGED <<health, permits, queue, active>>

\* A saturated site costs an attempt, a saturated credential only the candidate.
Saturated(r) ==
  /\ pc[r] = "slot" /\ ~Available(Scope(r))
  /\ ReleasePermit(r)
  /\ IF ~Direct(Candidate(r)) THEN Again(r, [loop[r] EXCEPT !.attempt = @ + 1])
     ELSE Skip(r, round[r].again, loop[r])
  /\ UNCHANGED <<health, active>>

-----------------------------------------------------------------------------
(* The endpoints of a candidate *)

\* The request cannot be built, converted or authorised for the candidate.
RefuseLocally(r) ==
  /\ pc[r] = "endpoint"
  /\ EndAttempt(r)
  /\ Reply(r, "error")
  /\ UNCHANGED health

\* Each endpoint is a request of its own for the channel's rate.
Denied(r) ==
  /\ pc[r] = "endpoint" /\ Direct(Candidate(r))
  /\ EndAttempt(r)
  /\ Reject(r)
  /\ UNCHANGED health

Send(r) ==
  /\ pc[r] = "endpoint"
  /\ Goto(r, "sent")
  /\ UNCHANGED <<loop, round, reply, health, left, permits, queue, active>>

\* A miss of the protocol, before or after it was sent, passes to the next
\* endpoint and is nobody's failure.
NextEndpoint(r) ==
  /\ pc[r] \in {"endpoint", "sent"} /\ ~Last(r)
  /\ round' = [round EXCEPT ![r].endpoint = @ + 1]
  /\ Goto(r, "endpoint")
  /\ UNCHANGED <<loop, reply, health, left, permits, queue, active>>

-----------------------------------------------------------------------------
(* Outcomes *)

\* Outcomes are stored although the client has left.
Stored_Bug(r, what) == TRUE

\* Outcomes are stored under the context of the request: nothing is, once its
\* client has left, but for the success that a site keeps in memory.
Stored(r, what) == r \notin left \/ (what = "success" /\ ~Direct(Candidate(r)))

\* A failure of the upstream is recorded as one; so is the end of a call whose
\* client has left, which breaks like any other.
Record(r, fault, what) ==
  /\ fault => what = "failure"
  /\ what = "failure" => fault \/ r \in left
  /\ health' = IF Stored(r, what) THEN [health EXCEPT ![r] = [fault |-> fault, outcome |-> what]] ELSE health

\* The round ends and the next one may select again; a direct channel that was
\* preferred for its affinity is not asked again.
NextRound(r) ==
  \E bar \in {{}, {Channel(r)} \ {NoChannel}} :
    Again(r, [loop[r] EXCEPT !.attempt = @ + 1, !.rejected = @ \cup bar])

\* A request that could not be constructed is retried like a failed one.
RetryUnsent(r) ==
  /\ pc[r] = "endpoint" /\ RetriesLeft(r)
  /\ EndAttempt(r)
  /\ NextRound(r)
  /\ UNCHANGED health

FailRetried(r) ==
  /\ pc[r] = "sent" /\ RetriesLeft(r)
  /\ \E fault \in BOOLEAN : Record(r, fault, "failure")
  /\ EndAttempt(r)
  /\ NextRound(r)

\* Not retried: no retries are left, or the answer is none that another channel
\* would change.  A fault of the request itself is not held against the channel.
FailFinally(r) ==
  /\ pc[r] = "sent"
  /\ \E fault \in BOOLEAN, what \in {"none", "failure"} : Record(r, fault, what)
  /\ EndAttempt(r)
  /\ Reply(r, "error")

Succeed(r) ==
  /\ pc[r] = "sent"
  /\ Record(r, FALSE, "success")
  /\ EndAttempt(r)
  /\ Reply(r, "answer")

\* The first bytes of a stream go to the client.
BeginStream(r) ==
  /\ pc[r] = "sent"
  /\ Goto(r, "streaming")
  /\ reply' = [reply EXCEPT ![r] = "stream"]
  /\ UNCHANGED <<loop, round, health, left, permits, queue, active>>

\* A broken stream is retried like any other failure.
StreamEnds_Bug(r) ==
  /\ pc[r] = "streaming"
  /\ \E fault \in BOOLEAN :
       /\ Record(r, fault, IF fault THEN "failure" ELSE "success")
       /\ IF fault /\ RetriesLeft(r) THEN NextRound(r) ELSE Done(r) /\ UNCHANGED reply
  /\ EndAttempt(r)

\* A stream that ends with an error is a failure and nothing is retried; one that
\* only lost its client is a success.
StreamEnds(r) ==
  /\ pc[r] = "streaming"
  /\ \E fault \in BOOLEAN : Record(r, fault, IF fault THEN "failure" ELSE "success")
  /\ EndAttempt(r)
  /\ Done(r)
  /\ UNCHANGED reply

\* A panic of the handler runs the deferred calls.
Panic(r) ==
  /\ pc[r] \in {"endpoint", "sent", "streaming"}
  /\ EndAttempt(r)
  /\ Done(r)
  /\ UNCHANGED <<reply, health>>

Leave(r) ==
  /\ pc[r] # "done" /\ left' = left \cup {r}
  /\ UNCHANGED <<pc, loop, round, reply, health, permits, queue, active>>

RequestStep(r) ==
  \/ Start(r) \/ Select(r) \/ PassOver(r) \/ GiveUp(r)
  \/ AcquireAtOnce(r) \/ JoinQueue(r) \/ TurnedAway(r) \/ Woken(r)
  \/ TakeSlot(r) \/ Saturated(r)
  \/ RefuseLocally(r) \/ Denied(r) \/ Send(r) \/ NextEndpoint(r) \/ RetryUnsent(r)
  \/ FailRetried(r) \/ FailFinally(r) \/ Succeed(r) \/ BeginStream(r) \/ StreamEnds(r)

Next == \E r \in Requests : RequestStep(r) \/ StopWaiting(r) \/ Panic(r) \/ Leave(r)

Spec == Init /\ [][Next]_vars

\* Handlers run, and every upstream answers or times out.  No timer of a queue
\* has to fire.
FairSpec == Spec /\ \A r \in Requests : WF_vars(RequestStep(r))

-----------------------------------------------------------------------------
(* Properties *)

Steps == {"start", "select", "barred", "acquire", "queued", "slot", "endpoint", "sent", "streaming", "done"}
InAttempt == {"endpoint", "sent", "streaming"}
Admitted == {"slot"} \cup InAttempt

\* Every variable of the loop is well formed; attempts never pass the retries by
\* more than one.
TypeOK ==
  /\ pc \in [Requests -> Steps]
  /\ loop \in [Requests -> [forced : Forcible \cup {NoCandidate}, excluded : SUBSET Candidates,
                            rejected : SUBSET Channels, attempt : 0..(MaxRetries + 1)]]
  /\ round \in [Requests -> [cand : Candidates \cup {NoCandidate}, again : BOOLEAN, endpoint : Nat \ {0}]]
  /\ reply \in [Requests -> {"none", "error", "answer", "stream"}]
  /\ health \in [Requests -> [fault : BOOLEAN, outcome : {"none", "failure", "success"}]]
  /\ left \subseteq Requests
  /\ permits \in [Channels -> SUBSET Requests] /\ queue \in [Channels -> Seq(Requests)]
  /\ active \in [Scopes -> Int]

Using(s) == {r \in Requests : pc[r] \in InAttempt /\ Scope(r) = s}
Queued(c) == {queue[c][i] : i \in DOMAIN queue[c]}

\* Permits and slots belong to the requests inside an attempt, and a request in a
\* queue holds nothing ("a queued channel must not starve unrelated channels
\* sharing an account", upstream.go 276-277; "always release, including on the
\* panic path", 379-380): whatever way a request takes out of the loop, it leaves
\* nothing behind.
SlotsExact ==
  /\ \A s \in Scopes : active[s] = IF Slots[s] = 0 THEN 0 ELSE Cardinality(Using(s))
  /\ \A c \in Channels, r \in Requests :
       /\ r \in permits[c] \cup Queued(c) <=> pc[r] \in Admitted \cup {"queued"} /\ Channel(r) = c
       /\ r \in Queued(c) => pc[r] = "queued" /\ r \notin permits[c]
  /\ \A c \in Channels : Permits[c] # 0 => Cardinality(permits[c]) <= Permits[c]

\* Once a client was answered, or has the first bytes of a stream, nothing more is
\* sent for its request and no second answer is written ("no retry once streaming
\* has begun", upstream.go 1204-1205).
NothingAfterOutput ==
  [][\A r \in Requests : reply[r] # "none" => reply'[r] = reply[r] /\ (pc'[r] \in {"streaming", "done"})]_vars

\* A channel promises to its requests, which leave its queue and its permits on every
\* way out of an attempt, what the limiter implements: permits in order of arrival,
\* within the limit, and none withheld while one is free (upstream.go 266-281).
Admission(ch) == INSTANCE FifoAdmission WITH
  Callers <- Requests, Limits <- {Permits[ch]},
  limit <- Permits[ch], holders <- permits[ch], queue <- queue[ch]
ServedInOrder == [][\A ch \in Channels : [Admission(ch)!Next]_(Admission(ch)!vars)]_vars

\* An attempt is held against its channel only if the upstream failed, never
\* because a client left or an endpoint was of the wrong protocol, and is never
\* both a failure and a success ("a client cancel does not penalize a healthy
\* channel", docs/architecture.md 323-324).
OutcomesHonest ==
  \A r \in Requests : /\ health[r].outcome = "failure" <=> health[r].fault
                      /\ health[r].outcome # "none" => pc[r] \in {"select", "done"}

\* A channel that turned a request away never queues or serves it again through
\* another grant ("a saturated direct credential only skips candidates, so its
\* grants must not consume real retries", upstream.go 202-204).
RejectedStaysOut == \A r \in Requests, c \in Channels : c \in loop[r].rejected => r \notin permits[c] \cup Queued(c)

\* Every request is answered although the router may repeat candidates it was
\* asked to exclude ("a repeated channel needs an explicit stop instead of an
\* arbitrary skip cap", upstream.go 263-265).
EveryRequestEnds == \A r \in Requests : <>(pc[r] = "done")
=============================================================================
