------------------------ MODULE ChannelLimiter_proofs ------------------------
(***************************************************************************)
(* Proofs about ChannelLimiter for any number of callers and channels and  *)
(* any policies.                                                           *)
(***************************************************************************)
EXTENDS ChannelLimiter, DataLemmas

-----------------------------------------------------------------------------
(* The helpers on entries *)

\* Taking a waiter out of the queue leaves a queue of the others (limiter.go 140).
LEMMA WithoutType ==
  ASSUME NEW q \in Seq(Callers), NEW c
  PROVE  /\ Without(q, c) \in Seq(Callers)
         /\ Unique(q) => Unique(Without(q, c)) /\ Elements(Without(q, c)) = Elements(q) \ {c}
<1>0. DOMAIN q = 1..Len(q) /\ Len(q) \in Nat
  BY LenProperties
<1>1. CASE \A i \in DOMAIN q : q[i] # c
  BY <1>0, <1>1 DEF Without, Elements
<1>2. CASE \E i \in DOMAIN q : q[i] = c
  <2> DEFINE i == CHOOSE j \in DOMAIN q : q[j] = c
             w == SubSeq(q, 1, i - 1) \o SubSeq(q, i + 1, Len(q))
  <2>1. i \in 1..Len(q) /\ q[i] = c
    BY <1>0, <1>2
  <2> \A j \in 1..Len(q) : q[j] \in Callers
    BY ElementOfSeq
  <2>2. Without(q, c) = w
    BY <1>2 DEF Without
  <2> HIDE DEF i
  <2>3. SubSeq(q, 1, i - 1) \in Seq(Callers)
    BY <1>0, <2>1, SubSeqProperties
  <2>4. SubSeq(q, i + 1, Len(q)) \in Seq(Callers)
    BY <1>0, <2>1, SubSeqProperties
  <2>5. w \in Seq(Callers)
    BY <2>3, <2>4, ConcatProperties
  <2>6. Unique(q) => Unique(w) /\ Elements(w) = Elements(q) \ {c}
    BY <2>1, RemoveOne
  <2> QED
    BY <2>2, <2>5, <2>6
<1> QED
  BY <1>1, <1>2

\* The loop of grant takes a front of the queue and stops only when the queue is
\* empty or the channel has no free slot (limiter.go 153-160).
LEMMA GrantServes ==
  ASSUME NEW s \in Entry
  PROVE  /\ Grants(s) \in 0..Len(s.waiters)
         /\ Grant(s) \in Entry
         /\ Granted(s) \subseteq Callers
         /\ Grant(s).waiters # <<>> => ~HasCapacity(Grant(s))
<1>0. /\ s.waiters \in Seq(Callers) /\ Len(s.waiters) \in Nat
      /\ s.active \in Int /\ s.config \in Config /\ s.config.MaxConcurrent \in Nat
  BY LenProperties DEF Entry, Config
<1>1. Grants(s) \in 0..Len(s.waiters)
  BY <1>0 DEF Grants
<1>2. \A i \in 1..Len(s.waiters) : s.waiters[i] \in Callers
  BY <1>0, ElementOfSeq
<1> DEFINE rest == SubSeq(s.waiters, Grants(s) + 1, Len(s.waiters))
<1>3. /\ rest \in Seq(Callers)
      /\ Len(rest) = Len(s.waiters) - Grants(s)
  BY <1>0, <1>1, <1>2, SubSeqProperties
<1>4. Grant(s) = [s EXCEPT !.active = s.active + Grants(s), !.waiters = rest]
  BY DEF Grant
<1>5. /\ Grant(s) \in Entry
      /\ Grant(s).config = s.config
      /\ Grant(s).active = s.active + Grants(s)
      /\ Grant(s).waiters = rest
  <2>1. s.active + Grants(s) \in Int
    BY <1>0, <1>1
  <2> HIDE DEF rest
  <2> QED
    BY <1>3, <1>4, <2>1 DEF Entry
<1>6. Granted(s) \subseteq Callers
  BY <1>0, <1>1, <1>2 DEF Granted
<1>7. ASSUME rest # <<>> PROVE ~HasCapacity(Grant(s))
  <2>1. Grants(s) < Len(s.waiters)
    BY <1>0, <1>1, <1>3, <1>7, EmptySeq
  <2> QED
    BY <1>0, <1>5, <2>1 DEF Grants, HasCapacity
<1> QED
  BY <1>1, <1>5, <1>6, <1>7

\* What an entry must satisfy outside the mutex.
ServedEntry(s) == s \in Entry /\ (s.waiters # <<>> => ~HasCapacity(s))

\* The entry that get creates needs no service (limiter.go 80-83).
LEMMA ZeroServed == CountersAssumption => ServedEntry(ZeroState)
BY EmptySeq DEF CountersAssumption, ServedEntry, ZeroState, Entry, Config, NoConfig

Inv == TypeOK /\ \A ch \in Channels : ServedEntry(states[ch])

\* get followed by an update of one entry (limiter.go 67-85).
LEMMA PutServed ==
  ASSUME Inv, NEW ch \in Channels, NEW s, ServedEntry(s), Put(ch, s)
  PROVE  /\ states' \in [Channels -> Entry]
         /\ \A k \in Channels : ServedEntry(states'[k])
         /\ keys' \subseteq Channels /\ sweptMinute' \in Nat
<1>1. \A k \in Channels : ServedEntry(Live(k))
  BY ZeroServed, CountersAssumption DEF Live, Inv
<1>2. \A k \in Channels : states'[k] = IF k = ch THEN s ELSE Live(k)
  BY DEF Put
<1>3. \A k \in Channels : ServedEntry(states'[k])
  BY <1>1, <1>2
<1>4. states' = [k \in Channels |-> states'[k]]
  BY <1>2 DEF Put
<1>5. states' \in [Channels -> Entry]
  BY <1>3, <1>4 DEF ServedEntry
<1> QED
  BY <1>3, <1>5 DEF Put, Dead, Inv, TypeOK

\* A critical section that hands an entry over serves its queue (limiter.go 142, 171).
LEMMA HandOverServed ==
  ASSUME Inv, NEW c \in Callers, NEW s \in Entry, HandOver(c, s)
  PROVE  /\ states' \in [Channels -> Entry]
         /\ \A k \in Channels : ServedEntry(states'[k])
         /\ ready' \subseteq Callers
<1>1. ServedEntry(Grant(s)) /\ Granted(s) \subseteq Callers
  BY GrantServes DEF ServedEntry
<1>2. chan[c] \in Channels /\ states \in [Channels -> Entry]
  BY DEF Inv, TypeOK
<1>3. states' = [states EXCEPT ![chan[c]] = Grant(s)]
  BY DEF HandOver
<1> QED
  BY <1>1, <1>2, <1>3 DEF HandOver, Inv, TypeOK, ServedEntry

\* Overwriting one field keeps an entry an entry.
LEMMA EntryUpdate ==
  ASSUME NEW s \in Entry, NEW n \in Int, NEW q \in Seq(Callers), NEW cf \in Config,
         NEW r \in Nat, NEW k \in 0..MaxInt64, NEW u \in Nat
  PROVE  /\ [s EXCEPT !.active = n] \in Entry /\ [s EXCEPT !.waiters = q] \in Entry
         /\ [s EXCEPT !.config = cf] \in Entry /\ [s EXCEPT !.requests = r] \in Entry
         /\ [s EXCEPT !.tokens = k] \in Entry /\ [s EXCEPT !.unknown = u] \in Entry
BY DEF Entry

\* The end of a call keeps the shape of the caller's own variables.
LEMMA FinishType ==
  ASSUME Inv, NEW c \in Callers, Finish(c)
  PROVE  /\ pc' \in [Callers -> {"idle", "waiting", "leaving", "holding"}]
         /\ cfg' \in [Callers -> Config] /\ done' \subseteq Callers
BY DEF Inv, TypeOK, Finish, NoConfig, Config

\* The locked first part of Acquire: the policy is set and the queue served
\* (limiter.go 104-106).
LEMMA ServedType ==
  ASSUME Inv, NEW ch \in Channels, NEW cf \in Configs
  PROVE  /\ Live(ch) \in Entry
         /\ ServedEntry(Served(ch, cf))
         /\ Granted(Configured(ch, cf)) \subseteq Callers
<1>1. Live(ch) \in Entry
  BY ZeroServed, CountersAssumption DEF Inv, Live, ServedEntry
<1>2. Configured(ch, cf) \in Entry
  BY <1>1, ConfigsAssumption DEF Configured, Entry
<1> QED
  BY <1>1, <1>2, GrantServes DEF Served, ServedEntry

-----------------------------------------------------------------------------
(* The steps *)

\* Each outcome of Acquire (limiter.go 94-118).
LEMMA AcquireStep ==
  ASSUME Inv, NEW c \in Callers, NEW ch \in Channels, NEW cf \in Configs, Acquire(c, ch, cf)
  PROVE  Inv'
<1> DEFINE s == Served(ch, cf)
<1>1. s \in Entry /\ (s.waiters # <<>> => ~HasCapacity(s)) /\ ready' \subseteq Callers
  BY ServedType DEF ServedEntry, Acquire, AcquireFast, AcquireQueueFull, AcquireEnqueue,
     BeginAcquire, Inv, TypeOK
<1>2. s.active \in Int /\ s.waiters \in Seq(Callers)
  BY <1>1 DEF Entry
<1>3. /\ chan' \in [Callers -> Channels] /\ cfg' \in [Callers -> Config]
      /\ clock' \in Nat /\ done' \subseteq Callers /\ sent' \in [Channels -> Nat]
      /\ pc' \in [Callers -> {"idle", "waiting", "leaving", "holding"}]
  <2>1. CASE BeginAcquire(c, ch, cf) /\ \E l \in {"holding", "waiting"} : pc' = [pc EXCEPT ![c] = l]
    BY <2>1, ConfigsAssumption DEF BeginAcquire, Inv, TypeOK
  <2>2. CASE UNCHANGED <<clock, pc, chan, cfg, done, sent>>
    BY <2>2 DEF Inv, TypeOK
  <2> QED
    BY <2>1, <2>2 DEF Acquire, AcquireFast, AcquireQueueFull, AcquireEnqueue
<1>4. PICK n : ServedEntry(n) /\ Put(ch, n)
  <2>1. CASE AcquireFast(c, ch, cf)
    <3> DEFINE n == [s EXCEPT !.active = s.active + 1]
    <3>1. n \in Entry /\ n.waiters = s.waiters
      BY <1>1, <1>2, EntryUpdate DEF Entry
    <3> QED
      BY <2>1, <3>1 DEF AcquireFast, Admissible, ServedEntry
  <2>2. CASE AcquireQueueFull(c, ch, cf)
    BY <2>2, <1>1 DEF AcquireQueueFull, ServedEntry
  <2>3. CASE AcquireEnqueue(c, ch, cf)
    <3> DEFINE n == [s EXCEPT !.waiters = Append(s.waiters, c)]
    <3>1. Append(s.waiters, c) \in Seq(Callers)
      BY <1>2, AppendProperties
    <3>2. n \in Entry /\ n.config = s.config /\ n.active = s.active
      BY <1>1, <3>1, EntryUpdate DEF Entry
    <3>3. ~HasCapacity(s)
      BY <1>1, <2>3 DEF AcquireEnqueue, Admissible
    <3> QED
      BY <2>3, <3>2, <3>3 DEF AcquireEnqueue, ServedEntry, HasCapacity
  <2> QED
    BY <2>1, <2>2, <2>3 DEF Acquire
<1> QED
  BY <1>1, <1>3, <1>4, PutServed DEF Inv, TypeOK

\* Permit.Release, at the end of an attempt or of a call that was cancelled after
\* its grant (limiter.go 162-174).
LEMMA ReleaseStep ==
  ASSUME Inv, NEW c \in Callers, Release(c)
  PROVE  Inv'
<1> DEFINE s == [states[chan[c]] EXCEPT !.active = states[chan[c]].active - 1]
<1>1. s \in Entry
  <2>1. states[chan[c]] \in Entry
    BY DEF Inv, TypeOK
  <2>2. states[chan[c]].active - 1 \in Int
    BY <2>1 DEF Entry
  <2> QED
    BY <2>1, <2>2 DEF Entry
<1>2. CASE chan[c] \in keys
  <2>1. HandOver(c, s)
    BY <1>2 DEF Release
  <2> QED
    BY <1>1, <2>1, HandOverServed, FinishType DEF Release, Inv, TypeOK
<1>3. CASE chan[c] \notin keys
  BY <1>3, FinishType DEF Release, Inv, TypeOK
<1> QED
  BY <1>2, <1>3

\* The locked section of a caller that stopped waiting (limiter.go 134-148).
LEMMA LeaveStep ==
  ASSUME Inv, NEW c \in Callers, LeaveQueue(c)
  PROVE  Inv'
<1> DEFINE s == states[chan[c]]
           n == IF c \in ready THEN [s EXCEPT !.active = s.active - 1]
                ELSE [s EXCEPT !.waiters = Without(s.waiters, c)]
<1>1. s \in Entry /\ s.active \in Int /\ s.waiters \in Seq(Callers)
  BY DEF Inv, TypeOK, Entry
<1>2. n \in Entry
  <2>1. s.active - 1 \in Int /\ Without(s.waiters, c) \in Seq(Callers)
    BY <1>1, WithoutType
  <2> HIDE DEF s
  <2>2. [s EXCEPT !.active = s.active - 1] \in Entry
    BY <1>1, <2>1 DEF Entry
  <2>3. [s EXCEPT !.waiters = Without(s.waiters, c)] \in Entry
    BY <1>1, <2>1 DEF Entry
  <2> QED
    BY <2>2, <2>3
<1>3. HandOver(c, n)
  BY DEF LeaveQueue
<1> QED
  BY <1>2, <1>3, HandOverServed, FinishType DEF LeaveQueue, Inv, TypeOK

\* Rolling the request window does not touch the queue (limiter.go 87-92).
LEMMA WindowServed ==
  ASSUME Inv, NEW ch \in Channels
  PROVE  ServedEntry(Window(Live(ch)))
<1>1. ServedEntry(Live(ch))
  BY ZeroServed, CountersAssumption DEF Inv, Live
<1>2. Window(Live(ch)) \in Entry
  <2>1. Live(ch) \in Entry /\ clock \in Nat /\ 0 \in 0..MaxInt64
    BY <1>1, CountersAssumption DEF ServedEntry, Inv, TypeOK
  <2> QED
    BY <2>1 DEF Window, Entry
<1>3. /\ Window(Live(ch)).waiters = Live(ch).waiters
      /\ Window(Live(ch)).active = Live(ch).active
      /\ Window(Live(ch)).config = Live(ch).config
  BY <1>1 DEF Window, ServedEntry, Entry
<1> QED
  BY <1>1, <1>2, <1>3 DEF ServedEntry, HasCapacity

\* TryRequest and RecordUsage change only the window (limiter.go 176-214).
LEMMA RateStep ==
  ASSUME Inv, NEW ch \in Channels,
         RecordUsage(ch) \/ \E c \in Callers : chan[c] = ch /\ TryRequest(c)
  PROVE  Inv'
<1>0. PICK s : s = Window(Live(ch))
  OBVIOUS
<1>1. ServedEntry(s) /\ s \in Entry
  BY <1>0, WindowServed DEF ServedEntry
<1>2. /\ s.requests + 1 \in Nat /\ s.unknown + 1 \in Nat /\ s.tokens \in 0..MaxInt64
      /\ MaxInt64 \in Nat /\ Usages \subseteq Int
  BY <1>1, CountersAssumption DEF Entry
<1>3. ASSUME NEW r \in Nat, NEW k \in 0..MaxInt64, NEW u \in Nat
      PROVE  /\ ServedEntry([s EXCEPT !.requests = r])
             /\ ServedEntry([s EXCEPT !.tokens = k])
             /\ ServedEntry([s EXCEPT !.unknown = u])
  BY <1>1 DEF ServedEntry, Entry, HasCapacity
<1>4. \E n : ServedEntry(n) /\ Put(ch, n)
  <2>1. CASE RecordUsage(ch)
    <3>1. CASE Put(ch, [s EXCEPT !.unknown = s.unknown + 1])
      BY <3>1, <1>2, <1>3
    <3>2. CASE Put(ch, s)
      BY <3>2, <1>1
    <3>3. ASSUME NEW tokens \in Usages,
                 Put(ch, [s EXCEPT !.tokens = IF tokens > MaxInt64 - s.tokens THEN MaxInt64
                                              ELSE s.tokens + tokens]), tokens > 0
          PROVE  \E n : ServedEntry(n) /\ Put(ch, n)
      <4> DEFINE k == IF tokens > MaxInt64 - s.tokens THEN MaxInt64 ELSE s.tokens + tokens
      <4>1. k \in 0..MaxInt64
        BY <1>2, <3>3
      <4> HIDE DEF k
      <4>2. ServedEntry([s EXCEPT !.tokens = k])
        BY <1>2, <1>3, <4>1
      <4> QED
        BY <3>3, <4>2 DEF k
    <3>4. \/ Put(ch, [s EXCEPT !.unknown = s.unknown + 1])
          \/ \E tokens \in Usages :
               Put(ch, IF tokens <= 0 THEN s
                       ELSE [s EXCEPT !.tokens = IF tokens > MaxInt64 - s.tokens THEN MaxInt64
                                                 ELSE s.tokens + tokens])
      BY <2>1, <1>0 DEF RecordUsage
    <3>5. ASSUME NEW tokens \in Usages,
                 Put(ch, IF tokens <= 0 THEN s
                         ELSE [s EXCEPT !.tokens = IF tokens > MaxInt64 - s.tokens THEN MaxInt64
                                                   ELSE s.tokens + tokens])
          PROVE  \E n : ServedEntry(n) /\ Put(ch, n)
      <4>1. CASE tokens <= 0
        BY <3>5, <4>1, <3>2
      <4>2. CASE ~(tokens <= 0)
        <5>1. tokens > 0
          BY <1>2, <4>2
        <5> QED
          BY <3>5, <4>2, <5>1, <3>3
      <4> QED
        BY <4>1, <4>2
    <3> QED
      BY <3>1, <3>4, <3>5
  <2>2. CASE \E c \in Callers : chan[c] = ch /\ TryRequest(c)
    <3>1. Put(ch, s) \/ Put(ch, [s EXCEPT !.requests = s.requests + 1])
      BY <2>2, <1>0 DEF TryRequest
    <3>2. ServedEntry([s EXCEPT !.requests = s.requests + 1])
      BY <1>2, <1>3
    <3> QED
      BY <3>1, <3>2, <1>1
  <2> QED
    BY <2>1, <2>2
<1>5. /\ clock' = clock /\ pc' = pc /\ chan' = chan /\ cfg' = cfg
      /\ ready' = ready /\ done' = done
  BY DEF RecordUsage, TryRequest
<1>6. sent' \in [Channels -> Nat]
  <2>1. sent \in [Channels -> Nat]
    BY DEF Inv, TypeOK
  <2>2. sent' = sent \/ sent' = [sent EXCEPT ![ch] = sent[ch] + 1]
    BY DEF RecordUsage, TryRequest
  <2> QED
    BY <2>1, <2>2
<1> QED
  BY <1>4, <1>5, <1>6, PutServed DEF Inv, TypeOK

\* TypeOK and the served queue together are inductive.
LEMMA InvNext == Inv /\ [Next]_vars => Inv'
<1> SUFFICES ASSUME Inv, [Next]_vars PROVE Inv'
  OBVIOUS
<1>1. CASE UNCHANGED vars
  BY <1>1 DEF vars, Inv, TypeOK
<1>2. ASSUME NEW c \in Callers, NEW ch \in Channels, NEW cf \in Configs, Acquire(c, ch, cf)
      PROVE  Inv'
  BY <1>2, AcquireStep
<1>3. ASSUME NEW c \in Callers, EndAttempt(c) PROVE Inv'
  BY <1>3, ReleaseStep DEF EndAttempt
<1>4. ASSUME NEW c \in Callers, TakeGrant(c) PROVE Inv'
  <2>1. CASE Release(c)
    BY <2>1, ReleaseStep
  <2>2. CASE ~Release(c)
    BY <1>4, <2>2 DEF TakeGrant, Inv, TypeOK
  <2> QED
    BY <2>1, <2>2
<1>5. ASSUME NEW c \in Callers, StopWaiting(c) PROVE Inv'
  BY <1>5 DEF StopWaiting, Inv, TypeOK
<1>6. ASSUME NEW c \in Callers, LeaveQueue(c) PROVE Inv'
  BY <1>6, LeaveStep
<1>7. ASSUME NEW c \in Callers, TryRequest(c) PROVE Inv'
  BY <1>7, RateStep DEF Inv, TypeOK
<1>8. ASSUME NEW c \in Callers, CancelRequest(c) PROVE Inv'
  BY <1>8 DEF CancelRequest, Inv, TypeOK
<1>9. ASSUME NEW ch \in Channels, RecordUsage(ch) PROVE Inv'
  BY <1>9, RateStep
<1>10. ASSUME NextMinute PROVE Inv'
  BY <1>10 DEF NextMinute, Inv, TypeOK
<1> QED
  BY <1>1, <1>2, <1>3, <1>4, <1>5, <1>6, <1>7, <1>8, <1>9, <1>10 DEF Next

\* Init gives every channel an empty, idle entry.
LEMMA InvInit == Init => Inv
<1> SUFFICES ASSUME Init PROVE Inv
  OBVIOUS
<1>1. ServedEntry(ZeroState)
  BY ZeroServed, CountersAssumption
<1>2. NoConfig \in Config
  BY DEF NoConfig, Config
<1>3. (CHOOSE ch \in Channels : TRUE) \in Channels
  BY ChannelsAssumption
<1> QED
  BY <1>1, <1>2, <1>3 DEF Init, Inv, TypeOK, ServedEntry

\* The variables of the limiter keep their shape and the token counter stays within
\* the width of the code's int64, whatever the callers, channels and policies are.
THEOREM TypeCorrect == Spec => []TypeOK
<1>1. Spec => []Inv
  BY InvInit, InvNext, PTL DEF Spec
<1>2. Inv => TypeOK
  BY DEF Inv
<1> QED
  BY <1>1, <1>2, PTL

\* No lost wakeup: whenever the mutex is free, a channel with blocked callers has
\* no free slot, whatever policies arrive and however calls end (limiter.go 153-160).
THEOREM NoLostWakeup == Spec => []WorkConserving
<1>1. Spec => []Inv
  BY InvInit, InvNext, PTL DEF Spec
<1>2. Inv => WorkConserving
  BY DEF Inv, WorkConserving, ServedEntry
<1> QED
  BY <1>1, <1>2, PTL

-----------------------------------------------------------------------------
(* Who owns the slots *)

\* An entry that accounts for the holders h and the blocked callers q.
Accounts(s, h, q) ==
  /\ s \in Entry
  /\ IsFiniteSet(h) /\ s.active = Cardinality(h)
  /\ Unique(s.waiters) /\ Elements(s.waiters) = q

\* grant moves the front of the queue to the holders (limiter.go 153-160).
LEMMA GrantAccounts ==
  ASSUME NEW s, NEW h, NEW q, Accounts(s, h, q), h \cap q = {}
  PROVE  /\ Accounts(Grant(s), h \cup Granted(s), q \ Granted(s))
         /\ Granted(s) \subseteq q /\ Grant(s).config = s.config
<1> DEFINE n == Grants(s)
           rest == SubSeq(s.waiters, n + 1, Len(s.waiters))
<1>1. /\ s \in Entry /\ s.waiters \in Seq(Callers) /\ Unique(s.waiters) /\ s.active \in Int
      /\ IsFiniteSet(h) /\ Cardinality(h) \in Nat /\ s.active = Cardinality(h)
  BY FS_CardinalityType DEF Accounts, Entry
<1>2. n \in 0..Len(s.waiters) /\ Grant(s) \in Entry
  BY <1>1, GrantServes
<1>3. Grant(s).active = s.active + n /\ Grant(s).waiters = rest /\ Grant(s).config = s.config
  BY <1>1 DEF Grant, Entry
<1>4. Granted(s) = {s.waiters[i] : i \in 1..n}
  BY DEF Granted
<1> HIDE DEF n
<1>5. IsFiniteSet(Granted(s)) /\ Cardinality(Granted(s)) = n
  BY <1>1, <1>2, <1>4, FrontSize
<1>6. Unique(rest) /\ Elements(rest) \cap Granted(s) = {} /\ Elements(rest) \cup Granted(s) = q
  BY <1>1, <1>2, <1>4, RestOfQueue DEF Accounts
<1>7. h \cap Granted(s) = {}
  BY <1>6
<1>8. IsFiniteSet(h \cup Granted(s)) /\ Cardinality(h \cup Granted(s)) = Cardinality(h) + n
  <2>1. Cardinality(h \cap Granted(s)) = 0
    BY <1>7, FS_EmptySet
  <2>2. n \in Int /\ Cardinality(h) \in Int
    BY <1>1, <1>2
  <2>3. /\ IsFiniteSet(h \cup Granted(s))
        /\ Cardinality(h \cup Granted(s)) = Cardinality(h) + Cardinality(Granted(s)) - Cardinality(h \cap Granted(s))
    BY <1>1, <1>5, FS_Union
  <2> QED
    BY <1>5, <2>1, <2>2, <2>3
<1> HIDE DEF rest
<1> QED
  BY <1>1, <1>2, <1>3, <1>6, <1>8 DEF Accounts

\* One caller more, or one less, with a slot; one more in the queue.
LEMMA Accounting ==
  ASSUME NEW s, NEW h, NEW q, Accounts(s, h, q), NEW c \in Callers, c \notin q
  PROVE  /\ c \notin h => Accounts([s EXCEPT !.active = @ + 1], h \cup {c}, q)
         /\ c \in h => Accounts([s EXCEPT !.active = @ - 1], h \ {c}, q)
         /\ Accounts([s EXCEPT !.waiters = Append(@, c)], h, q \cup {c})
<1>1. s \in Entry /\ s.active \in Int /\ s.waiters \in Seq(Callers) /\ IsFiniteSet(h) /\ s.active = Cardinality(h)
  BY DEF Accounts, Entry
<1>2. c \notin h => IsFiniteSet(h \cup {c}) /\ Cardinality(h \cup {c}) = Cardinality(h) + 1
  BY <1>1, FS_AddElement
<1>3. c \in h => IsFiniteSet(h \ {c}) /\ Cardinality(h \ {c}) = Cardinality(h) - 1
  BY <1>1, FS_RemoveElement
<1>4. /\ Append(s.waiters, c) \in Seq(Callers) /\ Unique(Append(s.waiters, c))
      /\ Elements(Append(s.waiters, c)) = q \cup {c}
  BY <1>1, AppendNew DEF Accounts
<1>5. s.active + 1 \in Int /\ s.active - 1 \in Int
  BY <1>1
<1> QED
  BY <1>1, <1>2, <1>3, <1>4, <1>5 DEF Accounts, Entry

\* A policy and a window account for nobody.
LEMMA AccountsAlike ==
  ASSUME NEW s, NEW t \in Entry, NEW h, NEW q, Accounts(s, h, q),
         t.active = s.active, t.waiters = s.waiters
  PROVE  Accounts(t, h, q)
BY DEF Accounts

LEMMA ZeroAccounts == Accounts(ZeroState, {}, {})
<1>1. ZeroState \in Entry /\ ZeroState.waiters = <<>> /\ ZeroState.active = 0
  BY ZeroServed, CountersAssumption DEF ServedEntry, ZeroState
<1>2. Unique(<<>>) /\ Elements(<<>>) = {}
  BY DEF Unique, Elements
<1> QED
  BY <1>1, <1>2, FS_EmptySet DEF Accounts

-----------------------------------------------------------------------------
(* What the limiter knows of its callers *)

\* Only blocked callers have an unseen grant, every entry accounts for the callers
\* of its channel, theirs is not swept, and windows are of the past or the present.
Owned ==
  /\ Inv
  /\ \A c \in ready : pc[c] \in {"waiting", "leaving"}
  /\ \A ch \in Channels : Accounts(states[ch], Holders(ch), Queued(ch))
  /\ LiveEntryKept
  /\ clock >= 1 /\ \A ch \in Channels : states[ch].minute <= clock
  /\ RateWindowExact

LEMMA OwnersApart ==
  ASSUME Inv, NEW ch \in Channels
  PROVE  /\ Holders(ch) \cap Queued(ch) = {}
         /\ Holders(ch) \subseteq Callers /\ Queued(ch) \subseteq Callers
BY DEF Holders, Queued

\* The sweep deletes entries that nobody refers to (limiter.go 67-85).
LEMMA DeadUnused ==
  ASSUME Owned, NEW ch \in Dead
  PROVE  /\ ch \in Channels /\ Holders(ch) = {} /\ Queued(ch) = {} /\ states[ch].minute < clock
         /\ \A c \in Callers : chan[c] = ch => pc[c] = "idle"
<1>1. /\ ch \in Channels /\ states[ch].active = 0 /\ states[ch].waiters = <<>> /\ states[ch].minute < clock
  BY DEF Dead, Owned, Inv, TypeOK
<1>2. Accounts(states[ch], Holders(ch), Queued(ch))
  BY <1>1 DEF Owned
<1>3. Holders(ch) = {}
  BY <1>1, <1>2, FS_EmptySet DEF Accounts
<1>4. Queued(ch) = {}
  <2>1. Elements(<<>>) = {}
    BY DEF Elements
  <2> QED
    BY <1>1, <1>2, <2>1 DEF Accounts
<1>5. \A c \in Callers : chan[c] = ch => pc[c] = "idle"
  BY <1>3, <1>4 DEF Holders, Queued, Owned, Inv, TypeOK
<1> QED
  BY <1>1, <1>3, <1>4, <1>5

LEMMA LiveAccounts ==
  ASSUME Owned, NEW ch \in Channels
  PROVE  Accounts(Live(ch), Holders(ch), Queued(ch)) /\ Live(ch) \in Entry
BY DeadUnused, ZeroAccounts DEF Live, Owned, Accounts

\* What c does in channel ch, with queues, moves and grants in that channel only, is
\* no business of other channels.
Local(c, ch) ==
  /\ \A d \in Callers \ {c} : pc'[d] = pc[d] /\ chan'[d] = chan[d]
  /\ \A d \in Callers \ {c} : chan[d] # ch => (d \in ready' <=> d \in ready)
  /\ chan'[c] = ch /\ (pc[c] = "idle" \/ chan[c] = ch)

LEMMA LocalOwners ==
  ASSUME Owned, NEW c \in Callers, NEW ch \in Channels, Local(c, ch), NEW k \in Channels, k # ch
  PROVE  Holders(k)' = Holders(k) /\ Queued(k)' = Queued(k)
<1>1. ASSUME NEW d \in Callers
      PROVE  /\ chan'[d] = k /\ (pc'[d] = "holding" \/ d \in ready')
                <=> chan[d] = k /\ (pc[d] = "holding" \/ d \in ready)
             /\ chan'[d] = k /\ pc'[d] \in {"waiting", "leaving"} /\ d \notin ready'
                <=> chan[d] = k /\ pc[d] \in {"waiting", "leaving"} /\ d \notin ready
  <2>1. CASE d = c
    BY <2>1 DEF Local, Owned
  <2>2. CASE d # c
    BY <2>2 DEF Local
  <2> QED
    BY <2>1, <2>2
<1> QED
  BY <1>1 DEF Holders, Queued

\* A step keeps the accounts when it leaves a correct entry in its own channel and
\* sweeps or leaves the others.
LEMMA LocalAccounts ==
  ASSUME Owned, NEW c \in Callers, NEW ch \in Channels, Local(c, ch),
         Accounts(states'[ch], Holders(ch)', Queued(ch)'),
         \A k \in Channels \ {ch} : states'[k] \in {Live(k), states[k]}
  PROVE  \A k \in Channels : Accounts(states[k], Holders(k), Queued(k))'
<1> SUFFICES ASSUME NEW k \in Channels, k # ch PROVE Accounts(states'[k], Holders(k)', Queued(k)')
  <2>1. \A k \in Channels : Accounts(states[k], Holders(k), Queued(k))' <=> Accounts(states'[k], Holders(k)', Queued(k)')
    BY DEF Accounts, Unique, Elements
  <2> QED
    BY <2>1
<1>1. Accounts(states'[k], Holders(k), Queued(k))
  BY LiveAccounts DEF Owned
<1> QED
  BY <1>1, LocalOwners

\* Nobody moves.
LEMMA StillAccounts ==
  ASSUME Owned, NEW ch \in Channels, pc' = pc, chan' = chan, ready' = ready,
         Accounts(states'[ch], Holders(ch), Queued(ch)),
         \A k \in Channels \ {ch} : states'[k] \in {Live(k), states[k]}
  PROVE  \A k \in Channels : Accounts(states[k], Holders(k), Queued(k))'
<1>1. \A k \in Channels : Holders(k)' = Holders(k) /\ Queued(k)' = Queued(k)
  BY DEF Holders, Queued
<1>2. \A k \in Channels : Accounts(states'[k], Holders(k), Queued(k))
  BY LiveAccounts DEF Owned
<1>3. \A k \in Channels : Accounts(states[k], Holders(k), Queued(k))' <=> Accounts(states'[k], Holders(k)', Queued(k)')
  BY DEF Accounts, Unique, Elements
<1> QED
  BY <1>1, <1>2, <1>3

\* After get the entries of all callers that are not idle are still there.
LEMMA PutLive ==
  ASSUME Owned, NEW ch \in Channels, NEW n, Put(ch, n),
         \A d \in Callers : pc'[d] # "idle" =>
           chan'[d] = ch \/ (chan'[d] = chan[d] /\ pc[d] # "idle")
  PROVE  LiveEntryKept'
<1>1. keys' = (keys \ Dead) \cup {ch}
  BY DEF Put
<1>2. \A d \in Callers : pc[d] # "idle" => chan[d] \in keys \ Dead
  BY DeadUnused DEF Owned, LiveEntryKept
<1> QED
  BY <1>1, <1>2 DEF LiveEntryKept

\* The window of an entry is not of the future, and says how many were sent in it.
Counts(n, accepted) == n.minute <= clock /\ accepted = IF n.minute = clock THEN n.requests ELSE 0

LEMMA LiveCounts ==
  ASSUME Owned, NEW ch \in Channels
  PROVE  Counts(Live(ch), sent[ch])
<1>1. states[ch].minute <= clock /\ sent[ch] = IF states[ch].minute = clock THEN states[ch].requests ELSE 0
  BY DEF Owned, RateWindowExact
<1>2. CASE ch \notin Dead
  BY <1>1, <1>2 DEF Live, Counts
<1>3. CASE ch \in Dead
  <2>1. states[ch].minute < clock /\ clock >= 1 /\ clock \in Nat /\ states[ch].minute \in Nat
    BY <1>3, DeadUnused DEF Owned, Inv, TypeOK, Entry
  <2>2. Live(ch) = ZeroState /\ ZeroState.minute = 0
    BY <1>3 DEF Live, ZeroState
  <2> QED
    BY <1>1, <2>1, <2>2 DEF Counts
<1> QED
  BY <1>2, <1>3

\* An update of one entry keeps all windows if it keeps its own.
LEMMA WindowsKept ==
  ASSUME Owned, NEW ch \in Channels, clock' = clock, Counts(states'[ch], sent'[ch]),
         \A k \in Channels \ {ch} : states'[k] \in {Live(k), states[k]} /\ sent'[k] = sent[k]
  PROVE  /\ clock' >= 1 /\ (\A k \in Channels : states[k].minute <= clock)'
         /\ RateWindowExact'
<1>1. \A k \in Channels : Counts(states[k], sent[k])
  BY DEF Owned, RateWindowExact, Counts
<1>2. \A k \in Channels : Counts(states'[k], sent'[k])
  BY <1>1, LiveCounts
<1> QED
  BY <1>2 DEF Counts, RateWindowExact, Owned

\* The entry that get and an update leave behind.
LEMMA PutEntries ==
  ASSUME NEW ch \in Channels, NEW n, Put(ch, n)
  PROVE  states'[ch] = n /\ \A k \in Channels \ {ch} : states'[k] \in {Live(k), states[k]}
BY DEF Put

LEMMA GrantCounts ==
  ASSUME NEW s \in Entry, NEW cf \in Config
  PROVE  /\ Grant(s).minute = s.minute /\ Grant(s).requests = s.requests
         /\ [s EXCEPT !.config = cf].minute = s.minute /\ [s EXCEPT !.config = cf].requests = s.requests
BY DEF Grant, Entry

-----------------------------------------------------------------------------
(* Each step keeps the accounts *)

\* What Acquire does: the queue is served under the new policy, then the caller gets a
\* slot, joins the queue or is turned away (limiter.go 94-118).
AcquireMoved(c, ch, cf) ==
  LET b == Configured(ch, cf)
      s == Served(ch, cf)
      g == Granted(b)
      h == Holders(ch)
      q == Queued(ch)
  IN /\ Accounts(b, h, q) /\ h \cap q = {} /\ b.config = cf /\ b.waiters = states[ch].waiters
     /\ b.minute = Live(ch).minute /\ b.requests = Live(ch).requests
     /\ Accounts(s, h \cup g, q \ g) /\ g \subseteq q
     /\ s.config = cf /\ s.minute = b.minute /\ s.requests = b.requests
     /\ c \notin h /\ c \notin q /\ pc[c] = "idle" /\ ready' = ready \cup g
     /\ \A d \in Callers \ {c} : pc'[d] = pc[d] /\ chan'[d] = chan[d]
     /\ pc'[c] # "idle" => chan'[c] = ch
     /\ AcquireFast(c, ch, cf) =>
          Holders(ch)' = h \cup g \cup {c} /\ Queued(ch)' = q \ g
     /\ AcquireEnqueue(c, ch, cf) =>
          Holders(ch)' = h \cup g /\ Queued(ch)' = (q \ g) \cup {c}
     /\ AcquireQueueFull(c, ch, cf) =>
          Holders(ch)' = h \cup g /\ Queued(ch)' = q \ g
     /\ \A k \in Channels \ {ch} : Holders(k)' = Holders(k) /\ Queued(k)' = Queued(k)

LEMMA AcquireMoves ==
  ASSUME Owned, NEW c \in Callers, NEW ch \in Channels, NEW cf \in Configs, Acquire(c, ch, cf)
  PROVE  AcquireMoved(c, ch, cf)
<1> DEFINE b == Configured(ch, cf)
           s == Served(ch, cf)
           g == Granted(b)
           h == Holders(ch)
           q == Queued(ch)
<1>0. Inv /\ pc[c] = "idle" /\ c \notin ready /\ cf \in Config
  BY ConfigsAssumption DEF Owned, Acquire, AcquireFast, AcquireEnqueue, AcquireQueueFull, BeginAcquire
<1>1. Live(ch) \in Entry /\ Accounts(Live(ch), h, q) /\ Live(ch).waiters = states[ch].waiters
  BY LiveAccounts DEF Live, Dead, ZeroState
<1>2. /\ b \in Entry /\ b.active = Live(ch).active /\ b.waiters = Live(ch).waiters /\ b.config = cf
      /\ b.minute = Live(ch).minute /\ b.requests = Live(ch).requests
  BY <1>0, <1>1 DEF Configured, Entry
<1>3. Accounts(b, h, q) /\ h \cap q = {}
  BY <1>0, <1>1, <1>2, AccountsAlike, OwnersApart
<1> HIDE DEF b
<1>4. /\ Accounts(s, h \cup g, q \ g) /\ g \subseteq q
      /\ s.config = b.config /\ s.minute = b.minute /\ s.requests = b.requests
  <2>1. s = Grant(b)
    BY DEF Served, b
  <2> QED
    BY <1>0, <1>2, <1>3, <2>1, GrantAccounts, GrantCounts DEF Accounts
<1> HIDE DEF s
<1>5. c \notin h /\ c \notin q
  BY <1>0 DEF Holders, Queued
<1>6. ready' = ready \cup g
  BY DEF Acquire, AcquireFast, AcquireEnqueue, AcquireQueueFull, BeginAcquire, b
<1>7. \A d \in g : d \in Callers /\ chan[d] = ch /\ pc[d] \in {"waiting", "leaving"}
  BY <1>4 DEF Queued
<1>8. /\ \A d \in Callers \ {c} : pc'[d] = pc[d] /\ chan'[d] = chan[d]
      /\ pc'[c] # "idle" => chan'[c] = ch
  BY <1>0 DEF Acquire, AcquireFast, AcquireEnqueue, AcquireQueueFull, BeginAcquire, Owned, Inv, TypeOK
<1>9. AcquireFast(c, ch, cf) => Holders(ch)' = h \cup g \cup {c} /\ Queued(ch)' = q \ g
  <2> SUFFICES ASSUME AcquireFast(c, ch, cf) PROVE Holders(ch)' = h \cup g \cup {c} /\ Queued(ch)' = q \ g
    OBVIOUS
  <2>1. pc'[c] = "holding" /\ chan'[c] = ch
    BY <1>0 DEF AcquireFast, BeginAcquire, Owned, Inv, TypeOK
  <2> QED
    BY <1>5, <1>6, <1>7, <1>8, <1>0, <2>1 DEF Holders, Queued
<1>10. AcquireEnqueue(c, ch, cf) => Holders(ch)' = h \cup g /\ Queued(ch)' = (q \ g) \cup {c}
  <2> SUFFICES ASSUME AcquireEnqueue(c, ch, cf) PROVE Holders(ch)' = h \cup g /\ Queued(ch)' = (q \ g) \cup {c}
    OBVIOUS
  <2>1. pc'[c] = "waiting" /\ chan'[c] = ch
    BY <1>0 DEF AcquireEnqueue, BeginAcquire, Owned, Inv, TypeOK
  <2> QED
    BY <1>5, <1>6, <1>7, <1>8, <1>0, <2>1 DEF Holders, Queued
<1>11. AcquireQueueFull(c, ch, cf) => Holders(ch)' = h \cup g /\ Queued(ch)' = q \ g
  BY <1>6, <1>7 DEF AcquireQueueFull, Holders, Queued
<1>12. \A k \in Channels \ {ch} : Holders(k)' = Holders(k) /\ Queued(k)' = Queued(k)
  <2>1. CASE chan'[c] = ch
    <3>1. Local(c, ch)
      BY <1>0, <1>6, <1>7, <1>8, <2>1 DEF Local
    <3> QED
      BY <3>1, LocalOwners
  <2>2. CASE chan'[c] # ch
    <3>1. pc' = pc /\ chan' = chan
      BY <1>0, <2>2 DEF Acquire, AcquireFast, AcquireEnqueue, AcquireQueueFull, BeginAcquire, Owned, Inv, TypeOK
    <3> QED
      BY <1>6, <1>7, <3>1 DEF Holders, Queued
  <2> QED
    BY <2>1, <2>2
<1> QED
  BY <1>0, <1>1, <1>2, <1>3, <1>4, <1>5, <1>6, <1>8, <1>9, <1>10, <1>11, <1>12 DEF b, s, AcquireMoved

LEMMA AcquireOwned ==
  ASSUME Owned, NEW c \in Callers, NEW ch \in Channels, NEW cf \in Configs, Acquire(c, ch, cf)
  PROVE  Owned'
<1> DEFINE b == Configured(ch, cf)
           s == Served(ch, cf)
           g == Granted(b)
           h == Holders(ch)
           q == Queued(ch)
<1>moved. AcquireMoved(c, ch, cf)
  BY AcquireMoves
<1>0. Inv' /\ Inv
  BY AcquireStep DEF Owned
<1>1. /\ Accounts(s, h \cup g, q \ g) /\ g \subseteq q /\ s \in Entry
      /\ s.minute = Live(ch).minute /\ s.requests = Live(ch).requests
      /\ c \notin h /\ c \notin q /\ pc[c] = "idle" /\ ready' = ready \cup g
  <2>1. /\ Accounts(s, h \cup g, q \ g) /\ g \subseteq q
        /\ b.minute = Live(ch).minute /\ b.requests = Live(ch).requests
        /\ s.minute = b.minute /\ s.requests = b.requests
    BY <1>moved DEF AcquireMoved
  <2>2. c \notin h /\ c \notin q /\ pc[c] = "idle" /\ ready' = ready \cup g
    BY <1>moved DEF AcquireMoved
  <2>3. s \in Entry
    BY <2>1 DEF Accounts
  <2> HIDE DEF s, b, g, h, q
  <2> QED
    BY <2>1, <2>2, <2>3
<1>2. /\ \A d \in Callers \ {c} : pc'[d] = pc[d] /\ chan'[d] = chan[d]
      /\ pc'[c] # "idle" => chan'[c] = ch
  BY <1>moved DEF AcquireMoved
<1>3. clock' = clock /\ sent' = sent
  BY DEF Acquire, AcquireFast, AcquireEnqueue, AcquireQueueFull, BeginAcquire
<1> HIDE DEF s, g
<1>4. \A d \in ready' : pc'[d] \in {"waiting", "leaving"}
  BY <1>0, <1>1, <1>2 DEF Owned, Inv, TypeOK, Queued
<1>5. PICK n : /\ Put(ch, n) /\ n.minute = s.minute /\ n.requests = s.requests
               /\ Accounts(n, Holders(ch)', Queued(ch)')
  <2>1. CASE AcquireFast(c, ch, cf)
    <3>1. Put(ch, [s EXCEPT !.active = @ + 1])
      BY <2>1 DEF AcquireFast, s
    <3>2. Holders(ch)' = h \cup g \cup {c} /\ Queued(ch)' = q \ g
      BY <2>1, <1>moved DEF AcquireMoved, g
    <3>3. Accounts([s EXCEPT !.active = @ + 1], h \cup g \cup {c}, q \ g)
      BY <1>1, Accounting
    <3> QED
      BY <1>1, <3>1, <3>2, <3>3 DEF Entry
  <2>2. CASE AcquireEnqueue(c, ch, cf)
    <3>1. Put(ch, [s EXCEPT !.waiters = Append(@, c)])
      BY <2>2 DEF AcquireEnqueue, s
    <3>2. Holders(ch)' = h \cup g /\ Queued(ch)' = (q \ g) \cup {c}
      BY <2>2, <1>moved DEF AcquireMoved, g
    <3>3. Accounts([s EXCEPT !.waiters = Append(@, c)], h \cup g, (q \ g) \cup {c})
      BY <1>1, Accounting
    <3> QED
      BY <1>1, <3>1, <3>2, <3>3 DEF Entry
  <2>3. CASE AcquireQueueFull(c, ch, cf)
    <3>1. Put(ch, s)
      BY <2>3 DEF AcquireQueueFull, s
    <3>2. Holders(ch)' = h \cup g /\ Queued(ch)' = q \ g
      BY <2>3, <1>moved DEF AcquireMoved, g
    <3> QED
      BY <1>1, <3>1, <3>2
  <2> QED
    BY <2>1, <2>2, <2>3 DEF Acquire
<1>6. states'[ch] = n /\ \A k \in Channels \ {ch} : states'[k] \in {Live(k), states[k]}
  BY <1>5, PutEntries
<1>7. \A k \in Channels : Accounts(states[k], Holders(k), Queued(k))'
  <2>1. \A k \in Channels \ {ch} : Holders(k)' = Holders(k) /\ Queued(k)' = Queued(k)
    BY <1>moved DEF AcquireMoved
  <2>2. ASSUME NEW k \in Channels PROVE Accounts(states'[k], Holders(k)', Queued(k)')
    BY <1>5, <1>6, <2>1, LiveAccounts DEF Owned
  <2>3. \A k \in Channels : Accounts(states[k], Holders(k), Queued(k))' <=> Accounts(states'[k], Holders(k)', Queued(k)')
    BY DEF Accounts, Unique, Elements
  <2> QED
    BY <2>2, <2>3
<1>8. LiveEntryKept'
  BY <1>2, <1>5, PutLive
<1>9. Counts(n, sent[ch])
  BY <1>1, <1>5, LiveCounts DEF Counts
<1> QED
  BY <1>0, <1>3, <1>4, <1>6, <1>7, <1>8, <1>9, WindowsKept DEF Owned

\* A caller of ch that gives its slot or its place in the queue back is over, and the
\* entry s without it is served (limiter.go 134-148, 162-174).
GivesBack(c, ch, s) ==
  /\ chan[c] = ch /\ pc[c] # "idle"
  /\ HandOver(c, s) /\ Finish(c) /\ chan' = chan
  /\ Accounts(s, Holders(ch) \ {c}, Queued(ch) \ {c})

\* What that leaves behind: the front of the queue is granted, others are not concerned.
HandedOver(c, ch, s) ==
  LET g == Granted(s)
      h == Holders(ch) \ {c}
      q == Queued(ch) \ {c}
  IN /\ h \cap q = {} /\ s \in Entry
     /\ Accounts(Grant(s), h \cup g, q \ g) /\ g \subseteq q
     /\ states'[ch] = Grant(s) /\ \A k \in Channels \ {ch} : states'[k] = states[k]
     /\ \A d \in ready' : pc'[d] \in {"waiting", "leaving"}
     /\ pc'[c] = "idle" /\ \A d \in Callers \ {c} : pc'[d] = pc[d]
     /\ Local(c, ch)
     /\ Holders(ch)' = h \cup g /\ Queued(ch)' = q \ g

LEMMA HandOverMoves ==
  ASSUME Owned, NEW c \in Callers, NEW ch \in Channels, NEW s, GivesBack(c, ch, s)
  PROVE  HandedOver(c, ch, s)
<1> DEFINE g == Granted(s)
           h == Holders(ch) \ {c}
           q == Queued(ch) \ {c}
<1> USE DEF GivesBack
<1>1. Inv /\ h \cap q = {}
  BY OwnersApart DEF Owned, Inv, TypeOK
<1>2. Accounts(Grant(s), h \cup g, q \ g) /\ g \subseteq q /\ s \in Entry
  BY <1>1, GrantAccounts DEF Accounts
<1>4. /\ states'[ch] = Grant(s) /\ \A k \in Channels \ {ch} : states'[k] = states[k]
      /\ ready' = (ready \ {c}) \cup g
  BY <1>1 DEF HandOver, Inv, TypeOK
<1>5. pc'[c] = "idle" /\ chan' = chan /\ \A d \in Callers \ {c} : pc'[d] = pc[d]
  BY <1>1 DEF Finish, Inv, TypeOK
<1>6. \A d \in g : d \in Callers /\ d # c /\ chan[d] = ch /\ pc[d] \in {"waiting", "leaving"}
  BY <1>2 DEF Queued
<1>7. \A d \in ready' : pc'[d] \in {"waiting", "leaving"}
  <2> SUFFICES ASSUME NEW d \in ready' PROVE d \in Callers /\ d # c /\ pc[d] \in {"waiting", "leaving"}
    BY <1>5
  <2> QED
    BY <1>1, <1>4, <1>6 DEF Owned, Inv, TypeOK
<1>8. Local(c, ch)
  BY <1>4, <1>5, <1>6 DEF Local
<1>9. Holders(ch)' = h \cup g /\ Queued(ch)' = q \ g
  <2>1. ASSUME NEW d \in Callers
        PROVE  /\ d \in Holders(ch)' <=> d \in h \cup g
               /\ d \in Queued(ch)' <=> d \in q \ g
    <3>1. CASE d = c
      <4>1. pc'[d] = "idle" /\ d \notin ready' /\ d \notin g
        BY <1>4, <1>5, <1>6, <3>1
      <4> QED
        BY <3>1, <4>1 DEF Holders, Queued
    <3>2. CASE d # c
      <4>1. pc'[d] = pc[d] /\ chan'[d] = chan[d] /\ (d \in ready' <=> d \in ready \/ d \in g)
        BY <1>4, <1>5, <3>2
      <4>2. d \in g => d \in q /\ pc[d] # "holding"
        BY <1>2, <1>6
      <4> QED
        BY <3>2, <4>1, <4>2 DEF Holders, Queued
    <3> QED
      BY <3>1, <3>2
  <2>2. /\ Holders(ch)' \subseteq Callers /\ Queued(ch)' \subseteq Callers
        /\ h \cup g \subseteq Callers /\ q \ g \subseteq Callers
    BY <1>6 DEF Holders, Queued
  <2>3. Holders(ch)' = h \cup g
    BY <2>1, <2>2
  <2>4. Queued(ch)' = q \ g
    BY <2>1, <2>2
  <2> QED
    BY <2>3, <2>4
<1> QED
  BY <1>1, <1>2, <1>4, <1>5, <1>7, <1>8, <1>9 DEF HandedOver

LEMMA HandOverOwned ==
  ASSUME Owned, Inv', NEW c \in Callers, NEW ch \in Channels, NEW s, GivesBack(c, ch, s),
         UNCHANGED <<clock, sweptMinute, keys, sent>>,
         s.minute = states[ch].minute, s.requests = states[ch].requests
  PROVE  Owned'
<1> DEFINE g == Granted(s)
           h == Holders(ch) \ {c}
           q == Queued(ch) \ {c}
<1>0. HandedOver(c, ch, s)
  BY HandOverMoves
<1>1. /\ s \in Entry /\ Accounts(Grant(s), h \cup g, q \ g)
      /\ states'[ch] = Grant(s) /\ \A k \in Channels \ {ch} : states'[k] = states[k]
      /\ \A d \in ready' : pc'[d] \in {"waiting", "leaving"}
  BY <1>0 DEF HandedOver
<1>2. /\ pc'[c] = "idle" /\ \A d \in Callers \ {c} : pc'[d] = pc[d]
      /\ Local(c, ch) /\ Holders(ch)' = h \cup g /\ Queued(ch)' = q \ g
  BY <1>0 DEF HandedOver
<1>3. Grant(s).minute = s.minute /\ Grant(s).requests = s.requests
  <2>1. NoConfig \in Config
    BY DEF NoConfig, Config
  <2> QED
    BY <1>1, <2>1, GrantCounts
<1>4. \A k \in Channels : Accounts(states[k], Holders(k), Queued(k))'
  BY <1>1, <1>2, LocalAccounts
<1>5. LiveEntryKept'
  BY <1>2 DEF Owned, LiveEntryKept, GivesBack
<1>6. Counts(states'[ch], sent[ch])
  BY <1>1, <1>3 DEF Counts, Owned, RateWindowExact
<1> QED
  BY <1>1, <1>2, <1>4, <1>5, <1>6, WindowsKept DEF Owned

LEMMA ReleaseOwned ==
  ASSUME Owned, NEW c \in Callers, Release(c), pc[c] = "holding" \/ c \in ready
  PROVE  Owned'
<1> PICK ch \in Channels : chan[c] = ch
  BY DEF Owned, Inv, TypeOK
<1> DEFINE s == [states[ch] EXCEPT !.active = @ - 1]
<1>1. Inv /\ Inv' /\ pc[c] # "idle"
  BY ReleaseStep DEF Owned, Inv, TypeOK
<1>2. ch \in keys
  BY <1>1 DEF Owned, LiveEntryKept
<1>3. HandOver(c, s) /\ Finish(c) /\ UNCHANGED <<clock, sweptMinute, keys, chan, sent>>
  BY <1>2 DEF Release
<1>4. c \in Holders(ch) /\ c \notin Queued(ch)
  BY DEF Holders, Queued
<1>5. Accounts(s, Holders(ch) \ {c}, Queued(ch) \ {c})
  <2>1. Accounts(states[ch], Holders(ch), Queued(ch)) /\ Queued(ch) \ {c} = Queued(ch)
    BY <1>1, <1>4 DEF Owned
  <2> QED
    BY <1>4, <2>1, Accounting
<1>6. s.minute = states[ch].minute /\ s.requests = states[ch].requests
  BY <1>1 DEF Inv, TypeOK, Entry
<1> QED
  BY <1>1, <1>3, <1>5, <1>6, HandOverOwned DEF GivesBack

\* The entry of a channel without the slot, or without the place, of a caller that
\* stopped waiting.
LEMMA LeavingAccounts ==
  ASSUME Owned, NEW c \in Callers, pc[c] = "leaving"
  PROVE  LET s == states[chan[c]] IN
         Accounts(IF c \in ready THEN [s EXCEPT !.active = @ - 1] ELSE [s EXCEPT !.waiters = Without(@, c)],
                  Holders(chan[c]) \ {c}, Queued(chan[c]) \ {c})
<1> DEFINE ch == chan[c]
           s == states[ch]
           n == IF c \in ready THEN [s EXCEPT !.active = @ - 1]
                ELSE [s EXCEPT !.waiters = Without(@, c)]
<1> SUFFICES Accounts(n, Holders(ch) \ {c}, Queued(ch) \ {c})
  OBVIOUS
<1>1. ch \in Channels /\ s \in Entry
  BY DEF Owned, Inv, TypeOK
<1>2. Accounts(s, Holders(ch), Queued(ch))
  BY <1>1 DEF Owned
<1>3. CASE c \in ready
  <2>1. c \in Holders(ch) /\ c \notin Queued(ch) /\ Queued(ch) \ {c} = Queued(ch)
    BY <1>3 DEF Holders, Queued
  <2> QED
    BY <1>2, <1>3, <2>1, Accounting
<1>4. CASE c \notin ready
  <2>1. c \notin Holders(ch) /\ Holders(ch) \ {c} = Holders(ch)
    BY <1>1, <1>4 DEF Holders
  <2>2. s.waiters \in Seq(Callers) /\ Unique(s.waiters) /\ Elements(s.waiters) = Queued(ch)
    BY <1>1, <1>2 DEF Accounts, Entry
  <2> HIDE DEF s
  <2>3. /\ Without(s.waiters, c) \in Seq(Callers) /\ Unique(Without(s.waiters, c))
        /\ Elements(Without(s.waiters, c)) = Queued(ch) \ {c}
    BY <2>2, WithoutType
  <2> QED
    BY <1>1, <1>2, <1>4, <2>1, <2>3 DEF Accounts, Entry
<1> QED
  BY <1>3, <1>4

LEMMA LeaveOwned ==
  ASSUME Owned, NEW c \in Callers, LeaveQueue(c)
  PROVE  Owned'
<1> PICK ch \in Channels : chan[c] = ch
  BY DEF Owned, Inv, TypeOK
<1> DEFINE s == states[ch]
           n == IF c \in ready THEN [s EXCEPT !.active = @ - 1]
                ELSE [s EXCEPT !.waiters = Without(@, c)]
<1>1. Inv /\ Inv' /\ pc[c] = "leaving" /\ s \in Entry
  BY LeaveStep DEF Owned, Inv, TypeOK, LeaveQueue
<1>2. HandOver(c, n) /\ Finish(c) /\ UNCHANGED <<clock, sweptMinute, keys, chan, sent>>
  BY DEF LeaveQueue
<1>3. n.minute = s.minute /\ n.requests = s.requests
  BY <1>1 DEF Entry
<1>4. Accounts(n, Holders(ch) \ {c}, Queued(ch) \ {c})
  BY <1>1, LeavingAccounts
<1> HIDE DEF n
<1> QED
  BY <1>1, <1>2, <1>3, <1>4, HandOverOwned DEF GivesBack

\* Steps of a caller on its own: it sees its grant, a timer fires, its client leaves.
LEMMA QuietOwned ==
  ASSUME Owned, Inv', UNCHANGED <<clock, keys, states, chan, sent>>,
         \A c \in ready' : pc'[c] \in {"waiting", "leaving"},
         \A c \in Callers :
           /\ (pc'[c] = "holding" \/ c \in ready') <=> (pc[c] = "holding" \/ c \in ready)
           /\ (pc'[c] \in {"waiting", "leaving"} /\ c \notin ready') <=> (pc[c] \in {"waiting", "leaving"} /\ c \notin ready)
           /\ pc'[c] # "idle" => pc[c] # "idle"
  PROVE  Owned'
<1>1. \A k \in Channels : Holders(k)' = Holders(k) /\ Queued(k)' = Queued(k)
  BY DEF Holders, Queued
<1>2. \A k \in Channels : Accounts(states[k], Holders(k), Queued(k))'
  <2>1. \A k \in Channels : Accounts(states[k], Holders(k), Queued(k))' <=> Accounts(states[k], Holders(k)', Queued(k)')
    BY DEF Accounts, Unique, Elements
  <2> QED
    BY <1>1, <2>1 DEF Owned
<1>3. LiveEntryKept' /\ RateWindowExact'
  BY DEF Owned, LiveEntryKept, RateWindowExact
<1> QED
  BY <1>2, <1>3 DEF Owned

\* What TryRequest and RecordUsage may do to an entry.
LEMMA UpdatesWindow ==
  ASSUME NEW ch \in Channels, RecordUsage(ch) \/ \E c \in Callers : chan[c] = ch /\ TryRequest(c)
  PROVE  LET s == Window(Live(ch)) IN
         \E n : /\ Put(ch, n)
                /\ \/ n = s
                   \/ \E x : n = [s EXCEPT !.unknown = x]
                   \/ \E x : n = [s EXCEPT !.tokens = x]
                   \/ \E x : n = [s EXCEPT !.requests = x]
<1> DEFINE s == Window(Live(ch))
           Update(n) == \/ n = s
                        \/ \E x : n = [s EXCEPT !.unknown = x]
                        \/ \E x : n = [s EXCEPT !.tokens = x]
                        \/ \E x : n = [s EXCEPT !.requests = x]
<1> SUFFICES \E n : Put(ch, n) /\ Update(n)
  OBVIOUS
<1>1. CASE RecordUsage(ch)
  <2>1. CASE Put(ch, [s EXCEPT !.unknown = @ + 1])
    BY <2>1
  <2>2. ASSUME NEW t \in Usages,
               Put(ch, IF t <= 0 THEN s ELSE [s EXCEPT !.tokens = IF t > MaxInt64 - @ THEN MaxInt64 ELSE @ + t])
        PROVE  \E n : Put(ch, n) /\ Update(n)
    BY <2>2
  <2> HIDE DEF Update
  <2> QED
    BY <1>1, <2>1, <2>2 DEF RecordUsage
<1>2. CASE \E c \in Callers : chan[c] = ch /\ TryRequest(c)
  <2>1. Put(ch, s) \/ Put(ch, [s EXCEPT !.requests = @ + 1])
    BY <1>2 DEF TryRequest
  <2> QED
    BY <2>1
<1> QED
  BY <1>1, <1>2

\* TryRequest and RecordUsage move the window of one channel (limiter.go 176-214).
LEMMA RateOwned ==
  ASSUME Owned, NEW ch \in Channels,
         RecordUsage(ch) \/ \E c \in Callers : chan[c] = ch /\ TryRequest(c)
  PROVE  Owned'
<1> DEFINE s == Window(Live(ch))
<1>1. Inv /\ Inv' /\ Accounts(Live(ch), Holders(ch), Queued(ch)) /\ Live(ch) \in Entry
  BY RateStep, LiveAccounts DEF Owned
<1>2. /\ s \in Entry /\ s.active = Live(ch).active /\ s.waiters = Live(ch).waiters
      /\ s.minute = clock /\ s.requests = sent[ch] /\ clock \in Nat
  <2>1. s \in Entry
    BY <1>1, WindowServed DEF ServedEntry
  <2>2. Counts(Live(ch), sent[ch]) /\ clock \in Nat
    BY <1>1, LiveCounts DEF Inv, TypeOK
  <2> QED
    BY <1>1, <2>1, <2>2 DEF Window, Counts, Entry
<1> HIDE DEF s
<1>3. /\ clock' = clock /\ pc' = pc /\ chan' = chan /\ ready' = ready
      /\ sent \in [Channels -> Nat]
  BY <1>1 DEF RecordUsage, TryRequest, Inv, TypeOK
<1>4. PICK n : /\ Put(ch, n) /\ n.active = s.active /\ n.waiters = s.waiters /\ n.minute = s.minute
               /\ n.requests = sent'[ch] /\ \A k \in Channels \ {ch} : sent'[k] = sent[k]
  <2>1. CASE RecordUsage(ch)
    <3>1. sent' = sent
      BY <2>1 DEF RecordUsage
    <3>2. PICK n : /\ Put(ch, n)
                   /\ \/ n = s
                      \/ \E x : n = [s EXCEPT !.unknown = x]
                      \/ \E x : n = [s EXCEPT !.tokens = x]
      <4>1. CASE Put(ch, [s EXCEPT !.unknown = @ + 1])
        BY <4>1
      <4>2. ASSUME NEW t \in Usages,
                   Put(ch, IF t <= 0 THEN s ELSE [s EXCEPT !.tokens = IF t > MaxInt64 - @ THEN MaxInt64 ELSE @ + t])
            PROVE  \E n : /\ Put(ch, n)
                          /\ \/ n = s
                             \/ \E x : n = [s EXCEPT !.unknown = x]
                             \/ \E x : n = [s EXCEPT !.tokens = x]
        BY <4>2
      <4> QED
        BY <2>1, <4>1, <4>2 DEF RecordUsage, s
    <3>3. n.active = s.active /\ n.waiters = s.waiters /\ n.minute = s.minute /\ n.requests = s.requests
      BY <1>2, <3>2 DEF Entry
    <3> QED
      BY <1>2, <3>1, <3>2, <3>3
  <2>2. CASE \E c \in Callers : chan[c] = ch /\ TryRequest(c)
    <3>1. \/ Put(ch, s) /\ sent' = sent
          \/ Put(ch, [s EXCEPT !.requests = @ + 1]) /\ sent' = [sent EXCEPT ![ch] = @ + 1]
      BY <2>2 DEF TryRequest, s
    <3>2. CASE Put(ch, s) /\ sent' = sent
      BY <1>2, <3>2
    <3>3. CASE Put(ch, [s EXCEPT !.requests = @ + 1]) /\ sent' = [sent EXCEPT ![ch] = @ + 1]
      <4> DEFINE n == [s EXCEPT !.requests = @ + 1]
      <4>1. n.active = s.active /\ n.waiters = s.waiters /\ n.minute = s.minute /\ n.requests = s.requests + 1
        BY <1>2 DEF Entry
      <4>2. sent'[ch] = sent[ch] + 1 /\ \A k \in Channels \ {ch} : sent'[k] = sent[k]
        BY <1>3, <3>3
      <4> QED
        BY <1>2, <3>3, <4>1, <4>2
    <3> QED
      BY <3>1, <3>2, <3>3
  <2> QED
    BY <2>1, <2>2
<1>5. states'[ch] = n /\ \A k \in Channels \ {ch} : states'[k] \in {Live(k), states[k]}
  BY <1>4, PutEntries
<1>6. n \in Entry
  BY <1>1, <1>5 DEF Inv, TypeOK
<1>7. Accounts(n, Holders(ch), Queued(ch))
  BY <1>1, <1>2, <1>4, <1>6, AccountsAlike
<1>8. \A k \in Channels : Accounts(states[k], Holders(k), Queued(k))'
  BY <1>3, <1>5, <1>7, StillAccounts
<1>9. LiveEntryKept'
  BY <1>3, <1>4, PutLive
<1>10. Counts(states'[ch], sent'[ch])
  BY <1>2, <1>4, <1>5 DEF Counts
<1>11. \A c \in ready' : pc'[c] \in {"waiting", "leaving"}
  BY <1>3 DEF Owned
<1> QED
  BY <1>1, <1>3, <1>4, <1>5, <1>8, <1>9, <1>10, <1>11, WindowsKept DEF Owned

LEMMA OwnedInit == Init => Owned
<1> SUFFICES ASSUME Init PROVE Owned
  OBVIOUS
<1>1. Inv
  BY InvInit
<1>2. ASSUME NEW ch \in Channels PROVE Accounts(states[ch], Holders(ch), Queued(ch))
  <2>1. Holders(ch) = {} /\ Queued(ch) = {}
    BY DEF Init, Holders, Queued
  <2> QED
    BY <2>1, ZeroAccounts DEF Init
<1>3. ASSUME NEW ch \in Channels PROVE states[ch].minute = 0 /\ sent[ch] = 0
  BY DEF Init, ZeroState
<1> QED
  BY <1>1, <1>2, <1>3 DEF Init, Owned, LiveEntryKept, RateWindowExact

LEMMA OwnedNext == Owned /\ [Next]_vars => Owned'
<1> SUFFICES ASSUME Owned, [Next]_vars PROVE Owned'
  OBVIOUS
<1>0. Inv /\ Inv' /\ TypeOK
  BY InvNext DEF Owned, Inv
<1>1. CASE UNCHANGED vars
  BY <1>0, <1>1, QuietOwned DEF vars, Owned
<1>2. ASSUME NEW c \in Callers, NEW ch \in Channels, NEW cf \in Configs, Acquire(c, ch, cf)
      PROVE  Owned'
  BY <1>2, AcquireOwned
<1>3. ASSUME NEW c \in Callers, EndAttempt(c) PROVE Owned'
  BY <1>3, ReleaseOwned DEF EndAttempt
<1>4. ASSUME NEW c \in Callers, TakeGrant(c) PROVE Owned'
  <2>1. CASE Release(c)
    BY <1>4, <2>1, ReleaseOwned DEF TakeGrant
  <2>2. CASE ~Release(c)
    <3>1. /\ pc[c] = "waiting" /\ c \in ready /\ pc' = [pc EXCEPT ![c] = "holding"] /\ ready' = ready \ {c}
          /\ UNCHANGED <<clock, keys, states, chan, sent>>
      BY <1>4, <2>2 DEF TakeGrant
    <3> QED
      BY <1>0, <3>1, QuietOwned DEF Owned, TypeOK
  <2> QED
    BY <2>1, <2>2
<1>5. ASSUME NEW c \in Callers, StopWaiting(c) PROVE Owned'
  BY <1>0, <1>5, QuietOwned DEF StopWaiting, Owned, TypeOK
<1>6. ASSUME NEW c \in Callers, LeaveQueue(c) PROVE Owned'
  BY <1>6, LeaveOwned
<1>7. ASSUME NEW c \in Callers, TryRequest(c) PROVE Owned'
  BY <1>0, <1>7, RateOwned DEF TypeOK
<1>8. ASSUME NEW c \in Callers, CancelRequest(c) PROVE Owned'
  BY <1>0, <1>8, QuietOwned DEF CancelRequest, Owned
<1>9. ASSUME NEW ch \in Channels, RecordUsage(ch) PROVE Owned'
  BY <1>9, RateOwned
<1>10. ASSUME NextMinute PROVE Owned'
  <2>1. /\ clock' = clock + 1 /\ sent' = [ch \in Channels |-> 0] /\ UNCHANGED <<keys, states, pc, chan, ready>>
        /\ clock \in Nat /\ \A ch \in Channels : states[ch].minute \in Nat
    BY <1>0, <1>10 DEF NextMinute, TypeOK, Entry
  <2>2. \A k \in Channels : Holders(k)' = Holders(k) /\ Queued(k)' = Queued(k)
    BY <2>1 DEF Holders, Queued
  <2>3. \A k \in Channels : Accounts(states[k], Holders(k), Queued(k))'
    <3>1. \A k \in Channels : Accounts(states[k], Holders(k), Queued(k))' <=> Accounts(states[k], Holders(k)', Queued(k)')
      BY <2>1 DEF Accounts, Unique, Elements
    <3> QED
      BY <2>2, <3>1 DEF Owned
  <2>4. \A ch \in Channels : states[ch].minute <= clock
    BY DEF Owned
  <2>5. RateWindowExact' /\ clock' >= 1 /\ (\A ch \in Channels : states[ch].minute <= clock)'
    BY <2>1, <2>4 DEF RateWindowExact
  <2>6. LiveEntryKept' /\ \A c \in ready' : pc'[c] \in {"waiting", "leaving"}
    BY <2>1 DEF Owned, LiveEntryKept
  <2> QED
    BY <1>0, <2>3, <2>5, <2>6 DEF Owned
<1> QED
  BY <1>1, <1>2, <1>3, <1>4, <1>5, <1>6, <1>7, <1>8, <1>9, <1>10 DEF Next

LEMMA OwnedHolds == Spec => []Owned
BY OwnedInit, OwnedNext, PTL DEF Spec

\* For any callers, channels and policies, the active counter is the number of slots
\* that callers own and the queue holds exactly the blocked callers without one, each
\* once, however grants, cancellations and releases race (limiter.go 126-148).
THEOREM SlotsAccounted == Spec => []SlotAccounting
<1>1. Owned => SlotAccounting
  <2> SUFFICES ASSUME Owned, NEW ch \in Channels
               PROVE  LET q == states[ch].waiters IN
                        /\ states[ch].active = Cardinality(Holders(ch))
                        /\ {q[i] : i \in DOMAIN q} = Queued(ch)
                        /\ Len(q) = Cardinality(Queued(ch))
    BY DEF SlotAccounting
  <2> DEFINE q == states[ch].waiters
  <2>1. q \in Seq(Callers) /\ DOMAIN q = 1..Len(q)
    BY LenProperties DEF Owned, Inv, TypeOK, Entry
  <2>2. states[ch].active = Cardinality(Holders(ch)) /\ Unique(q) /\ Elements(q) = Queued(ch)
    BY DEF Owned, Accounts
  <2>3. Cardinality(Elements(q)) = Len(q)
    BY <2>1, <2>2, QueueSize
  <2> QED
    BY <2>1, <2>2, <2>3 DEF Elements
<1> QED
  BY <1>1, OwnedHolds, PTL

\* The sweep never deletes an entry that a caller refers to (limiter.go 67-85).
THEOREM EntryKept == Spec => []LiveEntryKept
<1>1. Owned => LiveEntryKept
  BY DEF Owned
<1> QED
  BY <1>1, OwnedHolds, PTL

\* The request window is the number of attempts accepted this minute, whatever is swept
\* and however late usage is recorded (limiter.go 87-92, 179-214).
THEOREM WindowExact == Spec => []RateWindowExact
<1>1. Owned => RateWindowExact
  BY DEF Owned
<1> QED
  BY <1>1, OwnedHolds, PTL

\* A full queue behind taken slots stays as it is when the next caller is served
\* (limiter.go 104-115).
LEMMA FullQueueServed ==
  ASSUME TypeOK, NEW ch \in Channels, NEW cf \in Configs,
         cf.MaxConcurrent > 0, states[ch].active >= cf.MaxConcurrent,
         cf.QueueSize > 0, Len(states[ch].waiters) >= cf.QueueSize
  PROVE  ~Admissible(Served(ch, cf)) /\ QueueFull(Served(ch, cf))
<1> DEFINE s == states[ch]
           q == s.waiters
           b == [s EXCEPT !.config = cf]
<1>1. s \in Entry /\ s.active \in Int /\ q \in Seq(Callers) /\ Len(q) \in Nat
  BY LenProperties DEF TypeOK, Entry
<1>2. cf \in Config /\ cf.MaxConcurrent \in Nat /\ cf.QueueSize \in Nat
  BY ConfigsAssumption DEF Config
<1>3. Live(ch) = s
  <2>1. q # <<>>
    BY <1>1, <1>2, EmptySeq
  <2> QED
    BY <2>1 DEF Live, Dead
<1>4. b \in Entry /\ b.waiters = q /\ b.active = s.active /\ b.config = cf
  BY <1>1, <1>2 DEF Entry
<1> HIDE DEF b, s
<1>5. Grants(b) = 0
  BY <1>1, <1>2, <1>4 DEF Grants, s
<1>6. Grant(b).waiters = SubSeq(q, 1, Len(q)) /\ Grant(b).config = cf
  BY <1>4, <1>5 DEF Grant, Entry
<1>7. Len(SubSeq(q, 1, Len(q))) = Len(q)
  BY <1>1, SubSeqProperties, ElementOfSeq
<1>8. Served(ch, cf) = Grant(b)
  BY <1>3 DEF Served, Configured, b, s
<1>9. Grant(b).waiters # <<>>
  BY <1>1, <1>2, <1>6, <1>7, EmptySeq DEF s
<1> QED
  BY <1>6, <1>7, <1>8, <1>9 DEF Admissible, QueueFull, s

\* Routing never calls a channel exhausted that dispatch would admit: neither the sweep
\* nor the roll of the window, which only dispatch performs, would change the verdict
\* (limiter.go 216-255 against 104-115 and 185-189).
THEOREM SnapshotSound == Spec => []SnapshotAgrees
<1>1. TypeOK => SnapshotAgrees
  <2> SUFFICES ASSUME TypeOK, NEW ch \in Channels, NEW cf \in Configs
               PROVE  /\ ExhaustedBy(ch, cf) = "queue" => ~Admissible(Served(ch, cf)) /\ QueueFull(Served(ch, cf))
                      /\ ExhaustedBy(ch, cf) = "rpm" => Window(Live(ch)).requests >= cf.RPM
    BY DEF SnapshotAgrees
  <2>1. ASSUME ExhaustedBy(ch, cf) = "queue" PROVE ~Admissible(Served(ch, cf)) /\ QueueFull(Served(ch, cf))
    <3>1. /\ cf.MaxConcurrent > 0 /\ states[ch].active >= cf.MaxConcurrent
          /\ QueueFull([states[ch] EXCEPT !.config = cf])
      BY <2>1 DEF ExhaustedBy
    <3>2. states[ch] \in Entry
      BY DEF TypeOK
    <3>3. cf.QueueSize > 0 /\ Len(states[ch].waiters) >= cf.QueueSize
      BY <3>1, <3>2 DEF QueueFull, Entry
    <3> QED
      BY <3>1, <3>3, FullQueueServed
  <2>2. ASSUME ExhaustedBy(ch, cf) = "rpm" PROVE Window(Live(ch)).requests >= cf.RPM
    <3>1. states[ch].minute = clock /\ states[ch].requests >= cf.RPM
      BY <2>2 DEF ExhaustedBy
    <3>2. ch \notin Dead
      BY <3>1 DEF Dead, TypeOK
    <3> QED
      BY <3>1, <3>2 DEF Live, Window
  <2> QED
    BY <2>1, <2>2
<1> QED
  BY <1>1, TypeCorrect, PTL

-----------------------------------------------------------------------------
(* One channel implements FifoAdmission *)

LEMMA SameCount == \A ch, S : Admission(ch)!Cardinality(S) = Cardinality(S)
BY DEF Admission!Cardinality, Cardinality

\* One service of the abstract queue: what the code leaves behind takes a front of q to
\* the holders, as far as the limit goes and no less.
LEMMA ServeOnce ==
  ASSUME NEW ch \in Channels, NEW l \in Nat, NEW h, NEW q \in Seq(Callers), NEW n \in 0..Len(q),
         states'[ch].config.MaxConcurrent = l,
         Holders(ch)' = h \cup {q[i] : i \in 1..n},
         states'[ch].waiters = SubSeq(q, n + 1, Len(q)),
         n > 0 => l = 0 \/ Cardinality(Holders(ch)') <= l,
         states'[ch].waiters # <<>> => l # 0 /\ ~(Cardinality(Holders(ch)') < l)
  PROVE  Admission(ch)!Serve(l, h, q)
BY SameCount DEF Admission!Serve, Admission!Free

\* How far grant goes (limiter.go 153-160).
LEMMA GrantBound ==
  ASSUME NEW s \in Entry
  PROVE  LET l == s.config.MaxConcurrent IN
         /\ l \in Nat /\ Grants(s) \in 0..Len(s.waiters) /\ s.active \in Int
         /\ Grant(s).config = s.config /\ Grant(s).active = s.active + Grants(s)
         /\ Grant(s).waiters = SubSeq(s.waiters, Grants(s) + 1, Len(s.waiters))
         /\ Len(Grant(s).waiters) = Len(s.waiters) - Grants(s)
         /\ Grants(s) > 0 => l = 0 \/ Grant(s).active <= l
         /\ Grant(s).waiters # <<>> => l # 0 /\ ~(Grant(s).active < l)
<1>1. /\ s.active \in Int /\ s.config.MaxConcurrent \in Nat /\ s.waiters \in Seq(Callers)
      /\ Len(s.waiters) \in Nat /\ \A i \in 1..Len(s.waiters) : s.waiters[i] \in Callers
  BY LenProperties, ElementOfSeq DEF Entry, Config
<1>2. Grants(s) \in 0..Len(s.waiters) /\ (Grant(s).waiters # <<>> => ~HasCapacity(Grant(s)))
  BY GrantServes
<1>3. /\ Grant(s).config = s.config /\ Grant(s).active = s.active + Grants(s)
      /\ Grant(s).waiters = SubSeq(s.waiters, Grants(s) + 1, Len(s.waiters))
  BY DEF Grant, Entry
<1>4. Len(Grant(s).waiters) = Len(s.waiters) - Grants(s)
  <2>1. Len(SubSeq(s.waiters, Grants(s) + 1, Len(s.waiters)))
          = IF Grants(s) + 1 <= Len(s.waiters) THEN Len(s.waiters) - (Grants(s) + 1) + 1 ELSE 0
    BY <1>1, <1>2, SubSeqProperties
  <2> QED
    BY <1>1, <1>2, <1>3, <2>1
<1>5. Grants(s) > 0 => s.config.MaxConcurrent = 0 \/ s.active + Grants(s) <= s.config.MaxConcurrent
  BY <1>1 DEF Grants
<1> QED
  BY <1>1, <1>2, <1>3, <1>4, <1>5 DEF HasCapacity

\* Serving the queue of an entry that accounts for h, with nobody new.
LEMMA ServeEntry ==
  ASSUME NEW ch \in Channels, NEW s, NEW h, NEW w, Accounts(s, h, w), h \cap w = {},
         states'[ch] = Grant(s), Holders(ch)' = h \cup Granted(s)
  PROVE  Admission(ch)!Serve(s.config.MaxConcurrent, h, s.waiters)
<1>1. s \in Entry /\ s.waiters \in Seq(Callers)
  BY DEF Accounts, Entry
<1>2. Grant(s).active = Cardinality(Holders(ch)')
  BY GrantAccounts DEF Accounts
<1> QED
  BY <1>1, <1>2, GrantBound, ServeOnce DEF Granted

\* A channel that other callers' steps sweep or leave alone, or whose window moves.
LEMMA Elsewhere ==
  ASSUME Owned, NEW k \in Channels, Holders(k)' = Holders(k),
         NEW n \in {Live(k), states[k]},
         states'[k].config = n.config, states'[k].waiters = n.waiters
  PROVE  [Admission(k)!Next]_(Admission(k)!vars)
<1>1. CASE n = states[k]
  BY <1>1 DEF Admission!vars
<1>2. CASE n # states[k]
  <2>1. k \in Dead /\ n = ZeroState
    BY <1>2 DEF Live
  <2>2. Holders(k) = {} /\ states[k].waiters = <<>>
    BY <2>1, DeadUnused DEF Dead
  <2>3. states'[k].waiters = <<>> /\ states'[k].config.MaxConcurrent = 0
    BY <2>1 DEF ZeroState, NoConfig
  <2>4. Admission(k)!Forget
    BY <2>2, <2>3 DEF Admission!Forget
  <2> QED
    BY <2>4 DEF Admission!Next
<1> QED
  BY <1>1, <1>2

\* Acquire is an arrival, or an arrival turned away (limiter.go 94-118).
LEMMA AcquireFifo ==
  ASSUME Owned, NEW c \in Callers, NEW ch \in Channels, NEW cf \in Configs, Acquire(c, ch, cf)
  PROVE  \A k \in Channels : [Admission(k)!Next]_(Admission(k)!vars)
<1> DEFINE b == Configured(ch, cf)
           s == Served(ch, cf)
           g == Granted(b)
           h == Holders(ch)
           q == Queued(ch)
           w == states[ch].waiters
           l == cf.MaxConcurrent
<1>moved. AcquireMoved(c, ch, cf)
  BY AcquireMoves
<1>1. /\ Accounts(b, h, q) /\ h \cap q = {} /\ b.config = cf /\ b.waiters = w
      /\ Accounts(s, h \cup g, q \ g)
  BY <1>moved DEF AcquireMoved
<1>2. c \notin h /\ c \notin q /\ g \subseteq q
  BY <1>moved DEF AcquireMoved
<1>3. /\ b \in Entry /\ w \in Seq(Callers) /\ Elements(w) = q /\ s \in Entry
      /\ s.active = Cardinality(h \cup g) /\ Len(w) \in Nat
  BY <1>1, LenProperties DEF Accounts, Entry
<1>4. s = Grant(b)
  BY DEF Served
<1>5. l \in {p.MaxConcurrent : p \in Configs}
  OBVIOUS
<1>6. g = {w[i] : i \in 1..Grants(b)}
  BY <1>1 DEF Granted
<1>7. PICK n : Put(ch, n)
  BY DEF Acquire, AcquireFast, AcquireEnqueue, AcquireQueueFull
<1>8. \A k \in Channels \ {ch} : states'[k] \in {Live(k), states[k]} /\ Holders(k)' = Holders(k)
  BY <1>7, PutEntries, <1>moved DEF AcquireMoved
<1> HIDE DEF b, s, g
<1>9. /\ l \in Nat /\ Grants(b) \in 0..Len(w) /\ s.config = cf
      /\ s.waiters = SubSeq(w, Grants(b) + 1, Len(w)) /\ Len(s.waiters) = Len(w) - Grants(b)
      /\ Grants(b) > 0 => l = 0 \/ s.active <= l
      /\ s.waiters # <<>> => l # 0 /\ ~(s.active < l)
  BY <1>1, <1>3, <1>4, GrantBound
<1>10. [Admission(ch)!Next]_(Admission(ch)!vars)
  <2> DEFINE wc == Append(w, c)
  <2>1. /\ wc \in Seq(Callers) /\ Len(wc) = Len(w) + 1 /\ wc[Len(w) + 1] = c
        /\ \A i \in 1..Len(w) : wc[i] = w[i]
    BY <1>3, AppendProperties
  <2>2. (\A i \in DOMAIN w : w[i] # c) /\ c \notin Holders(ch)
    BY <1>2, <1>3, LenProperties DEF Elements
  <2>3. Admission(ch)!Serve(l, h, wc) => Admission(ch)!Next
    BY <1>5, <2>2 DEF Admission!Arrive, Admission!Next
  <2>4. CASE AcquireFast(c, ch, cf)
    <3>1. /\ states'[ch] = [s EXCEPT !.active = @ + 1] /\ s.waiters = <<>> /\ HasCapacity(s)
      BY <2>4, PutEntries DEF AcquireFast, Admissible, s
    <3>2. Holders(ch)' = h \cup g \cup {c}
      BY <2>4, <1>moved DEF AcquireMoved, g, b
    <3>3. Grants(b) = Len(w)
      BY <1>3, <1>9, <3>1, EmptySeq
    <3>4. /\ states'[ch].waiters = <<>> /\ states'[ch].config.MaxConcurrent = l
      BY <1>3, <1>9, <3>1 DEF Entry
    <3>5. Holders(ch)' = h \cup {wc[i] : i \in 1..(Len(w) + 1)}
      <4>1. {wc[i] : i \in 1..(Len(w) + 1)} = {w[i] : i \in 1..Len(w)} \cup {c}
        BY <1>3, <2>1
      <4> QED
        BY <1>6, <3>2, <3>3, <4>1
    <3>6. l = 0 \/ Cardinality(Holders(ch)') <= l
      <4>1. c \notin h \cup g /\ IsFiniteSet(h \cup g)
        BY <1>1, <1>2 DEF Accounts
      <4>2. Cardinality((h \cup g) \cup {c}) = s.active + 1
        BY <1>3, <4>1, FS_AddElement
      <4>3. s.active \in Int /\ (l = 0 \/ s.active < l)
        BY <1>3, <1>9, <3>1 DEF HasCapacity, Entry
      <4>4. Cardinality(Holders(ch)') = s.active + 1
        BY <3>2, <4>2
      <4> QED
        BY <1>9, <4>3, <4>4
    <3>7. SubSeq(wc, Len(w) + 2, Len(wc)) = <<>>
      <4>1. /\ SubSeq(wc, Len(w) + 2, Len(wc)) \in Seq(Callers)
            /\ Len(SubSeq(wc, Len(w) + 2, Len(wc)))
                 = IF Len(w) + 2 <= Len(wc) THEN Len(wc) - (Len(w) + 2) + 1 ELSE 0
        <5>1. \A i \in (Len(w) + 2)..Len(wc) : wc[i] \in Callers
          BY <1>3, <2>1
        <5> HIDE DEF wc
        <5> QED
          BY <1>3, <2>1, <5>1, SubSeqProperties
      <4> HIDE DEF wc
      <4>2. ~(Len(w) + 2 <= Len(wc))
        BY <1>3, <2>1
      <4> QED
        BY <4>1, <4>2, EmptySeq
    <3>8. Len(w) + 1 \in 0..Len(wc) /\ (Len(w) + 1) + 1 = Len(w) + 2
      BY <1>3, <2>1
    <3> HIDE DEF wc, w
    <3>9. Admission(ch)!Serve(l, h, wc)
      BY <1>9, <2>1, <3>4, <3>5, <3>6, <3>7, <3>8, ServeOnce
    <3> QED
      BY <2>3, <3>9
  <2>5. CASE AcquireEnqueue(c, ch, cf)
    <3>1. /\ states'[ch] = [s EXCEPT !.waiters = Append(@, c)] /\ ~Admissible(s)
      BY <2>5, PutEntries DEF AcquireEnqueue, s
    <3>2. Holders(ch)' = h \cup g
      BY <2>5, <1>moved DEF AcquireMoved, g, b
    <3>3. states'[ch].waiters = Append(s.waiters, c) /\ states'[ch].config.MaxConcurrent = l
      BY <1>3, <1>9, <3>1 DEF Entry
    <3>4. Holders(ch)' = h \cup {wc[i] : i \in 1..Grants(b)}
      <4>1. \A i \in 1..Grants(b) : wc[i] = w[i]
        BY <1>3, <1>9, <2>1
      <4>2. {wc[i] : i \in 1..Grants(b)} = {w[i] : i \in 1..Grants(b)}
        BY <4>1
      <4> QED
        BY <1>6, <3>2, <4>2
    <3>5. l # 0 /\ ~(s.active < l)
      BY <1>3, <1>9, <3>1 DEF Admissible, HasCapacity
    <3>6. states'[ch].waiters = SubSeq(wc, Grants(b) + 1, Len(wc))
      <4> DEFINE m == Grants(b)
                 a == Append(s.waiters, c)
                 r == SubSeq(wc, m + 1, Len(wc))
      <4>0. m \in 0..Len(w) /\ \A i \in (m + 1)..Len(w) : w[i] \in Callers
        BY <1>3, <1>9, ElementOfSeq
      <4> HIDE DEF m
      <4>1. /\ Len(s.waiters) = Len(w) - m
            /\ \A i \in 1..(Len(w) - m) : s.waiters[i] = w[m + i]
        <5>1. s.waiters = SubSeq(w, m + 1, Len(w)) /\ Len(s.waiters) = Len(w) - m
          BY <1>9 DEF m
        <5>2. \A i \in 1..(Len(w) - (m + 1) + 1) : SubSeq(w, m + 1, Len(w))[i] = w[m + 1 + i - 1]
          BY <1>3, <4>0, SubSeqProperties
        <5> HIDE DEF w
        <5>3. \A i \in 1..(Len(w) - m) : i \in 1..(Len(w) - (m + 1) + 1) /\ m + 1 + i - 1 = m + i
          BY <1>3, <4>0
        <5> QED
          BY <5>1, <5>2, <5>3
      <4>2. /\ a \in Seq(Callers) /\ Len(a) = Len(w) - m + 1 /\ a[Len(w) - m + 1] = c
            /\ \A i \in 1..(Len(w) - m) : a[i] = w[m + i]
        <5>1. s.waiters \in Seq(Callers)
          BY <1>3 DEF Entry
        <5> QED
          BY <4>1, <5>1, AppendProperties
      <4>3. /\ r \in Seq(Callers) /\ Len(r) = Len(w) - m + 1
            /\ \A i \in 1..(Len(w) - m + 1) : r[i] = wc[m + i]
        <5>1. \A i \in 1..Len(wc) : wc[i] \in Callers
          BY <2>1, ElementOfSeq
        <5> HIDE DEF wc, w
        <5>2. \A i \in (m + 1)..Len(wc) : wc[i] \in Callers
          BY <1>3, <2>1, <4>0, <5>1
        <5>3. /\ r \in Seq(Callers)
              /\ Len(r) = IF m + 1 <= Len(wc) THEN Len(wc) - (m + 1) + 1 ELSE 0
              /\ \A i \in 1..(Len(wc) - (m + 1) + 1) : r[i] = wc[m + 1 + i - 1]
          BY <1>3, <2>1, <4>0, <5>2, SubSeqProperties
        <5> HIDE DEF r
        <5>4. m + 1 <= Len(wc) /\ Len(wc) - (m + 1) + 1 = Len(w) - m + 1
          BY <1>3, <2>1, <4>0
        <5>5. \A i \in 1..(Len(w) - m + 1) : m + 1 + i - 1 = m + i
          BY <1>3, <4>0
        <5> QED
          BY <5>3, <5>4, <5>5
      <4> HIDE DEF a, r, w, wc
      <4>4. ASSUME NEW i \in 1..(Len(w) - m + 1) PROVE a[i] = r[i]
        <5>1. CASE i = Len(w) - m + 1
          <6>1. m + i = Len(w) + 1
            BY <1>3, <4>0, <5>1
          <6> QED
            BY <2>1, <4>2, <4>3, <5>1, <6>1
        <5>2. CASE i # Len(w) - m + 1
          <6>1. i \in 1..(Len(w) - m) /\ m + i \in 1..Len(w)
            BY <1>3, <4>0, <5>2
          <6> QED
            BY <2>1, <4>2, <4>3, <6>1
        <5> QED
          BY <5>1, <5>2
      <4>5. a = r
        BY <4>2, <4>3, <4>4, SeqEqual
      <4> QED
        BY <3>3, <4>5 DEF a, r, m
    <3>7. Grants(b) \in 0..Len(wc)
      BY <1>3, <1>9, <2>1
    <3>8. s.active = Cardinality(Holders(ch)')
      BY <1>3, <3>2
    <3> HIDE DEF wc, w
    <3>9. Admission(ch)!Serve(l, h, wc)
      BY <1>9, <2>1, <3>3, <3>4, <3>5, <3>6, <3>7, <3>8, ServeOnce
    <3> QED
      BY <2>3, <3>9
  <2>6. CASE AcquireQueueFull(c, ch, cf)
    <3>1. states'[ch] = Grant(b) /\ Holders(ch)' = h \cup Granted(b)
      BY <1>4, <2>6, PutEntries, <1>moved DEF AcquireMoved, AcquireQueueFull, s, b
    <3>2. Admission(ch)!Serve(l, h, w)
      BY <1>1, <3>1, ServeEntry
    <3> QED
      BY <1>5, <3>2 DEF Admission!TurnAway, Admission!Next
  <2> QED
    BY <2>4, <2>5, <2>6 DEF Acquire
<1>11. ASSUME NEW k \in Channels, k # ch PROVE [Admission(k)!Next]_(Admission(k)!vars)
  BY <1>8, <1>11, Elsewhere
<1> QED
  BY <1>10, <1>11

\* A caller that gives up its slot, or its place in the queue (limiter.go 134-148,
\* 162-174).
LEMMA HandOverFifo ==
  ASSUME Owned, NEW c \in Callers, NEW ch \in Channels, NEW s, GivesBack(c, ch, s),
         s.config = states[ch].config,
         \/ c \in Holders(ch) /\ s.waiters = states[ch].waiters
         \/ /\ c \notin Holders(ch) /\ c \in Queued(ch)
            /\ s.waiters = Without(states[ch].waiters, c)
  PROVE  \A k \in Channels : [Admission(k)!Next]_(Admission(k)!vars)
<1> DEFINE h == Holders(ch) \ {c}
           w == states[ch].waiters
           l == states[ch].config.MaxConcurrent
<1>0. HandedOver(c, ch, s)
  BY HandOverMoves
<1>1. /\ h \cap (Queued(ch) \ {c}) = {}
      /\ states'[ch] = Grant(s) /\ \A k \in Channels \ {ch} : states'[k] = states[k]
      /\ Local(c, ch) /\ Holders(ch)' = h \cup Granted(s)
  BY <1>0 DEF HandedOver
<1>2. Admission(ch)!Serve(l, h, s.waiters)
  BY <1>1, ServeEntry DEF GivesBack
<1>3. [Admission(ch)!Next]_(Admission(ch)!vars)
  <2>1. CASE c \in Holders(ch) /\ s.waiters = w
    BY <1>2, <2>1 DEF Admission!GiveBack, Admission!Next
  <2>2. CASE c \notin Holders(ch) /\ c \in Queued(ch) /\ s.waiters = Without(w, c)
    <3>1. w \in Seq(Callers) /\ Elements(w) = Queued(ch) /\ DOMAIN w = 1..Len(w)
      BY <1>1, LenProperties DEF Owned, Accounts, Entry
    <3>2. \E i \in DOMAIN w : w[i] = c
      BY <2>2, <3>1 DEF Elements
    <3>3. PICK i \in DOMAIN w : Without(w, c) = SubSeq(w, 1, i - 1) \o SubSeq(w, i + 1, Len(w))
      BY <3>2 DEF Without
    <3>4. h = Holders(ch)
      BY <2>2
    <3>5. Admission(ch)!Abandon(i)
      BY <1>2, <2>2, <3>3, <3>4 DEF Admission!Abandon
    <3> QED
      BY <3>5 DEF Admission!Next
  <2> QED
    BY <2>1, <2>2
<1>4. ASSUME NEW k \in Channels, k # ch PROVE [Admission(k)!Next]_(Admission(k)!vars)
  <2>1. states'[k] = states[k] /\ Holders(k)' = Holders(k)
    BY <1>1, <1>4, LocalOwners
  <2> QED
    BY <2>1, Elsewhere
<1> QED
  BY <1>3, <1>4

\* Permit.Release.
LEMMA ReleaseFifo ==
  ASSUME Owned, NEW c \in Callers, Release(c), pc[c] = "holding" \/ c \in ready
  PROVE  \A k \in Channels : [Admission(k)!Next]_(Admission(k)!vars)
<1> PICK ch \in Channels : chan[c] = ch
  BY DEF Owned, Inv, TypeOK
<1> DEFINE s == [states[ch] EXCEPT !.active = @ - 1]
<1>1. pc[c] # "idle" /\ states[ch] \in Entry
  BY DEF Owned, Inv, TypeOK
<1>2. ch \in keys
  BY <1>1 DEF Owned, LiveEntryKept
<1>3. HandOver(c, s) /\ Finish(c) /\ chan' = chan
  BY <1>2 DEF Release
<1>4. c \in Holders(ch) /\ c \notin Queued(ch)
  BY DEF Holders, Queued
<1>5. Accounts(s, Holders(ch) \ {c}, Queued(ch) \ {c})
  <2>1. Accounts(states[ch], Holders(ch), Queued(ch)) /\ Queued(ch) \ {c} = Queued(ch)
    BY <1>1, <1>4 DEF Owned
  <2> QED
    BY <1>4, <2>1, Accounting
<1>6. s.config = states[ch].config /\ s.waiters = states[ch].waiters
  BY <1>1 DEF Entry
<1>7. c \in Holders(ch) /\ s.waiters = states[ch].waiters
  BY <1>4, <1>6
<1> HIDE DEF s
<1> QED
  BY <1>1, <1>3, <1>5, <1>6, <1>7, HandOverFifo DEF GivesBack

\* The locked section of a caller that stopped waiting, with or without a grant.
LEMMA LeaveFifo ==
  ASSUME Owned, NEW c \in Callers, LeaveQueue(c)
  PROVE  \A k \in Channels : [Admission(k)!Next]_(Admission(k)!vars)
<1> PICK ch \in Channels : chan[c] = ch
  BY DEF Owned, Inv, TypeOK
<1> DEFINE s == states[ch]
           n == IF c \in ready THEN [s EXCEPT !.active = @ - 1]
                ELSE [s EXCEPT !.waiters = Without(@, c)]
<1>1. pc[c] = "leaving" /\ s \in Entry
  BY DEF Owned, Inv, TypeOK, LeaveQueue
<1>2. HandOver(c, n) /\ Finish(c) /\ chan' = chan
  BY DEF LeaveQueue
<1>3. Accounts(n, Holders(ch) \ {c}, Queued(ch) \ {c})
  BY <1>1, LeavingAccounts
<1>4. n.config = s.config
  BY <1>1 DEF Entry
<1>5. \/ c \in Holders(ch) /\ n.waiters = s.waiters
      \/ c \notin Holders(ch) /\ c \in Queued(ch) /\ n.waiters = Without(s.waiters, c)
  <2>1. CASE c \in ready
    <3>1. c \in Holders(ch)
      BY <2>1 DEF Holders
    <3>2. n.waiters = s.waiters
      BY <1>1, <2>1 DEF Entry
    <3> QED
      BY <3>1, <3>2
  <2>2. CASE c \notin ready
    <3>1. c \notin Holders(ch) /\ c \in Queued(ch)
      BY <1>1, <2>2 DEF Holders, Queued
    <3>2. n.waiters = Without(s.waiters, c)
      BY <1>1, <2>2 DEF Entry
    <3> QED
      BY <3>1, <3>2
  <2> QED
    BY <2>1, <2>2
<1> HIDE DEF n
<1> QED
  BY <1>1, <1>2, <1>3, <1>4, <1>5, HandOverFifo DEF GivesBack

\* A caller on its own moves no slot and no queue.
LEMMA QuietFifo ==
  ASSUME Owned, UNCHANGED <<states, chan>>,
         \A c \in Callers : (pc'[c] = "holding" \/ c \in ready') <=> (pc[c] = "holding" \/ c \in ready)
  PROVE  \A k \in Channels : [Admission(k)!Next]_(Admission(k)!vars)
<1>1. \A k \in Channels : Holders(k)' = Holders(k)
  BY DEF Holders
<1> QED
  BY <1>1, Elsewhere

\* The window is no part of the queue; the sweep that comes with it is (limiter.go 67-92).
LEMMA RateFifo ==
  ASSUME Owned, NEW ch \in Channels,
         RecordUsage(ch) \/ \E c \in Callers : chan[c] = ch /\ TryRequest(c)
  PROVE  \A k \in Channels : [Admission(k)!Next]_(Admission(k)!vars)
<1> DEFINE s == Window(Live(ch))
<1>1. /\ Live(ch) \in Entry /\ s \in Entry /\ s.config = Live(ch).config /\ s.waiters = Live(ch).waiters
  <2>1. Live(ch) \in Entry /\ s \in Entry
    BY LiveAccounts, WindowServed DEF ServedEntry, Owned
  <2> QED
    BY <2>1 DEF Window, Entry
<1>2. \A k \in Channels : Holders(k)' = Holders(k)
  BY DEF RecordUsage, TryRequest, Holders
<1> HIDE DEF s
<1>3. PICK n : Put(ch, n) /\ n.config = s.config /\ n.waiters = s.waiters
  <2>1. PICK n : /\ Put(ch, n)
                 /\ \/ n = s
                    \/ \E x : n = [s EXCEPT !.unknown = x]
                    \/ \E x : n = [s EXCEPT !.tokens = x]
                    \/ \E x : n = [s EXCEPT !.requests = x]
    BY UpdatesWindow DEF s
  <2> QED
    BY <1>1, <2>1 DEF Entry
<1>4. states'[ch] = n /\ \A k \in Channels \ {ch} : states'[k] \in {Live(k), states[k]}
  BY <1>3, PutEntries
<1>5. ASSUME NEW k \in Channels PROVE [Admission(k)!Next]_(Admission(k)!vars)
  <2>1. PICK m \in {Live(k), states[k]} : states'[k].config = m.config /\ states'[k].waiters = m.waiters
    BY <1>1, <1>3, <1>4
  <2> QED
    BY <1>2, <2>1, Elsewhere
<1> QED
  BY <1>5

LEMMA FifoNext ==
  Owned /\ [Next]_vars => \A ch \in Channels : [Admission(ch)!Next]_(Admission(ch)!vars)
<1> DEFINE F == \A ch \in Channels : [Admission(ch)!Next]_(Admission(ch)!vars)
<1> SUFFICES ASSUME Owned, [Next]_vars PROVE F
  OBVIOUS
<1>0. TypeOK
  BY DEF Owned, Inv
<1>1. CASE UNCHANGED vars
  BY <1>1, QuietFifo DEF vars
<1>2. ASSUME NEW c \in Callers, NEW ch \in Channels, NEW cf \in Configs, Acquire(c, ch, cf)
      PROVE  F
  BY <1>2, AcquireFifo
<1>3. ASSUME NEW c \in Callers, EndAttempt(c) PROVE F
  BY <1>3, ReleaseFifo DEF EndAttempt
<1>4. ASSUME NEW c \in Callers, TakeGrant(c) PROVE F
  <2>1. CASE Release(c)
    BY <1>4, <2>1, ReleaseFifo DEF TakeGrant
  <2>2. CASE ~Release(c)
    <3>1. /\ c \in ready /\ pc' = [pc EXCEPT ![c] = "holding"] /\ ready' = ready \ {c}
          /\ UNCHANGED <<states, chan>>
      BY <1>4, <2>2 DEF TakeGrant
    <3>2. \A d \in Callers : (pc'[d] = "holding" \/ d \in ready') <=> (pc[d] = "holding" \/ d \in ready)
      BY <1>0, <3>1 DEF TypeOK
    <3> QED
      BY <3>1, <3>2, QuietFifo
  <2> QED
    BY <2>1, <2>2
<1>5. ASSUME NEW c \in Callers, StopWaiting(c) PROVE F
  <2>1. \A d \in Callers : (pc'[d] = "holding" \/ d \in ready') <=> (pc[d] = "holding" \/ d \in ready)
    BY <1>0, <1>5 DEF StopWaiting, TypeOK
  <2> QED
    BY <1>5, <2>1, QuietFifo DEF StopWaiting
<1>6. ASSUME NEW c \in Callers, LeaveQueue(c) PROVE F
  BY <1>6, LeaveFifo
<1>7. ASSUME NEW c \in Callers, TryRequest(c) PROVE F
  BY <1>0, <1>7, RateFifo DEF TypeOK
<1>8. ASSUME NEW c \in Callers, CancelRequest(c) PROVE F
  BY <1>8, QuietFifo DEF CancelRequest
<1>9. ASSUME NEW ch \in Channels, RecordUsage(ch) PROVE F
  BY <1>9, RateFifo
<1>10. ASSUME NextMinute PROVE F
  BY <1>10, QuietFifo DEF NextMinute
<1> HIDE DEF F
<1> QED
  BY <1>1, <1>2, <1>3, <1>4, <1>5, <1>6, <1>7, <1>8, <1>9, <1>10 DEF Next

\* The limiter implements one FIFO admission queue per channel: slots go out in arrival
\* order, never beyond the limit in force and never withheld while one is free, however
\* many callers race, leave or change the policy, and a swept entry is a channel that
\* forgets its policy (limiter.go 67-174).
THEOREM FifoAdmissionImplemented == Spec => FifoPerChannel
<1>1. Init => \A ch \in Channels : Admission(ch)!Init
  BY DEF Admission!Init, Init, Holders, ZeroState, NoConfig
<1>2. Owned /\ [Next]_vars => [\A ch \in Channels : [Admission(ch)!Next]_(Admission(ch)!vars)]_vars
  BY FifoNext
<1>3. Spec => [][\A ch \in Channels : [Admission(ch)!Next]_(Admission(ch)!vars)]_vars
  BY <1>2, OwnedHolds, PTL DEF Spec
<1> QED
  BY <1>1, <1>3, PTL DEF Spec, FifoPerChannel
=============================================================================
