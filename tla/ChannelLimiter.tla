--------------------------- MODULE ChannelLimiter ---------------------------
(***************************************************************************)
(* Admission control of direct channels inside one gateway process         *)
(* (internal/channellimit, called from handler/proxy/channel_limits.go).   *)
(* A Manager holds one record per channel: the active count, a FIFO of     *)
(* blocked callers and the request window of the current natural minute.   *)
(* Every critical section of the Go mutex is one action here; a caller     *)
(* blocked in Acquire is the only place where other callers run between    *)
(* two of its steps.                                                       *)
(***************************************************************************)
EXTENDS Integers, Sequences, FiniteSets

CONSTANTS
  Callers,    \* logical requests that want a channel, one attempt at a time
  Channels,   \* channel ids
  Configs,    \* policies an attempt may carry
  Usages,     \* measured token totals of one attempt
  MaxInt64,   \* where the token counter saturates
  MaxMinute,  \* bound: the clock stops here
  MaxUnknown  \* bound: attempts of unknown usage in one minute

\* Timed stands for QueueTimeoutMs > 0.
Config == [MaxConcurrent : Nat, QueueSize : Nat, RPM : Nat, TPM : Nat, Timed : BOOLEAN]
Enabled(cf) == cf.RPM > 0 \/ cf.TPM > 0 \/ cf.MaxConcurrent > 0
ASSUME ChannelsAssumption == Channels # {}
ASSUME ConfigsAssumption == Configs \subseteq Config
ASSUME CountersAssumption == MaxInt64 \in Nat /\ MaxMinute \in Nat /\ Usages \subseteq Int

VARIABLES
  clock,        \* natural minute of the wall clock (assumed not to go back)
  sweptMinute,
  keys,         \* channels that have an entry in Manager.states
  states,       \* the entry of a channel; ZeroState when it has none
  pc,           \* where a caller is
  chan, cfg,    \* channel and policy of a caller's present attempt
  ready,        \* callers whose waiter channel is closed (slot granted)
  done,         \* callers whose request context is cancelled
  sent          \* history: attempts accepted under an RPM limit this minute

vars == <<clock, sweptMinute, keys, states, pc, chan, cfg, ready, done, sent>>

NoConfig == [MaxConcurrent |-> 0, QueueSize |-> 0, RPM |-> 0, TPM |-> 0, Timed |-> FALSE]
ZeroState == [config |-> NoConfig, active |-> 0, waiters |-> <<>>,
              minute |-> 0, requests |-> 0, tokens |-> 0, unknown |-> 0]

-----------------------------------------------------------------------------
(* Helpers that run under the mutex *)

\* Callers that own a slot of ch: a permit, or a grant they have not seen yet.
Holders(ch) == {c \in Callers : chan[c] = ch /\ (pc[c] = "holding" \/ c \in ready)}

\* Callers whose waiter is still in the queue of ch.
Queued(ch) == {c \in Callers : chan[c] = ch /\ pc[c] \in {"waiting", "leaving"} /\ c \notin ready}

\* Operators named ..._Bug are variants with one plausible mistake. No
\* specification uses them: they show that the properties would notice.
Dead_Bug == IF sweptMinute = clock THEN {}
            ELSE {k \in keys : states[k].waiters = <<>> /\ states[k].minute < clock}

\* Entries that the lazy sweep of get deletes, at most once a minute.
Dead == IF sweptMinute = clock THEN {}
        ELSE {k \in keys : /\ states[k].active = 0
                           /\ states[k].waiters = <<>>
                           /\ states[k].minute < clock}

Live(k) == IF k \in Dead THEN ZeroState ELSE states[k]

\* get(ch), after which the entry of ch becomes s.
Put(ch, s) ==
  /\ states' = [k \in Channels |-> IF k = ch THEN s ELSE Live(k)]
  /\ keys' = (keys \ Dead) \cup {ch}
  /\ sweptMinute' = clock

HasCapacity(s) == s.config.MaxConcurrent = 0 \/ s.active < s.config.MaxConcurrent

\* How many waiters the loop of grant takes from the front of the queue.
Grants(s) ==
  LET free == s.config.MaxConcurrent - s.active
  IN IF s.config.MaxConcurrent = 0 \/ free > Len(s.waiters) THEN Len(s.waiters)
     ELSE IF free < 0 THEN 0 ELSE free

Grant(s) == [s EXCEPT !.active = @ + Grants(s),
                      !.waiters = SubSeq(@, Grants(s) + 1, Len(@))]
Granted(s) == {s.waiters[i] : i \in 1..Grants(s)}

\* waiters.Remove: nothing happens when the element is no longer in the list.
Without(q, c) ==
  IF \A i \in DOMAIN q : q[i] # c THEN q
  ELSE LET i == CHOOSE j \in DOMAIN q : q[j] = c
       IN SubSeq(q, 1, i - 1) \o SubSeq(q, i + 1, Len(q))

Window_Bug(s) == [s EXCEPT !.minute = clock]

Window(s) == IF s.minute = clock THEN s
             ELSE [s EXCEPT !.minute = clock, !.requests = 0, !.tokens = 0, !.unknown = 0]

\* The call is over and its waiter and permit are garbage.
Finish(c) ==
  /\ pc' = [pc EXCEPT ![c] = "idle"]
  /\ cfg' = [cfg EXCEPT ![c] = NoConfig]
  /\ done' = done \ {c}

-----------------------------------------------------------------------------
(* Actions of a caller *)

Configured(ch, cf) == [Live(ch) EXCEPT !.config = cf]
Served_Bug(ch, cf) == Configured(ch, cf)
Served(ch, cf) == Grant(Configured(ch, cf))

Admissible(s) == s.waiters = <<>> /\ HasCapacity(s)
QueueFull(s) == s.config.QueueSize > 0 /\ Len(s.waiters) >= s.config.QueueSize

BeginAcquire(c, ch, cf) ==
  /\ pc[c] = "idle"
  /\ chan' = [chan EXCEPT ![c] = ch]
  /\ cfg' = [cfg EXCEPT ![c] = cf]
  /\ ready' = ready \cup Granted(Configured(ch, cf))
  /\ UNCHANGED <<clock, done, sent>>

AcquireFast(c, ch, cf) ==
  LET s == Served(ch, cf) IN
  /\ Admissible(s)
  /\ BeginAcquire(c, ch, cf)
  /\ Put(ch, [s EXCEPT !.active = @ + 1])
  /\ pc' = [pc EXCEPT ![c] = "holding"]

AcquireQueueFull(c, ch, cf) ==
  LET s == Served(ch, cf) IN
  /\ pc[c] = "idle"
  /\ ~Admissible(s) /\ QueueFull(s)
  /\ Put(ch, s)
  /\ ready' = ready \cup Granted(Configured(ch, cf))
  /\ UNCHANGED <<clock, pc, chan, cfg, done, sent>>

AcquireEnqueue_Bug(c, ch, cf) ==
  LET s == Served(ch, cf) IN
  /\ ~Admissible(s) /\ ~QueueFull(s)
  /\ BeginAcquire(c, ch, cf)
  /\ Put(ch, [s EXCEPT !.waiters = <<c>> \o @])
  /\ pc' = [pc EXCEPT ![c] = "waiting"]

AcquireEnqueue(c, ch, cf) ==
  LET s == Served(ch, cf) IN
  /\ ~Admissible(s) /\ ~QueueFull(s)
  /\ BeginAcquire(c, ch, cf)
  /\ Put(ch, [s EXCEPT !.waiters = Append(@, c)])
  /\ pc' = [pc EXCEPT ![c] = "waiting"]

\* c hands over the entry s of its channel, and the queue is served.
HandOver(c, s) ==
  /\ states' = [states EXCEPT ![chan[c]] = Grant(s)]
  /\ ready' = (ready \ {c}) \cup Granted(s)

Release_Bug(c) ==
  /\ states' = [states EXCEPT ![chan[c]].active = @ - 1] /\ ready' = ready \ {c}
  /\ Finish(c)
  /\ UNCHANGED <<clock, sweptMinute, keys, chan, sent>>

\* Permit.Release: nothing to do when the entry is gone.
Release(c) ==
  /\ IF chan[c] \in keys
     THEN HandOver(c, [states[chan[c]] EXCEPT !.active = @ - 1])
     ELSE states' = states /\ ready' = ready \ {c}
  /\ Finish(c)
  /\ UNCHANGED <<clock, sweptMinute, keys, chan, sent>>

EndAttempt(c) == pc[c] = "holding" /\ Release(c)

\* select takes <-w.ready; a context that is done by then gives the slot back.
TakeGrant(c) ==
  /\ pc[c] = "waiting" /\ c \in ready
  /\ \/ /\ c \notin done
        /\ pc' = [pc EXCEPT ![c] = "holding"]
        /\ ready' = ready \ {c}
        /\ UNCHANGED <<clock, sweptMinute, keys, states, chan, cfg, done, sent>>
     \/ c \in done /\ Release(c)

\* select takes <-waitCtx.Done(), also when the waiter is ready as well.
StopWaiting(c) ==
  /\ pc[c] = "waiting"
  /\ c \in done \/ cfg[c].Timed
  /\ pc' = [pc EXCEPT ![c] = "leaving"]
  /\ UNCHANGED <<clock, sweptMinute, keys, states, chan, cfg, ready, done, sent>>

LeaveQueue_Bug(c) ==
  /\ pc[c] = "leaving"
  /\ HandOver(c, [states[chan[c]] EXCEPT !.waiters = Without(@, c)])
  /\ Finish(c)
  /\ UNCHANGED <<clock, sweptMinute, keys, chan, sent>>

\* The locked section after Done: a grant may have come in between.
LeaveQueue(c) ==
  LET s == states[chan[c]] IN
  /\ pc[c] = "leaving"
  /\ HandOver(c,
       IF c \in ready THEN [s EXCEPT !.active = @ - 1]
       ELSE [s EXCEPT !.waiters = Without(@, c)])
  /\ Finish(c)
  /\ UNCHANGED <<clock, sweptMinute, keys, chan, sent>>

\* TryRequest, reached through prepareChannelRateAttempt with a permit held.
TryRequest(c) ==
  LET ch == chan[c]
      s == Window(Live(ch))
  IN /\ pc[c] = "holding" /\ c \notin done
     /\ Enabled(cfg[c])
     /\ IF cfg[c].RPM = 0 \/ s.requests >= cfg[c].RPM
        THEN Put(ch, s) /\ UNCHANGED sent
        ELSE /\ Put(ch, [s EXCEPT !.requests = @ + 1])
             /\ sent' = [sent EXCEPT ![ch] = @ + 1]
     /\ UNCHANGED <<clock, pc, chan, cfg, ready, done>>

RecordUsage_Bug(ch) ==
  LET s == Window(Live(ch)) IN
  /\ \/ s.unknown < MaxUnknown /\ Put(ch, [s EXCEPT !.unknown = @ + 1])
     \/ \E tokens \in Usages : Put(ch, [s EXCEPT !.tokens = @ + tokens])
  /\ UNCHANGED <<clock, pc, chan, cfg, ready, done, sent>>

\* RecordUsage; it may come after the permit is gone.
RecordUsage(ch) ==
  LET s == Window(Live(ch)) IN
  /\ \/ s.unknown < MaxUnknown /\ Put(ch, [s EXCEPT !.unknown = @ + 1])
     \/ \E tokens \in Usages :
          Put(ch, IF tokens <= 0 THEN s
                  ELSE [s EXCEPT !.tokens = IF tokens > MaxInt64 - @ THEN MaxInt64
                                            ELSE @ + tokens])
  /\ UNCHANGED <<clock, pc, chan, cfg, ready, done, sent>>

ExhaustedBy_Bug(ch, cf) ==
  IF cf.RPM > 0 /\ states[ch].requests >= cf.RPM THEN "rpm" ELSE "none"

\* Snapshot(ch, cf) as the selector reads it: why the channel would be skipped.
ExhaustedBy(ch, cf) ==
  LET s == states[ch]
      now == s.minute = clock
  IN CASE cf.RPM > 0 /\ now /\ s.requests >= cf.RPM -> "rpm"
       [] cf.TPM > 0 /\ now /\ s.tokens >= cf.TPM -> "tpm"
       [] /\ cf.MaxConcurrent > 0 /\ s.active >= cf.MaxConcurrent
          /\ QueueFull([s EXCEPT !.config = cf]) -> "queue"
       [] OTHER -> "none"

-----------------------------------------------------------------------------
(* Environment *)

\* The client goes away, at any moment of the attempt.
CancelRequest(c) ==
  /\ pc[c] # "idle" /\ c \notin done
  /\ done' = done \cup {c}
  /\ UNCHANGED <<clock, sweptMinute, keys, states, pc, chan, cfg, ready, sent>>

NextMinute ==
  /\ clock < MaxMinute
  /\ clock' = clock + 1
  /\ sent' = [ch \in Channels |-> 0]
  /\ UNCHANGED <<sweptMinute, keys, states, pc, chan, cfg, ready, done>>

Init ==
  /\ clock = 1 /\ sweptMinute = 0
  /\ keys = {} /\ states = [ch \in Channels |-> ZeroState]
  /\ pc = [c \in Callers |-> "idle"]
  /\ chan = [c \in Callers |-> CHOOSE ch \in Channels : TRUE]
  /\ cfg = [c \in Callers |-> NoConfig]
  /\ ready = {} /\ done = {}
  /\ sent = [ch \in Channels |-> 0]

Acquire(c, ch, cf) == \/ AcquireFast(c, ch, cf)
                      \/ AcquireQueueFull(c, ch, cf)
                      \/ AcquireEnqueue(c, ch, cf)

Next ==
  \/ \E c \in Callers :
       \/ \E ch \in Channels, cf \in Configs : Acquire(c, ch, cf)
       \/ EndAttempt(c) \/ TakeGrant(c) \/ StopWaiting(c) \/ LeaveQueue(c)
       \/ TryRequest(c) \/ CancelRequest(c)
  \/ \E ch \in Channels : RecordUsage(ch)
  \/ NextMinute

Spec == Init /\ [][Next]_vars

\* Attempts end (their transport is bounded by timeouts) and a runnable
\* goroutine is scheduled. Nothing makes a client cancel or a timer matter.
Fairness == \A c \in Callers : WF_vars(EndAttempt(c)) /\ WF_vars(TakeGrant(c)) /\ WF_vars(LeaveQueue(c))
FairSpec == Spec /\ Fairness

-----------------------------------------------------------------------------
(* Properties *)

\* Every variable keeps its shape and the token counter saturates at MaxInt64
\* (limiter.go 208-212). SlotAccounting says more about active.
Entry == [config : Config, active : Int, waiters : Seq(Callers),
          minute : Nat, requests : Nat, tokens : 0..MaxInt64, unknown : Nat]
TypeOK ==
  /\ clock \in Nat /\ sweptMinute \in Nat
  /\ keys \subseteq Channels /\ states \in [Channels -> Entry]
  /\ pc \in [Callers -> {"idle", "waiting", "leaving", "holding"}]
  /\ chan \in [Callers -> Channels] /\ cfg \in [Callers -> Config]
  /\ ready \subseteq Callers /\ done \subseteq Callers
  /\ sent \in [Channels -> Nat]

\* The active counter is exactly the number of slots that callers own, and the
\* queue holds exactly the callers that are blocked without one, each once,
\* although grants, cancellations and releases of different callers race: nobody
\* is forgotten, nobody is granted after leaving (limiter.go 126-148).
SlotAccounting == \A ch \in Channels :
  LET q == states[ch].waiters IN
  /\ states[ch].active = Cardinality(Holders(ch))
  /\ {q[i] : i \in DOMAIN q} = Queued(ch)
  /\ Len(q) = Cardinality(Queued(ch))

\* No lost wakeup: outside the mutex a queue is nonempty only while the channel
\* has no free slot, also after a policy change (grant, limiter.go 153-160).
WorkConserving == \A ch \in Channels :
  states[ch].waiters # <<>> => ~HasCapacity(states[ch])

\* The lazy sweep never deletes the entry of a channel that a blocked caller or a
\* permit refers to (get, limiter.go 67-85).
LiveEntryKept == \A c \in Callers : pc[c] # "idle" => chan[c] \in keys

\* The request window of a channel is exactly the number of attempts accepted under
\* an RPM limit this minute: neither a sweep nor a late usage record of an earlier
\* attempt loses or duplicates one (window and TryRequest, limiter.go 87-92, 179-194).
RateWindowExact == \A ch \in Channels :
  sent[ch] = IF states[ch].minute = clock THEN states[ch].requests ELSE 0

\* Routing and dispatch agree: a channel that a snapshot calls exhausted by its
\* queue or its RPM would turn the same policy away (limiter.go 216-255 against
\* 104-115 and 185-189), although only dispatch moves the window and the queue.
SnapshotAgrees == \A ch \in Channels, cf \in Configs :
  /\ ExhaustedBy(ch, cf) = "queue" => ~Admissible(Served(ch, cf)) /\ QueueFull(Served(ch, cf))
  /\ ExhaustedBy(ch, cf) = "rpm" => Window(Live(ch)).requests >= cf.RPM

\* Each channel is a FIFO admission queue: slots go out in arrival order and a
\* caller never overtakes a waiting one (limiter.go 107, 151-160).
Admission(ch) == INSTANCE FifoAdmission WITH
  Limits <- {cf.MaxConcurrent : cf \in Configs},
  limit <- states[ch].config.MaxConcurrent,
  holders <- Holders(ch),
  queue <- states[ch].waiters
FifoPerChannel ==
  /\ \A ch \in Channels : Admission(ch)!Init
  /\ [][\A ch \in Channels : [Admission(ch)!Next]_(Admission(ch)!vars)]_vars

\* Under the fairness above every blocked caller stops waiting, with no timeout
\* and no cancellation to help it (FIFO and grant-on-release).
WaitersServed == \A c \in Callers : pc[c] = "waiting" ~> pc[c] # "waiting"
=============================================================================
