------------------------ MODULE DownstreamKey_proofs ------------------------
(***************************************************************************)
(* Proofs about a downstream key: its state is well formed, its quota of   *)
(* requests holds in every window, a lost usage closes it, and the windows *)
(* of requests and tokens hold, the shared ones and those of a process.    *)
(***************************************************************************)
EXTENDS DownstreamKey, DataLemmas

USE RequestsAssumption, QuotaAssumption, AdmissionAssumption

-----------------------------------------------------------------------------
(* Steps of a request *)

\* What any step of a request does to the request itself: it moves to a label,
\* and the settings, the clock and the homes stay.
Moves(r) == /\ UNCHANGED <<key, now, home>>
            /\ Fault \/ UNCHANGED faults
            /\ \E l \in Labels : Goto(r, l)

LEMMA StepMoves ==
  ASSUME RequestsTypeOK, NEW r \in Requests, RequestStep(r)
  PROVE  Moves(r)
<1> USE DEF RequestsTypeOK, Moves, Goto, Labels
<1>1. CASE Authorize(r) \/ BeginReserve(r) \/ RefuseQuota(r) \/ ReserveFails(r)
  BY <1>1 DEF Authorize, BeginReserve, RefuseQuota, ReserveFails
<1>2. ASSUME NEW n \in Estimates, Reserve(r, n) \/ ReserveUnacknowledged(r, n) \/ Arrive(r, n) PROVE Moves(r)
  BY <1>2 DEF Reserve, ReserveUnacknowledged, Arrive
<1>3. CASE RefuseAddress(r) \/ Unlimited(r) \/ RpmFailsOpen(r) \/ TpmFailsOpen(r)
  BY <1>3 DEF RefuseAddress, Unlimited, RpmFailsOpen, TpmFailsOpen, Leave, LeaveUnless, AfterRpm
<1>4. ASSUME NEW a \in BOOLEAN, NEW b \in BOOLEAN, IncrementRpm(r, a, b) \/ IncrementTpm(r, a, b) PROVE Moves(r)
  BY <1>4 DEF IncrementRpm, IncrementTpm, AfterRpm
<1>5. ASSUME NEW b \in BOOLEAN,
             Decide(r, b) \/ UndoTpm(r, b) \/ UndoRpm(r, b) \/ RecordAdmission(r, b) \/ Disable(r, b)
      PROVE  Moves(r)
  BY <1>5 DEF Decide, UndoTpm, UndoRpm, RecordAdmission, Disable, Leave, LeaveUnless
<1>6. CASE Consume(r) \/ ConsumeFails(r) \/ RecordFails(r) \/ Finish(r) \/ Release(r) \/ ReleaseFails(r)
  BY <1>6 DEF Consume, ConsumeFails, RecordFails, Finish, Release, ReleaseFails, Leave
<1>7. ASSUME NEW n \in Usages \cup {Unknown}, RecordUsage(r, n) PROVE Moves(r)
  <2>1. pc' = [pc EXCEPT ![r] = "running"]
    BY <1>7 DEF RecordUsage, requestVars
  <2> QED BY <1>7, <2>1 DEF RecordUsage, requestVars
<1> QED BY <1>1, <1>2, <1>3, <1>4, <1>5, <1>6, <1>7 DEF RequestStep

LEMMA RequestsType ==
  ASSUME RequestsTypeOK, [Next]_vars
  PROVE  RequestsTypeOK'
<1> USE DEF RequestsTypeOK
<1>1. ASSUME NEW r \in Requests, RequestStep(r) PROVE RequestsTypeOK'
  <2>1. Moves(r)
    BY <1>1, StepMoves
  <2> QED BY <2>1 DEF Moves, Goto, Fault
<1>2. ASSUME NEW g \in Gateways, Crash(g) PROVE RequestsTypeOK'
  BY <1>2 DEF Crash, Fault, Labels
<1>3. ASSUME NEW d \in Dimensions, MinuteEnds(d) PROVE RequestsTypeOK'
  BY <1>3 DEF MinuteEnds, requestVars
<1>4. CASE Tick
  BY <1>4 DEF Tick
<1>5. CASE UNCHANGED vars
  BY <1>5 DEF vars, requestVars
<1> QED BY <1>1, <1>2, <1>3, <1>4, <1>5 DEF Next

-----------------------------------------------------------------------------
(* Steps seen from the quota *)

To(r, l) == UNCHANGED <<key, now>> /\ pc' = [pc EXCEPT ![r] = l]

\* A request that takes part in admission or runs, without touching holds or usage.
Quiet(r) ==
  /\ \E l \in Labels \ {"new", "summing"} : To(r, l) /\ (l = "read" => pc[r] = "new")
  /\ pc[r] \notin {"summing", "ended", "crashed"}
  /\ enabled' \in BOOLEAN
  /\ UNCHANGED <<holds, usage, locked, sums, admitted, overlooked, lost>>
Begins(r) == pc[r] = "read" /\ To(r, "summing") /\ SumUsage(r)
Enters(r) == pc[r] = "summing" /\ (To(r, "admit") \/ To(r, "ended")) /\ \E n \in Estimates : InsertHold(r, n)
GivesUp(r) == pc[r] = "summing" /\ To(r, "ended") /\ RollBack(r)
Settles(r) == pc[r] = "running" /\ To(r, "running") /\ \E n \in Usages \cup {Unknown} : InsertUsage(r, n)
Loses(r) == pc[r] = "running" /\ To(r, "disabling") /\ UsageLost(r)
Frees(r) == pc[r] = "done" /\ To(r, "ended") /\ DeleteHold(r)

Others == UNCHANGED <<key, pc, quotaVars>> /\ now' \in 0..MaxTime[key] /\ now <= now'
Dies == /\ \E g \in Gateways :
             /\ pc' = [q \in Requests |-> IF home[q] = g /\ InProgress(q) THEN "crashed" ELSE pc[q]]
             /\ IF locked # NoRequest /\ home[locked] = g THEN RollBack(locked) ELSE UNCHANGED quotaVars
        /\ UNCHANGED <<key, now>>

LEMMA QuotaSteps ==
  ASSUME RequestsTypeOK, QuotaTypeOK, NEW r \in Requests, RequestStep(r)
  PROVE  \/ Quiet(r) \/ Begins(r) \/ Enters(r) \/ GivesUp(r) \/ Settles(r) \/ Loses(r) \/ Frees(r)
<1> USE DEF RequestsTypeOK, QuotaTypeOK, Goto, To, Labels
<1>1. CASE Authorize(r) \/ BeginReserve(r) \/ RefuseQuota(r) \/ ReserveFails(r)
  BY <1>1 DEF Authorize, BeginReserve, RefuseQuota, ReserveFails, Quiet, Begins, GivesUp, quotaVars
<1>2. ASSUME NEW n \in Estimates, Reserve(r, n) \/ ReserveUnacknowledged(r, n) \/ Arrive(r, n)
      PROVE  Quiet(r) \/ Enters(r)
  BY <1>2 DEF Reserve, ReserveUnacknowledged, Arrive, Quiet, Enters, quotaVars
<1>3. CASE RefuseAddress(r) \/ Unlimited(r) \/ RpmFailsOpen(r) \/ TpmFailsOpen(r)
  BY <1>3 DEF RefuseAddress, Unlimited, RpmFailsOpen, TpmFailsOpen, Leave, LeaveUnless, AfterRpm, Quiet, quotaVars
<1>4. ASSUME NEW a \in BOOLEAN, NEW b \in BOOLEAN, IncrementRpm(r, a, b) \/ IncrementTpm(r, a, b) PROVE Quiet(r)
  BY <1>4 DEF IncrementRpm, IncrementTpm, AfterRpm, Quiet, quotaVars
<1>5. ASSUME NEW b \in BOOLEAN,
             Decide(r, b) \/ UndoTpm(r, b) \/ UndoRpm(r, b) \/ RecordAdmission(r, b) \/ Disable(r, b)
      PROVE  Quiet(r)
  BY <1>5 DEF Decide, UndoTpm, UndoRpm, RecordAdmission, Disable, DisableKey, Leave, LeaveUnless, Quiet, quotaVars
<1>6. CASE Consume(r) \/ ConsumeFails(r) \/ Finish(r) \/ ReleaseFails(r)
  BY <1>6 DEF Consume, ConsumeFails, Finish, ReleaseFails, Leave, Quiet, quotaVars
<1>7. CASE RecordFails(r) \/ Release(r)
  BY <1>7 DEF RecordFails, Release, Loses, Frees
<1>8. ASSUME NEW n \in Usages \cup {Unknown}, RecordUsage(r, n) PROVE Settles(r)
  <2>1. pc' = [pc EXCEPT ![r] = "running"] /\ UNCHANGED <<key, now>>
    BY <1>8 DEF RecordUsage, requestVars
  <2> QED BY <1>8, <2>1 DEF RecordUsage, Settles
<1> QED BY <1>1, <1>2, <1>3, <1>4, <1>5, <1>6, <1>7, <1>8 DEF RequestStep

LEMMA OtherSteps ==
  ASSUME RequestsTypeOK, [Next]_vars
  PROVE  (\E r \in Requests : RequestStep(r)) \/ Others \/ Dies
<1> USE DEF RequestsTypeOK
<1>1. ASSUME NEW g \in Gateways, Crash(g) PROVE Dies
  BY <1>1 DEF Crash, Dies
<1>2. ASSUME NEW d \in Dimensions, MinuteEnds(d) PROVE Others
  BY <1>2 DEF MinuteEnds, requestVars, Others
<1>3. CASE Tick
  <2>1. MaxTime[key] \in Nat
    OBVIOUS
  <2> QED BY <1>3, <2>1 DEF Tick, Others
<1>4. CASE UNCHANGED vars
  BY <1>4 DEF vars, requestVars, Others
<1> QED BY <1>1, <1>2, <1>3, <1>4 DEF Next

-----------------------------------------------------------------------------
(* The window *)

LEMMA Division ==
  ASSUME NEW t \in Nat, NEW n \in Nat \ {0}
  PROVE  (t \div n) \in Nat /\ (t \div n) * n \in Nat /\ (t \div n) * n <= t /\ t < (t \div n) * n + n
  BY SMT

LEMMA Multiples ==
  ASSUME NEW a \in Nat, NEW b \in Nat, NEW n \in Nat, a < b
  PROVE  a * n + n <= b * n
  BY SMT

LEMMA SamePeriod ==
  ASSUME NEW s \in Nat, NEW t \in Nat, NEW n \in Nat \ {0}, (t \div n) * n <= s, s < (t \div n) * n + n
  PROVE  s \div n = t \div n
<1>1. (s \div n) * n <= s /\ s < (s \div n) * n + n
  BY Division
<1>2. s \div n \in Nat /\ t \div n \in Nat
  BY Division
<1> QED BY <1>1, <1>2, Multiples, SMT

\* A window contains its own time.
LEMMA WindowShape ==
  ASSUME key \in Keys, NEW t \in Nat
  PROVE  Start(t) \in Int /\ Stop(t) \in Int /\ Start(t) <= t /\ t < Stop(t)
<1>1. key.length \in Nat \ {0}
  BY DEF Settings
<1>2. (t \div key.length) * key.length \in Nat /\ (t \div key.length) * key.length <= t
      /\ t < (t \div key.length) * key.length + key.length
  BY <1>1, Division
<1>3. CASE key.period = "past"
  BY <1>1, <1>3 DEF Start, Stop
<1>4. CASE key.period = "calendar"
  BY <1>1, <1>2, <1>4 DEF Start, Stop
<1>5. CASE key.period \notin {"past", "calendar"}
  BY <1>5 DEF Start, Stop
<1> QED BY <1>3, <1>4, <1>5

\* A window that contains s starts no earlier than the window of s.
LEMMA WindowLater ==
  ASSUME key \in Keys, NEW s \in Nat, NEW t \in Nat, Inside(s, t)
  PROVE  Start(s) <= Start(t)
<1>1. key.length \in Nat \ {0}
  BY DEF Settings
<1>2. CASE key.period = "past"
  BY <1>1, <1>2 DEF Start, Stop, Inside
<1>3. CASE key.period = "calendar"
  <2>1. s \div key.length = t \div key.length
    BY <1>1, <1>3, SamePeriod DEF Start, Stop, Inside
  <2> QED BY <1>3, <2>1, WindowShape DEF Start
<1>4. CASE key.period \notin {"past", "calendar"}
  BY <1>4 DEF Start
<1> QED BY <1>2, <1>3, <1>4

-----------------------------------------------------------------------------
(* The quota is well formed *)

\* The two sums of an admission are natural numbers.
LEMMA FiniteSums ==
  ASSUME NEW t
  PROVE  /\ IsFiniteSet(RowsIn(t)) /\ Cardinality(RowsIn(t)) \in Nat
         /\ IsFiniteSet(Counted(t)) /\ Cardinality(Counted(t)) \in Nat
<1>1. IsFiniteSet(Requests \X (1..MaxRecords))
  <2>1. IsFiniteSet(1..MaxRecords)
    BY FS_Interval
  <2> QED BY <2>1, FS_Product
<1>2. RowsIn(t) \in SUBSET (Requests \X (1..MaxRecords)) /\ Counted(t) \in SUBSET Requests
  BY DEF RowsIn, Counted
<1> QED BY <1>1, <1>2, FS_Subset, FS_CardinalityType

LEMMA QuotaType ==
  ASSUME RequestsTypeOK, QuotaTypeOK, [Next]_vars
  PROVE  QuotaTypeOK'
<1> USE DEF QuotaTypeOK, RequestsTypeOK
<1>1. MaxTime[key] \in Nat /\ now \in Nat /\ sums.at \in Nat
  OBVIOUS
<1>2. NoHold \in Hold /\ Len(<<>>) = 0 /\ NoSums.at \in 0..MaxTime[key] /\ NoSums.requests \in Nat
  BY <1>1 DEF NoHold, Hold, NoSums
<1>3. ASSUME NEW r \in Requests, Quiet(r) PROVE QuotaTypeOK'
  BY <1>3 DEF Quiet, To, UsageRow
<1>4. ASSUME NEW r \in Requests, Begins(r) PROVE QuotaTypeOK'
  <2>1. sums'.at = now /\ sums'.requests = Cardinality(RowsIn(now))
    BY <1>4 DEF Begins, SumUsage, UsageSums
  <2> QED BY <1>4, <2>1, FiniteSums DEF Begins, To, SumUsage, UsageRow
<1>5. ASSUME NEW r \in Requests, Enters(r) PROVE QuotaTypeOK'
  <2>1. PICK n \in Estimates : InsertHold(r, n)
    BY <1>5 DEF Enters
  <2>2. Start(sums.at) \in Int /\ Stop(sums.at) \in Int
    BY <1>1, WindowShape
  <2> DEFINE hold == [on |-> TRUE, start |-> Start(sums.at), stop |-> Stop(sums.at), created |-> sums.at,
                      tokens |-> IF key.tokens = NoLimit THEN 0 ELSE n]
  <2>3. hold \in Hold
    BY <2>2, <1>1 DEF Hold
  <2>4. holds' \in [Requests -> Hold]
    <3>1. holds' = [q \in Requests |-> IF q = r THEN hold
                                       ELSE IF q \in {p \in Requests : Stale(p, sums.at)} THEN NoHold ELSE holds[q]]
      BY <2>1 DEF InsertHold
    <3> HIDE DEF hold
    <3> QED BY <3>1, <2>3, <1>2
  <2>5. sums' = NoSums /\ locked' = NoRequest
    BY <2>1 DEF InsertHold, Unlock
  <2>6. admitted' \in [Requests -> -1..MaxTime[key]] /\ overlooked' \subseteq Requests
    BY <2>1 DEF InsertHold
  <2>7. UNCHANGED <<key, enabled, usage, lost>>
    BY <1>5, <2>1 DEF InsertHold, Enters, To
  <2> QED BY <1>2, <2>4, <2>5, <2>6, <2>7 DEF UsageRow
<1>6. ASSUME NEW r \in Requests, RollBack(r), key' = key PROVE QuotaTypeOK'
  <2>1. sums' = NoSums /\ locked' = NoRequest
    BY <1>6 DEF RollBack, Unlock
  <2>2. UNCHANGED <<enabled, holds, usage, admitted, overlooked, lost>>
    BY <1>6 DEF RollBack
  <2> QED BY <1>6, <1>2, <2>1, <2>2 DEF UsageRow
<1>7. ASSUME NEW r \in Requests, Settles(r) PROVE QuotaTypeOK'
  <2>1. PICK n \in Usages \cup {Unknown} : InsertUsage(r, n)
    BY <1>7 DEF Settles
  <2>2. UNCHANGED <<key, now>>
    BY <1>7 DEF Settles, To
  <2> DEFINE row == [at |-> now, tokens |-> n]
  <2>3. row \in UsageRow
    BY DEF UsageRow
  <2>4. /\ Append(usage[r], row) \in Seq(UsageRow)
        /\ Len(Append(usage[r], row)) <= MaxRecords
    BY <2>1, <2>3, AppendProperties DEF InsertUsage
  <2>5. usage' = [usage EXCEPT ![r] = Append(usage[r], row)]
    BY <2>1 DEF InsertUsage
  <2>6. usage' \in [Requests -> Seq(UsageRow)] /\ \A q \in Requests : Len(usage'[q]) <= MaxRecords
    <3> HIDE DEF row
    <3> QED BY <2>4, <2>5
  <2>7. UsageRow' = UsageRow
    BY <2>2 DEF UsageRow
  <2>8. holds' \in [Requests -> Hold] /\ overlooked' \subseteq Requests
    BY <2>1, <1>2 DEF InsertUsage, Missed
  <2> QED BY <2>1, <2>2, <2>6, <2>7, <2>8 DEF InsertUsage
<1>8. ASSUME NEW r \in Requests, Loses(r) PROVE QuotaTypeOK'
  <2>1. UNCHANGED <<key, enabled, holds, usage, locked, sums, admitted>>
    BY <1>8 DEF Loses, To, UsageLost
  <2>2. overlooked' \subseteq Requests /\ lost' \subseteq Requests
    BY <1>8 DEF Loses, UsageLost
  <2> QED BY <2>1, <2>2 DEF UsageRow
<1>9. ASSUME NEW r \in Requests, Frees(r) PROVE QuotaTypeOK'
  <2>1. UNCHANGED <<key, enabled, usage, locked, sums, admitted, overlooked, lost>>
    BY <1>9 DEF Frees, To, DeleteHold
  <2>2. holds' = [holds EXCEPT ![r] = NoHold]
    BY <1>9 DEF Frees, DeleteHold
  <2>3. holds' \in [Requests -> Hold]
    BY <2>2, <1>2
  <2> QED BY <2>1, <2>3 DEF UsageRow
<1>10. ASSUME UNCHANGED <<key, quotaVars>> PROVE QuotaTypeOK'
  BY <1>10 DEF quotaVars, UsageRow
<1>11. CASE Dies
  BY <1>11, <1>6, <1>10 DEF Dies
<1> QED BY <1>3, <1>4, <1>5, <1>6, <1>7, <1>8, <1>9, <1>10, <1>11, QuotaSteps, OtherSteps DEF GivesUp, To, Others

-----------------------------------------------------------------------------
(* The inductive invariant of the quota *)

\* Requests whose admission the sums of a later one can see.
Charge == {r \in Requests : admitted[r] # -1 /\ r \notin overlooked /\ (holds[r].on \/ usage[r] # <<>>)}

\* The lock belongs to the one request whose admission is under way.
LockedOwner == \A r \in Requests : pc[r] = "summing" <=> locked = r

\* Nothing is known of a request before its reservation.
Unreserved == \A r \in Requests :
  pc[r] \in {"new", "read", "summing"} => admitted[r] = -1 /\ usage[r] = <<>> /\ ~holds[r].on

\* Admissions come one after the other, and usage after its admission.
Ordered ==
  /\ sums.at <= now
  /\ \A r \in Requests :
       /\ admitted[r] <= now /\ (locked # NoRequest => admitted[r] <= sums.at)
       /\ \A i \in DOMAIN usage[r] : admitted[r] <= usage[r][i].at /\ usage[r][i].at <= now

\* A hold carries the window of its admission, and no request that has usage has one.
Held == \A r \in Requests :
  holds[r].on => /\ admitted[r] # -1 /\ usage[r] = <<>>
                 /\ holds[r].start = Start(admitted[r]) /\ holds[r].stop = Stop(admitted[r])

\* A running request is seen, or known not to be.
Seen == \A r \in Requests :
  InProgress(r) /\ admitted[r] # -1 /\ r \notin overlooked => holds[r].on \/ usage[r] # <<>>

\* A lost usage is known not to be seen.
LostOverlooked == lost \subseteq overlooked

\* The first sum of an admission under way still stands for all usage it has to count.
SettledSince(t) == {r \in Charge : ~holds[r].on /\ Start(t) <= admitted[r]}
Summed == locked # NoRequest => Cardinality(SettledSince(sums.at)) <= sums.requests

\* No window is overfull.
ChargedIn(t) == {r \in Charge : Inside(admitted[r], t)}
Fits == key.requests # NoLimit => \A t \in Nat : Cardinality(ChargedIn(t)) <= key.requests

QuotaInv == /\ RequestsTypeOK /\ QuotaTypeOK /\ LockedOwner /\ Unreserved /\ Ordered /\ Held /\ Seen
            /\ LostOverlooked /\ Summed /\ Fits

\* What a settlement leaves in the two tables.
LEMMA SettleFacts ==
  ASSUME RequestsTypeOK, QuotaTypeOK, NEW r \in Requests, Settles(r)
  PROVE  /\ \A q \in Requests \ {r} : usage'[q] = usage[q] /\ holds'[q] = holds[q]
         /\ usage'[r] # <<>> /\ holds'[r] = NoHold
         /\ DOMAIN usage[r] \subseteq DOMAIN usage'[r]
         /\ \A i \in DOMAIN usage'[r] :
              usage'[r][i].at = now \/ (i \in DOMAIN usage[r] /\ usage'[r][i] = usage[r][i])
         /\ overlooked' = overlooked \cup Missed(r)
         /\ UNCHANGED <<key, now, pc, enabled, locked, sums, admitted, lost>>
<1> USE DEF RequestsTypeOK, QuotaTypeOK
<1>1. PICK n \in Usages \cup {Unknown} : InsertUsage(r, n)
  BY DEF Settles
<1> DEFINE row == [at |-> now, tokens |-> n]
<1>2. usage[r] \in Seq(UsageRow) /\ row \in UsageRow /\ row.at = now
  BY DEF UsageRow
<1>3. usage' = [usage EXCEPT ![r] = Append(usage[r], row)] /\ holds' = [holds EXCEPT ![r] = NoHold]
  BY <1>1 DEF InsertUsage
<1> HIDE DEF row
<1>4. usage'[r] = Append(usage[r], row) /\ holds'[r] = NoHold
  BY <1>3
<1>5. \A q \in Requests \ {r} : usage'[q] = usage[q] /\ holds'[q] = holds[q]
  BY <1>3
<1>6. /\ usage'[r] # <<>> /\ DOMAIN usage'[r] = 1..(Len(usage[r]) + 1) /\ DOMAIN usage[r] = 1..Len(usage[r])
      /\ \A i \in 1..Len(usage[r]) : usage'[r][i] = usage[r][i]
      /\ usage'[r][Len(usage[r]) + 1] = row
      /\ Len(usage[r]) \in Nat
  BY <1>2, <1>4, AppendProperties
<1>7. UNCHANGED <<key, now, pc, enabled, locked, sums, admitted, lost>> /\ overlooked' = overlooked \cup Missed(r)
  BY <1>1 DEF InsertUsage, Settles, To
<1> QED BY <1>2, <1>4, <1>5, <1>6, <1>7

\* What a successful admission does.
LEMMA EnterFacts ==
  ASSUME RequestsTypeOK, QuotaTypeOK, NEW r \in Requests, Enters(r)
  PROVE  /\ UNCHANGED <<key, now, enabled, usage, lost>>
         /\ locked = r /\ locked' = NoRequest /\ sums' = NoSums /\ Permits
         /\ pc[r] = "summing" /\ pc'[r] \in {"admit", "ended"} /\ \A q \in Requests \ {r} : pc'[q] = pc[q]
         /\ admitted'[r] = sums.at /\ \A q \in Requests \ {r} : admitted'[q] = admitted[q]
         /\ overlooked \subseteq overlooked' /\ (\A q \in Requests : Stale(q, sums.at) /\ InProgress(q) => q \in overlooked')
         /\ holds'[r].on /\ holds'[r].start = Start(sums.at) /\ holds'[r].stop = Stop(sums.at)
         /\ \A q \in Requests \ {r} : holds'[q] = IF Stale(q, sums.at) THEN NoHold ELSE holds[q]
<1> USE DEF RequestsTypeOK, QuotaTypeOK
<1>1. PICK n \in Estimates : InsertHold(r, n)
  BY DEF Enters
<1> DEFINE hold == [on |-> TRUE, start |-> Start(sums.at), stop |-> Stop(sums.at), created |-> sums.at,
                    tokens |-> IF key.tokens = NoLimit THEN 0 ELSE n]
<1>2. hold.on /\ hold.start = Start(sums.at) /\ hold.stop = Stop(sums.at)
  OBVIOUS
<1>3. holds' = [q \in Requests |-> IF q = r THEN hold
                                   ELSE IF q \in {p \in Requests : Stale(p, sums.at)} THEN NoHold ELSE holds[q]]
  BY <1>1 DEF InsertHold
<1> HIDE DEF hold
<1>4. holds'[r] = hold /\ \A q \in Requests \ {r} : holds'[q] = IF Stale(q, sums.at) THEN NoHold ELSE holds[q]
  BY <1>3
<1>5. UNCHANGED <<enabled, usage, lost>> /\ locked = r /\ Unlock /\ Permits
      /\ overlooked \subseteq overlooked' /\ (\A q \in Requests : Stale(q, sums.at) /\ InProgress(q) => q \in overlooked')
      /\ admitted' = [admitted EXCEPT ![r] = sums.at]
  BY <1>1 DEF InsertHold
<1>6. UNCHANGED <<key, now>> /\ pc[r] = "summing"
      /\ (pc' = [pc EXCEPT ![r] = "admit"] \/ pc' = [pc EXCEPT ![r] = "ended"])
  BY DEF Enters, To
<1>7. pc'[r] \in {"admit", "ended"} /\ \A q \in Requests \ {r} : pc'[q] = pc[q]
  BY <1>6
<1>8. admitted'[r] = sums.at /\ \A q \in Requests \ {r} : admitted'[q] = admitted[q]
  BY <1>5
<1>9. holds'[r].on /\ holds'[r].start = Start(sums.at) /\ holds'[r].stop = Stop(sums.at)
  BY <1>2, <1>4
<1>10. locked' = NoRequest /\ sums' = NoSums
  BY <1>5 DEF Unlock
<1> QED BY <1>4, <1>5, <1>6, <1>7, <1>8, <1>9, <1>10

LEMMA LockedOwnerStep ==
  ASSUME RequestsTypeOK, QuotaTypeOK, LockedOwner, [Next]_vars
  PROVE  LockedOwner'
<1> USE DEF RequestsTypeOK, QuotaTypeOK, LockedOwner, To, Labels
<1>1. ASSUME NEW r \in Requests, Quiet(r) PROVE LockedOwner'
  BY <1>1 DEF Quiet
<1>2. ASSUME NEW r \in Requests, Begins(r) PROVE LockedOwner'
  BY <1>2 DEF Begins, SumUsage
<1>3. ASSUME NEW r \in Requests, Enters(r) PROVE LockedOwner'
  <2>1. /\ pc[r] = "summing" /\ pc'[r] \in {"admit", "ended"} /\ \A q \in Requests \ {r} : pc'[q] = pc[q]
        /\ locked = r /\ locked' = NoRequest
    BY <1>3, EnterFacts
  <2> QED BY <2>1
<1>4. ASSUME NEW r \in Requests, GivesUp(r) PROVE LockedOwner'
  BY <1>4 DEF GivesUp, RollBack, Unlock
<1>5. ASSUME NEW r \in Requests, Settles(r) PROVE LockedOwner'
  BY <1>5 DEF Settles, InsertUsage
<1>6. ASSUME NEW r \in Requests, Loses(r) PROVE LockedOwner'
  BY <1>6 DEF Loses, UsageLost
<1>7. ASSUME NEW r \in Requests, Frees(r) PROVE LockedOwner'
  BY <1>7 DEF Frees, DeleteHold
<1>8. CASE Dies
  <2>1. PICK g \in Gateways :
          /\ pc' = [q \in Requests |-> IF home[q] = g /\ InProgress(q) THEN "crashed" ELSE pc[q]]
          /\ IF locked # NoRequest /\ home[locked] = g THEN RollBack(locked) ELSE UNCHANGED quotaVars
    BY <1>8 DEF Dies
  <2>2. CASE locked # NoRequest /\ home[locked] = g
    BY <2>1, <2>2 DEF RollBack, Unlock, InProgress, Over
  <2>3. CASE ~(locked # NoRequest /\ home[locked] = g)
    BY <2>1, <2>3 DEF quotaVars, InProgress, Over
  <2> QED BY <2>2, <2>3
<1>9. CASE Others
  BY <1>9 DEF Others, quotaVars
<1> QED BY <1>1, <1>2, <1>3, <1>4, <1>5, <1>6, <1>7, <1>8, <1>9, QuotaSteps, OtherSteps

LEMMA UnreservedStep ==
  ASSUME RequestsTypeOK, QuotaTypeOK, LockedOwner, Unreserved, [Next]_vars
  PROVE  Unreserved'
<1> USE DEF RequestsTypeOK, QuotaTypeOK, LockedOwner, Unreserved, To, Labels
<1>1. ASSUME NEW r \in Requests, Quiet(r) PROVE Unreserved'
  BY <1>1 DEF Quiet
<1>2. ASSUME NEW r \in Requests, Begins(r) PROVE Unreserved'
  BY <1>2 DEF Begins, SumUsage
<1>3. ASSUME NEW r \in Requests, Enters(r) PROVE Unreserved'
  <2>1. /\ pc[r] = "summing" /\ pc'[r] \in {"admit", "ended"} /\ \A q \in Requests \ {r} : pc'[q] = pc[q]
        /\ UNCHANGED usage /\ \A q \in Requests \ {r} : admitted'[q] = admitted[q]
        /\ \A q \in Requests \ {r} : holds'[q] = IF Stale(q, sums.at) THEN NoHold ELSE holds[q]
    BY <1>3, EnterFacts
  <2>2. ~NoHold.on
    BY DEF NoHold
  <2>3. ASSUME NEW q \in Requests \ {r}, ~holds[q].on PROVE ~holds'[q].on
    BY <2>1, <2>2, <2>3
  <2> QED BY <2>1, <2>3
<1>4. ASSUME NEW r \in Requests, GivesUp(r) PROVE Unreserved'
  BY <1>4 DEF GivesUp, RollBack
<1>5. ASSUME NEW r \in Requests, Settles(r) PROVE Unreserved'
  BY <1>5 DEF Settles, InsertUsage
<1>6. ASSUME NEW r \in Requests, Loses(r) PROVE Unreserved'
  BY <1>6 DEF Loses, UsageLost
<1>7. ASSUME NEW r \in Requests, Frees(r) PROVE Unreserved'
  BY <1>7 DEF Frees, DeleteHold
<1>8. CASE Dies
  BY <1>8 DEF Dies, RollBack, quotaVars
<1>9. CASE Others
  BY <1>9 DEF Others, quotaVars
<1> QED BY <1>1, <1>2, <1>3, <1>4, <1>5, <1>6, <1>7, <1>8, <1>9, QuotaSteps, OtherSteps

LEMMA SeenStep ==
  ASSUME RequestsTypeOK, QuotaTypeOK, LockedOwner, Unreserved, Seen, [Next]_vars
  PROVE  Seen'
<1> USE DEF RequestsTypeOK, QuotaTypeOK, LockedOwner, Unreserved, Seen, InProgress, Over, To, Labels
<1>1. ASSUME NEW r \in Requests, Quiet(r) PROVE Seen'
  BY <1>1 DEF Quiet
<1>2. ASSUME NEW r \in Requests, Begins(r) PROVE Seen'
  BY <1>2 DEF Begins, SumUsage
<1>3. ASSUME NEW r \in Requests, Enters(r) PROVE Seen'
  <2>1. /\ pc[r] = "summing" /\ \A q \in Requests \ {r} : pc'[q] = pc[q] /\ admitted'[q] = admitted[q]
        /\ UNCHANGED usage /\ overlooked \subseteq overlooked' /\ holds'[r].on
        /\ \A q \in Requests \ {r} : holds'[q] = IF Stale(q, sums.at) THEN NoHold ELSE holds[q]
        /\ \A q \in Requests : Stale(q, sums.at) /\ (pc[q] # "new" /\ pc[q] \notin {"ended", "crashed"}) => q \in overlooked'
    BY <1>3, EnterFacts
  <2> QED BY <2>1
<1>4. ASSUME NEW r \in Requests, GivesUp(r) PROVE Seen'
  BY <1>4 DEF GivesUp, RollBack
<1>5. ASSUME NEW r \in Requests, Settles(r) PROVE Seen'
  BY <1>5, SettleFacts
<1>6. ASSUME NEW r \in Requests, Loses(r) PROVE Seen'
  BY <1>6 DEF Loses, UsageLost
<1>7. ASSUME NEW r \in Requests, Frees(r) PROVE Seen'
  BY <1>7 DEF Frees, DeleteHold
<1>8. CASE Dies
  BY <1>8 DEF Dies, RollBack, quotaVars
<1>9. CASE Others
  BY <1>9 DEF Others, quotaVars
<1> QED BY <1>1, <1>2, <1>3, <1>4, <1>5, <1>6, <1>7, <1>8, <1>9, QuotaSteps, OtherSteps

LEMMA OrderedStep ==
  ASSUME RequestsTypeOK, QuotaTypeOK, LockedOwner, Unreserved, Ordered, [Next]_vars
  PROVE  Ordered'
<1> USE DEF Ordered, To
<1>1. now \in Nat /\ sums.at \in Nat /\ NoSums.at = 0 /\ NoRequest \notin Requests
  BY DEF RequestsTypeOK, QuotaTypeOK, NoSums
<1>2. ASSUME NEW r \in Requests, Quiet(r) PROVE Ordered'
  BY <1>2 DEF Quiet
<1>3. ASSUME NEW r \in Requests, Begins(r) PROVE Ordered'
  <2>1. sums'.at = now /\ UNCHANGED <<now, admitted, usage>>
    BY <1>3 DEF Begins, SumUsage, UsageSums
  <2> QED BY <1>1, <2>1
<1>4. ASSUME NEW r \in Requests, Enters(r) PROVE Ordered'
  <2>1. /\ UNCHANGED <<now, usage>> /\ locked = r /\ locked' = NoRequest /\ sums'.at = 0 /\ pc[r] = "summing"
        /\ admitted'[r] = sums.at /\ \A q \in Requests \ {r} : admitted'[q] = admitted[q]
    BY <1>1, <1>4, EnterFacts
  <2>2. usage[r] = <<>>
    BY <2>1 DEF Unreserved
  <2> QED BY <1>1, <2>1, <2>2
<1>5. ASSUME NEW r \in Requests, RollBack(r), UNCHANGED now PROVE Ordered'
  BY <1>1, <1>5 DEF RollBack, Unlock
<1>6. ASSUME NEW r \in Requests, Settles(r) PROVE Ordered'
  <2>1. /\ \A q \in Requests \ {r} : usage'[q] = usage[q]
        /\ \A i \in DOMAIN usage'[r] :
              usage'[r][i].at = now \/ (i \in DOMAIN usage[r] /\ usage'[r][i] = usage[r][i])
        /\ UNCHANGED <<now, locked, sums, admitted>>
    BY <1>6, SettleFacts
  <2> QED BY <1>1, <2>1
<1>7. ASSUME NEW r \in Requests, Loses(r) PROVE Ordered'
  BY <1>7 DEF Loses, UsageLost
<1>8. ASSUME NEW r \in Requests, Frees(r) PROVE Ordered'
  BY <1>8 DEF Frees, DeleteHold
<1>9. CASE Dies
  <2>1. UNCHANGED now /\ ((\E q \in Requests : RollBack(q)) \/ UNCHANGED quotaVars)
    BY <1>9 DEF Dies, QuotaTypeOK
  <2> QED BY <1>5, <2>1 DEF quotaVars
<1>10. CASE Others
  <2>1. UNCHANGED quotaVars /\ now <= now' /\ now' \in Nat
    BY <1>10 DEF Others, RequestsTypeOK
  <2>2. \A r \in Requests : admitted[r] \in Int /\ \A i \in DOMAIN usage[r] : usage[r][i].at \in Int
    <3> TAKE r \in Requests
    <3>1. admitted[r] \in Int /\ usage[r] \in Seq(UsageRow)
      BY DEF QuotaTypeOK, RequestsTypeOK
    <3>2. \A i \in DOMAIN usage[r] : usage[r][i] \in UsageRow
      BY <3>1
    <3> QED BY <3>1, <3>2 DEF UsageRow
  <2> QED BY <1>1, <2>1, <2>2 DEF quotaVars
<1> QED BY <1>2, <1>3, <1>4, <1>5, <1>6, <1>7, <1>8, <1>9, <1>10, QuotaSteps, OtherSteps DEF GivesUp

LEMMA HeldStep ==
  ASSUME RequestsTypeOK, QuotaTypeOK, LockedOwner, Unreserved, Held, [Next]_vars
  PROVE  Held'
<1> USE DEF Held, To
<1>1. ~NoHold.on
  BY DEF NoHold
<1>2. \A t : key' = key => Start(t)' = Start(t) /\ Stop(t)' = Stop(t)
  BY DEF Start, Stop
<1>3. ASSUME NEW r \in Requests, Quiet(r) PROVE Held'
  BY <1>2, <1>3 DEF Quiet
<1>4. ASSUME NEW r \in Requests, Begins(r) PROVE Held'
  BY <1>2, <1>4 DEF Begins, SumUsage
<1>5. ASSUME NEW r \in Requests, Enters(r) PROVE Held'
  <2>1. /\ UNCHANGED <<key, usage>> /\ pc[r] = "summing"
        /\ admitted'[r] = sums.at /\ \A q \in Requests \ {r} : admitted'[q] = admitted[q]
        /\ holds'[r].on /\ holds'[r].start = Start(sums.at) /\ holds'[r].stop = Stop(sums.at)
        /\ \A q \in Requests \ {r} : holds'[q] = IF Stale(q, sums.at) THEN NoHold ELSE holds[q]
    BY <1>5, EnterFacts
  <2>2. usage[r] = <<>> /\ sums.at # -1
    BY <2>1 DEF Unreserved, QuotaTypeOK, RequestsTypeOK
  <2> QED BY <1>1, <1>2, <2>1, <2>2
<1>6. ASSUME NEW r \in Requests, RollBack(r), UNCHANGED key PROVE Held'
  BY <1>2, <1>6 DEF RollBack
<1>7. ASSUME NEW r \in Requests, Settles(r) PROVE Held'
  <2>1. /\ \A q \in Requests \ {r} : usage'[q] = usage[q] /\ holds'[q] = holds[q]
        /\ holds'[r] = NoHold /\ UNCHANGED <<key, admitted>>
    BY <1>7, SettleFacts
  <2> QED BY <1>1, <1>2, <2>1
<1>8. ASSUME NEW r \in Requests, Loses(r) PROVE Held'
  BY <1>2, <1>8 DEF Loses, UsageLost
<1>9. ASSUME NEW r \in Requests, Frees(r) PROVE Held'
  <2>1. UNCHANGED <<key, usage, admitted>> /\ holds' = [holds EXCEPT ![r] = NoHold]
    BY <1>9 DEF Frees, DeleteHold
  <2>2. DOMAIN holds = Requests
    BY DEF QuotaTypeOK
  <2> QED BY <1>1, <1>2, <2>1, <2>2
<1>10. CASE Dies
  <2>1. UNCHANGED key /\ ((\E q \in Requests : RollBack(q)) \/ UNCHANGED quotaVars)
    BY <1>10 DEF Dies, QuotaTypeOK
  <2> QED BY <1>2, <1>6, <2>1 DEF quotaVars
<1>11. CASE Others
  BY <1>2, <1>11 DEF Others, quotaVars
<1> QED BY <1>3, <1>4, <1>5, <1>6, <1>7, <1>8, <1>9, <1>10, <1>11, QuotaSteps, OtherSteps DEF GivesUp

LEMMA LostStep ==
  ASSUME RequestsTypeOK, QuotaTypeOK, LostOverlooked, [Next]_vars
  PROVE  LostOverlooked'
<1> USE DEF LostOverlooked
<1>1. ASSUME NEW r \in Requests, Enters(r) PROVE LostOverlooked'
  BY <1>1, EnterFacts
<1>2. ASSUME NEW r \in Requests, Settles(r) PROVE LostOverlooked'
  BY <1>2, SettleFacts
<1>3. ASSUME NEW r \in Requests, Quiet(r) \/ Begins(r) \/ GivesUp(r) \/ Loses(r) \/ Frees(r) PROVE LostOverlooked'
  BY <1>3 DEF Quiet, Begins, SumUsage, GivesUp, RollBack, Loses, UsageLost, Frees, DeleteHold
<1>4. CASE Dies \/ Others
  BY <1>4 DEF Dies, Others, RollBack, quotaVars
<1> QED BY <1>1, <1>2, <1>3, <1>4, QuotaSteps, OtherSteps

LEMMA Counting ==
  ASSUME NEW S \in SUBSET Requests, NEW T \in SUBSET S
  PROVE  IsFiniteSet(S) /\ Cardinality(S) \in Nat /\ Cardinality(T) \in Nat /\ Cardinality(T) <= Cardinality(S)
<1>1. IsFiniteSet(S)
  BY FS_Subset
<1>2. IsFiniteSet(T) /\ Cardinality(T) <= Cardinality(S)
  BY <1>1, FS_Subset
<1> QED BY <1>1, <1>2, FS_CardinalityType

\* Only an admission adds to what is charged, and under the lock nothing joins what
\* was settled before it.
LEMMA ChargeShrinks ==
  ASSUME RequestsTypeOK, QuotaTypeOK, LockedOwner, Held, Seen, [Next]_vars,
         ~\E r \in Requests : Enters(r)
  PROVE  /\ key' = key /\ admitted' = admitted /\ Charge' \subseteq Charge
         /\ \A r \in Charge' : holds[r].on /\ ~holds'[r].on => locked = NoRequest
<1> DEFINE Goal == /\ key' = key /\ admitted' = admitted /\ Charge' \subseteq Charge
                   /\ \A r \in Charge' : holds[r].on /\ ~holds'[r].on => locked = NoRequest
<1> USE DEF To
<1>1. ASSUME key' = key, UNCHANGED <<holds, usage, admitted>>, overlooked \subseteq overlooked' PROVE Goal
  BY <1>1 DEF Charge
<1>2. ASSUME NEW r \in Requests, Quiet(r) PROVE Goal
  BY <1>1, <1>2 DEF Quiet
<1>3. ASSUME NEW r \in Requests, Begins(r) PROVE Goal
  BY <1>1, <1>3 DEF Begins, SumUsage
<1>4. ASSUME NEW r \in Requests, RollBack(r), key' = key PROVE Goal
  BY <1>1, <1>4 DEF RollBack
<1>5. ASSUME NEW r \in Requests, Settles(r) PROVE Goal
  <2>1. /\ \A q \in Requests \ {r} : usage'[q] = usage[q] /\ holds'[q] = holds[q]
        /\ overlooked' = overlooked \cup Missed(r)
        /\ UNCHANGED <<key, admitted>>
    BY <1>5, SettleFacts
  <2>2. InProgress(r)
    BY <1>5 DEF Settles, InProgress, Over
  <2>3. holds[r].on /\ locked # NoRequest => r \in overlooked'
    BY <2>1 DEF Missed
  <2>4. ASSUME NEW q \in Charge' PROVE q \in Charge
    <3>1. q \in Requests /\ admitted[q] # -1 /\ q \notin overlooked
      BY <2>1, <2>4 DEF Charge
    <3>2. CASE q = r
      BY <2>2, <3>1, <3>2 DEF Seen, Charge
    <3>3. CASE q # r
      BY <2>1, <2>4, <3>1, <3>3 DEF Charge
    <3> QED BY <3>2, <3>3
  <2>5. ASSUME NEW q \in Charge', holds[q].on, ~holds'[q].on PROVE locked = NoRequest
    BY <2>1, <2>3, <2>5 DEF Charge
  <2> QED BY <2>1, <2>4, <2>5
<1>6. ASSUME NEW r \in Requests, Loses(r) PROVE Goal
  BY <1>1, <1>6 DEF Loses, UsageLost
<1>7. ASSUME NEW r \in Requests, Frees(r) PROVE Goal
  <2>1. UNCHANGED <<key, usage, admitted, overlooked>> /\ holds' = [holds EXCEPT ![r] = NoHold] /\ DOMAIN holds = Requests
    BY <1>7 DEF Frees, DeleteHold, QuotaTypeOK
  <2>2. ~holds'[r].on /\ \A q \in Requests \ {r} : holds'[q] = holds[q]
    BY <2>1 DEF NoHold
  <2>3. r \in Charge' => usage[r] # <<>> /\ ~holds[r].on
    BY <2>1, <2>2 DEF Charge, Held
  <2> QED BY <2>1, <2>2, <2>3 DEF Charge
<1>8. CASE Dies
  <2>1. UNCHANGED key /\ ((\E q \in Requests : RollBack(q)) \/ UNCHANGED quotaVars)
    BY <1>8 DEF Dies, QuotaTypeOK
  <2> QED BY <1>1, <1>4, <2>1 DEF quotaVars
<1>9. CASE Others
  BY <1>1, <1>9 DEF Others, quotaVars
<1> QED BY <1>2, <1>3, <1>4, <1>5, <1>6, <1>7, <1>8, <1>9, QuotaSteps, OtherSteps DEF GivesUp

\* The first sum counts a row of every request that settled in its window.
LEMMA SumCovers ==
  ASSUME RequestsTypeOK, QuotaTypeOK, Ordered
  PROVE  Cardinality(SettledSince(now)) <= Cardinality(RowsIn(now))
<1> DEFINE f == [r \in SettledSince(now) |-> <<r, 1>>]
<1>1. now \in Nat /\ key \in Keys
  BY DEF RequestsTypeOK
<1>2. ASSUME NEW r \in SettledSince(now) PROVE f[r] \in RowsIn(now)
  <2>1. r \in Requests /\ usage[r] # <<>> /\ Start(now) <= admitted[r]
    BY <1>2 DEF SettledSince, Charge
  <2>2. usage[r] \in Seq(UsageRow) /\ Len(usage[r]) <= MaxRecords /\ admitted[r] \in Int
    BY <2>1, <1>1 DEF QuotaTypeOK
  <2>3. 1 \in DOMAIN usage[r] /\ 1 \in 1..MaxRecords /\ usage[r][1] \in UsageRow
    BY <2>1, <2>2
  <2>4. usage[r][1].at \in Int /\ admitted[r] <= usage[r][1].at /\ usage[r][1].at <= now
    BY <2>1, <2>3, <1>1 DEF Ordered, UsageRow
  <2>5. Inside(usage[r][1].at, now)
    <3>1. Start(now) \in Int /\ Stop(now) \in Int /\ now < Stop(now)
      BY <1>1, WindowShape
    <3>2. Start(now) <= usage[r][1].at /\ usage[r][1].at < Stop(now)
      BY <1>1, <2>1, <2>2, <2>4, <3>1
    <3> QED BY <3>2 DEF Inside
  <2>6. <<r, 1>> \in RowsIn(now)
    BY <2>1, <2>3, <2>5 DEF RowsIn
  <2> QED BY <2>6
<1>3. f \in Injection(SettledSince(now), RowsIn(now))
  BY <1>2 DEF Injection, IsInjective
<1> HIDE DEF f
<1> QED BY <1>3, FS_Injection, FiniteSums

LEMMA SummedStep ==
  ASSUME RequestsTypeOK, QuotaTypeOK, LockedOwner, Ordered, Held, Seen, Summed, [Next]_vars
  PROVE  Summed'
<1> USE DEF To
<1>1. ASSUME key' = key PROVE \A t : Start(t)' = Start(t)
  BY <1>1 DEF Start
<1>2. ASSUME UNCHANGED <<locked, sums>>, ~\E r \in Requests : Enters(r) PROVE Summed'
  <2>1. SUFFICES ASSUME locked # NoRequest
                 PROVE  Cardinality(SettledSince(sums.at)') <= sums.requests
    BY <1>2 DEF Summed
  <2>2. SettledSince(sums.at)' \subseteq SettledSince(sums.at)
    BY <1>1, <1>2, <2>1, ChargeShrinks DEF SettledSince
  <2>3. SettledSince(sums.at) \subseteq Requests
    BY DEF SettledSince, Charge
  <2>4. sums.requests \in Nat
    BY DEF QuotaTypeOK
  <2> QED BY <2>1, <2>2, <2>3, <2>4, Counting DEF Summed
<1>3. ASSUME NEW r \in Requests, Begins(r) PROVE Summed'
  <2>1. UNCHANGED <<key, holds, usage, admitted, overlooked>> /\ sums'.at = now /\ sums'.requests = Cardinality(RowsIn(now))
    BY <1>3 DEF Begins, SumUsage, UsageSums
  <2>2. SettledSince(sums.at)' = SettledSince(now)
    BY <1>1, <2>1 DEF SettledSince, Charge
  <2> QED BY <2>1, <2>2, SumCovers DEF Summed
<1>4. ASSUME locked' = NoRequest PROVE Summed'
  BY <1>4 DEF Summed
<1>5. ASSUME NEW r \in Requests, RollBack(r) PROVE Summed'
  BY <1>4, <1>5 DEF RollBack, Unlock
<1>6. ASSUME NEW r \in Requests, Enters(r) PROVE Summed'
  BY <1>4, <1>6, EnterFacts
<1>7. CASE \E r \in Requests : Enters(r)
  BY <1>6, <1>7
<1>8. CASE /\ ~\E r \in Requests : Enters(r)
           /\ (\E r \in Requests : Quiet(r) \/ Settles(r) \/ Loses(r) \/ Frees(r)) \/ Others
  <2>1. UNCHANGED <<locked, sums>>
    BY <1>8, SettleFacts DEF Quiet, Loses, UsageLost, Frees, DeleteHold, Others, quotaVars
  <2> QED BY <1>2, <1>8, <2>1
<1>9. CASE ~(\E r \in Requests : Enters(r)) /\ Dies
  <2>1. (\E q \in Requests : RollBack(q)) \/ UNCHANGED quotaVars
    BY <1>9 DEF Dies, QuotaTypeOK
  <2> QED BY <1>2, <1>5, <1>9, <2>1 DEF quotaVars
<1> QED BY <1>3, <1>5, <1>7, <1>8, <1>9, QuotaSteps, OtherSteps DEF GivesUp

\* The admission of a request leaves room for it in every window that contains it.
LEMMA EnterFits ==
  ASSUME QuotaInv, NEW r \in Requests, Enters(r), key.requests # NoLimit, NEW t \in Nat,
         Inside(sums.at, t)
  PROVE  Cardinality(ChargedIn(t)') <= key.requests
<1> DEFINE now0 == sums.at
           B == SettledSince(now0)
           C == Counted(now0)
<1>1. /\ UNCHANGED <<key, usage>> /\ locked = r /\ Permits /\ pc[r] = "summing"
      /\ admitted'[r] = sums.at /\ \A q \in Requests \ {r} : admitted'[q] = admitted[q]
      /\ overlooked \subseteq overlooked'
      /\ \A q \in Requests \ {r} : holds'[q] = IF Stale(q, sums.at) THEN NoHold ELSE holds[q]
  BY EnterFacts DEF QuotaInv
<1>2. now0 \in Nat /\ key \in Keys /\ key.requests \in Nat
  BY DEF QuotaInv, RequestsTypeOK, QuotaTypeOK, Settings
<1>3. Cardinality(B) <= sums.requests /\ sums.requests + Cardinality(C) < key.requests
  <2>1. Cardinality(B) <= sums.requests
    BY <1>1 DEF QuotaInv, Summed
  <2>2. sums.requests + Cardinality(C) < key.requests
    BY <1>1 DEF Permits
  <2> QED BY <2>1, <2>2
<1>4. Start(now0) <= Start(t) /\ Start(t) \in Int /\ Stop(t) \in Int /\ Start(now0) \in Int /\ Stop(now0) \in Int
  BY <1>2, WindowLater, WindowShape
<1>5. ASSUME NEW q \in ChargedIn(t)', q # r PROVE q \in B \cup C
  <2>1. q \in Requests /\ q \in Charge' /\ Start(t) <= admitted[q]
    BY <1>1, <1>5 DEF ChargedIn, Charge, Inside, Start
  <2>2. q \in Requests /\ admitted[q] # -1 /\ q \notin overlooked /\ (holds'[q].on \/ usage[q] # <<>>)
    BY <1>1, <1>5, <2>1 DEF Charge
  <2>3. holds[q].on \/ usage[q] # <<>>
    BY <1>1, <1>5, <2>2 DEF NoHold
  <2>4. admitted[q] \in Nat /\ admitted[q] <= now0
    <3>1. admitted[q] \in -1..MaxTime[key] /\ admitted[q] # -1
      BY <2>1, <2>2, <1>1, <1>5 DEF QuotaInv, QuotaTypeOK, Charge
    <3>2. admitted[q] <= now0
      BY <1>1, <2>1 DEF QuotaInv, Ordered
    <3>3. MaxTime[key] \in Nat
      BY <1>2
    <3> QED BY <3>1, <3>2, <3>3
  <2>5. q \in Charge
    BY <2>1, <1>1, <1>5, <2>3 DEF Charge
  <2>6. CASE ~holds[q].on
    <3>1. Start(now0) <= admitted[q]
      BY <1>4, <2>1, <2>4
    <3> QED BY <2>5, <2>6, <3>1 DEF SettledSince
  <2>7. CASE holds[q].on
    <3>1. usage[q] = <<>> /\ holds[q].start = Start(admitted[q]) /\ holds[q].stop = Stop(admitted[q])
      BY <2>1, <2>7 DEF QuotaInv, Held
    <3>2. ~Stale(q, now0)
      BY <1>1, <1>5, <2>1, <3>1 DEF Charge, NoHold
    <3>3. Start(admitted[q]) <= admitted[q] /\ admitted[q] < Stop(admitted[q]) /\ now0 < Stop(now0)
          /\ Start(admitted[q]) \in Int /\ Stop(admitted[q]) \in Int
      BY <1>2, <2>4, WindowShape
    <3>4. holds[q].stop > Start(now0) /\ holds[q].start < Stop(now0)
      BY <1>2, <1>4, <2>1, <2>4, <3>1, <3>3
    <3> QED BY <2>1, <2>7, <3>2, <3>4 DEF Counted
  <2> QED BY <2>6, <2>7
<1> HIDE DEF now0, B, C
<1>6. B \in SUBSET Requests /\ C \in SUBSET Requests /\ ChargedIn(t)' \in SUBSET Requests
  BY DEF B, C, SettledSince, Charge, Counted, ChargedIn
<1>7. IsFiniteSet(B) /\ IsFiniteSet(C) /\ Cardinality(B) \in Nat /\ Cardinality(C) \in Nat
  BY <1>6, Counting
<1>8. IsFiniteSet(B \cup C) /\ Cardinality(B \cup C) <= Cardinality(B) + Cardinality(C) /\ Cardinality(B \cup C) \in Nat
  <2>1. IsFiniteSet(B \cap C) /\ Cardinality(B \cap C) \in Nat
    BY <1>7, FS_Intersection, FS_CardinalityType
  <2>2. IsFiniteSet(B \cup C) /\ Cardinality(B \cup C) = Cardinality(B) + Cardinality(C) - Cardinality(B \cap C)
    BY <1>7, FS_Union
  <2> QED BY <1>7, <2>1, <2>2, FS_CardinalityType
<1>9. IsFiniteSet((B \cup C) \cup {r}) /\ Cardinality((B \cup C) \cup {r}) <= Cardinality(B \cup C) + 1
  <2> DEFINE U == B \cup C
  <2>1. IsFiniteSet(U) /\ Cardinality(U) \in Nat
    BY <1>8
  <2> HIDE DEF U
  <2>2. IsFiniteSet(U \cup {r}) /\ Cardinality(U \cup {r}) <= Cardinality(U) + 1
    <3>1. /\ IsFiniteSet(U \cup {r})
          /\ Cardinality(U \cup {r}) = IF r \in U THEN Cardinality(U) ELSE Cardinality(U) + 1
      BY <2>1, FS_AddElement, Zenon
    <3> QED BY <2>1, <3>1
  <2> QED BY <2>2 DEF U
<1>10. ChargedIn(t)' \subseteq (B \cup C) \cup {r} /\ (B \cup C) \cup {r} \in SUBSET Requests
  BY <1>5, <1>6
<1>11. /\ Cardinality(ChargedIn(t)') <= Cardinality((B \cup C) \cup {r})
       /\ Cardinality(ChargedIn(t)') \in Nat /\ Cardinality((B \cup C) \cup {r}) \in Nat
  BY <1>10, Counting
<1>12. sums.requests \in Nat
  BY DEF QuotaInv, QuotaTypeOK
<1> QED BY <1>2, <1>3, <1>7, <1>8, <1>9, <1>11, <1>12

LEMMA FitsStep ==
  ASSUME QuotaInv, [Next]_vars
  PROVE  Fits'
<1>1. key' = key
  <2>1. RequestsTypeOK /\ QuotaTypeOK
    BY DEF QuotaInv
  <2> QED BY <2>1, QuotaSteps, OtherSteps, StepMoves DEF Moves, Others, Dies
<1>2. SUFFICES ASSUME key.requests # NoLimit, NEW t \in Nat
               PROVE  Cardinality(ChargedIn(t)') <= key.requests
  BY <1>1 DEF Fits
<1>3. key.requests \in Nat /\ Cardinality(ChargedIn(t)) <= key.requests
  BY <1>2 DEF QuotaInv, Fits, RequestsTypeOK, Settings
<1>4. ASSUME ChargedIn(t)' \subseteq ChargedIn(t) PROVE Cardinality(ChargedIn(t)') <= key.requests
  <2>1. ChargedIn(t) \in SUBSET Requests
    BY DEF ChargedIn, Charge
  <2> QED BY <1>3, <1>4, <2>1, Counting
<1>5. CASE ~\E r \in Requests : Enters(r)
  <2>1. Charge' \subseteq Charge /\ admitted' = admitted
    BY <1>5, ChargeShrinks DEF QuotaInv
  <2>2. ChargedIn(t)' \subseteq ChargedIn(t)
    BY <1>1, <2>1 DEF ChargedIn, Inside, Start, Stop
  <2> QED BY <1>4, <2>2
<1>6. ASSUME NEW r \in Requests, Enters(r) PROVE Cardinality(ChargedIn(t)') <= key.requests
  <2>1. CASE Inside(sums.at, t)
    BY <1>2, <1>6, <2>1, EnterFits
  <2>2. CASE ~Inside(sums.at, t)
    <3>1. /\ UNCHANGED <<key, usage>>
          /\ admitted'[r] = sums.at /\ \A q \in Requests \ {r} : admitted'[q] = admitted[q]
          /\ overlooked \subseteq overlooked'
          /\ \A q \in Requests \ {r} : holds'[q] = IF Stale(q, sums.at) THEN NoHold ELSE holds[q]
      BY <1>6, EnterFacts DEF QuotaInv
    <3>2. r \notin ChargedIn(t)'
      BY <2>2, <3>1 DEF ChargedIn, Inside, Start, Stop
    <3>3. \A q \in ChargedIn(t)' : q \in ChargedIn(t)
      BY <3>1, <3>2 DEF ChargedIn, Charge, Inside, Start, Stop, NoHold
    <3> QED BY <1>4, <3>3
  <2> QED BY <2>1, <2>2
<1> QED BY <1>5, <1>6

LEMMA QuotaInvInit == Init => QuotaInv
<1> SUFFICES ASSUME Init PROVE QuotaInv
  OBVIOUS
<1> USE DEF Init, RequestsInit, QuotaInit
<1>1. key \in Keys /\ MaxTime[key] \in Nat /\ sums.at = 0 /\ sums.requests = 0 /\ now = 0
  BY DEF NoSums
<1>2. RequestsTypeOK
  BY <1>1 DEF RequestsTypeOK, Labels
<1>3. QuotaTypeOK
  <2>1. holds \in [Requests -> Hold]
    BY DEF NoHold, Hold
  <2>2. usage \in [Requests -> Seq(UsageRow)] /\ \A r \in Requests : Len(usage[r]) <= MaxRecords
    OBVIOUS
  <2>3. admitted \in [Requests -> -1..MaxTime[key]]
    BY <1>1
  <2> QED BY <1>1, <2>1, <2>2, <2>3 DEF QuotaTypeOK
<1>4. \A r \in Requests : ~holds[r].on /\ usage[r] = <<>> /\ admitted[r] = -1 /\ pc[r] = "new"
  BY DEF NoHold
<1>5. LockedOwner /\ Unreserved /\ Held /\ Seen /\ LostOverlooked /\ Summed
  BY <1>1, <1>4 DEF LockedOwner, Unreserved, Held, Seen, LostOverlooked, Summed
<1>6. Ordered
  BY <1>1, <1>4 DEF Ordered
<1>7. Fits
  <2>1. \A t \in Nat : ChargedIn(t) = {}
    BY <1>4 DEF ChargedIn, Charge
  <2>2. key.requests \in Nat
    BY <1>1 DEF Settings
  <2>3. Cardinality({}) = 0
    BY FS_EmptySet, Zenon
  <2>4. \A t \in Nat : Cardinality(ChargedIn(t)) = 0
    BY <2>1, <2>3
  <2> QED BY <2>2, <2>4 DEF Fits
<1> QED BY <1>2, <1>3, <1>5, <1>6, <1>7 DEF QuotaInv

LEMMA QuotaInvStep == QuotaInv /\ [Next]_vars => QuotaInv'
  BY RequestsType, QuotaType, LockedOwnerStep, UnreservedStep, OrderedStep, HeldStep, SeenStep, LostStep, SummedStep, FitsStep
     DEF QuotaInv

LEMMA QuotaInvWithin == QuotaInv => WithinQuota
<1> SUFFICES ASSUME QuotaInv, HasQuota, key.requests # NoLimit, NEW t \in 0..now
             PROVE  Cardinality({r \in Charged \ overlooked : Inside(admitted[r], t)}) <= key.requests
  BY DEF WithinQuota
<1> USE DEF QuotaInv
<1>1. t \in Nat /\ key.requests \in Nat
  BY DEF RequestsTypeOK, Settings
<1>2. Charged \ overlooked \subseteq Charge
  <2> SUFFICES ASSUME NEW r \in Charged, r \notin overlooked PROVE r \in Charge
    OBVIOUS
  <2>1. r \in Requests /\ admitted[r] # -1 /\ (pc[r] \in {"running", "disabling"} \/ usage[r] # <<>> \/ r \in lost)
    BY DEF Charged
  <2>2. r \notin lost
    BY DEF LostOverlooked
  <2> QED BY <2>1, <2>2 DEF Seen, InProgress, Over, Charge
<1>3. {r \in Charged \ overlooked : Inside(admitted[r], t)} \in SUBSET ChargedIn(t) /\ ChargedIn(t) \in SUBSET Requests
  BY <1>2 DEF ChargedIn, Charge
<1> QED BY <1>1, <1>3, Counting DEF Fits

\* For every number of requests and gateways, every clock and every way the
\* admissions, settlements, releases and faults interleave, no window of a key's
\* quota holds more requests than its limit, except those an admission could not
\* see (reserveManagedKeyQuota, downstream_quota.go 187-271).
THEOREM QuotaHolds == Spec => []WithinQuota
<1>1. Spec => []QuotaInv
  BY QuotaInvInit, QuotaInvStep, PTL DEF Spec
<1> QED BY <1>1, QuotaInvWithin, PTL

-----------------------------------------------------------------------------
(* A lost usage closes the key *)

\* Losing usage is a fault, and until the key is disabled its request is about to
\* do so, has crashed, or has met a second fault.
Closing == \A r \in Requests : pc[r] = "disabling" => faults > 0
Closed == ~enabled \/ faults > 1 \/ \A q \in lost : pc[q] = "disabling" \/ pc[q] = "crashed"

\* What the steps of a request do to the flag of its key and to what was lost.
LEMMA ClosingSteps ==
  ASSUME RequestsTypeOK, QuotaTypeOK, NEW r \in Requests, RequestStep(r)
  PROVE  \/ (\E ok \in BOOLEAN : Disable(r, ok)) \/ RecordFails(r)
         \/ /\ UNCHANGED <<enabled, lost>> /\ (Fault \/ UNCHANGED faults)
            /\ pc[r] \notin {"disabling", "crashed"}
            /\ \E l \in Labels \ {"disabling"} : Goto(r, l)
<1> DEFINE Other == /\ UNCHANGED <<enabled, lost>> /\ (Fault \/ UNCHANGED faults)
                    /\ pc[r] \notin {"disabling", "crashed"}
                    /\ \E l \in Labels \ {"disabling"} : Goto(r, l)
<1> USE DEF RequestsTypeOK, QuotaTypeOK, Goto, Labels
<1>1. CASE Authorize(r) \/ BeginReserve(r) \/ RefuseQuota(r) \/ ReserveFails(r)
  BY <1>1 DEF Authorize, BeginReserve, RefuseQuota, ReserveFails, SumUsage, RollBack, quotaVars
<1>2. ASSUME NEW n \in Estimates, Reserve(r, n) \/ ReserveUnacknowledged(r, n) \/ Arrive(r, n) PROVE Other
  BY <1>2 DEF Reserve, ReserveUnacknowledged, Arrive, InsertHold, quotaVars
<1>3. CASE RefuseAddress(r) \/ Unlimited(r) \/ RpmFailsOpen(r) \/ TpmFailsOpen(r)
  BY <1>3 DEF RefuseAddress, Unlimited, RpmFailsOpen, TpmFailsOpen, Leave, LeaveUnless, AfterRpm, quotaVars
<1>4. ASSUME NEW a \in BOOLEAN, NEW b \in BOOLEAN, IncrementRpm(r, a, b) \/ IncrementTpm(r, a, b) PROVE Other
  BY <1>4 DEF IncrementRpm, IncrementTpm, AfterRpm, quotaVars
<1>5. ASSUME NEW b \in BOOLEAN, Decide(r, b) \/ UndoTpm(r, b) \/ UndoRpm(r, b) \/ RecordAdmission(r, b) PROVE Other
  BY <1>5 DEF Decide, UndoTpm, UndoRpm, RecordAdmission, Leave, LeaveUnless, quotaVars
<1>6. CASE Consume(r) \/ ConsumeFails(r) \/ Finish(r) \/ Release(r) \/ ReleaseFails(r)
  BY <1>6 DEF Consume, ConsumeFails, Finish, Release, ReleaseFails, DeleteHold, Leave, quotaVars
<1>7. ASSUME NEW n \in Usages \cup {Unknown}, RecordUsage(r, n) PROVE Other
  <2>1. pc' = [pc EXCEPT ![r] = "running"] /\ UNCHANGED faults /\ UNCHANGED <<enabled, lost>> /\ pc[r] = "running"
    BY <1>7 DEF RecordUsage, requestVars, InsertUsage
  <2> QED BY <2>1
<1> QED BY <1>1, <1>2, <1>3, <1>4, <1>5, <1>6, <1>7 DEF RequestStep

LEMMA ClosedStep ==
  ASSUME RequestsTypeOK, QuotaTypeOK, Closing, Closed, [Next]_vars
  PROVE  Closing' /\ Closed'
<1> USE DEF RequestsTypeOK, QuotaTypeOK, Closing, Closed, Goto, Fault
<1>1. ASSUME NEW r \in Requests, RequestStep(r) PROVE Closing' /\ Closed'
  <2>1. CASE RecordFails(r)
    <3>1. /\ pc' = [pc EXCEPT ![r] = "disabling"] /\ lost' = lost \cup {r}
          /\ UNCHANGED enabled /\ faults' = faults + 1 /\ pc[r] = "running"
      BY <2>1 DEF RecordFails, UsageLost
    <3>2. Closing'
      BY <3>1
    <3>3. faults > 1 => faults' > 1
      BY <3>1
    <3>4. \A q \in lost' : q = r \/ (q \in lost /\ pc'[q] = pc[q])
      BY <3>1
    <3>5. pc'[r] = "disabling"
      BY <3>1
    <3>6. Closed'
      BY <3>1, <3>3, <3>4, <3>5
    <3> QED BY <3>2, <3>6
  <2>2. ASSUME NEW ok \in BOOLEAN, Disable(r, ok) PROVE Closing' /\ Closed'
    <3>1. /\ pc' = [pc EXCEPT ![r] = "running"] /\ lost' = lost /\ pc[r] = "disabling" /\ faults > 0
          /\ enabled' = (enabled /\ ~ok) /\ (ok => faults' = faults) /\ (~ok => faults' = faults + 1)
      BY <2>2 DEF Disable, DisableKey
    <3>2. Closing'
      BY <3>1
    <3>3. CASE ok
      <4>1. ~enabled'
        BY <3>1, <3>3
      <4> QED BY <3>2, <4>1
    <3>4. CASE ~ok
      <4>1. faults' > 1
        BY <3>1, <3>4
      <4> QED BY <3>2, <4>1
    <3> QED BY <3>3, <3>4
  <2>3. ASSUME UNCHANGED <<enabled, lost>>, Fault \/ UNCHANGED faults, pc[r] \notin {"disabling", "crashed"},
               NEW l \in Labels \ {"disabling"}, Goto(r, l)
        PROVE  Closing' /\ Closed'
    BY <2>3
  <2> QED BY <1>1, <2>1, <2>2, <2>3, ClosingSteps
<1>2. ASSUME NEW g \in Gateways, Crash(g) PROVE Closing' /\ Closed'
  <2>1. UNCHANGED <<enabled, lost>>
    BY <1>2 DEF Crash, RollBack, quotaVars
  <2> QED BY <1>2, <2>1 DEF Crash
<1>3. CASE (\E d \in Dimensions : MinuteEnds(d)) \/ Tick \/ UNCHANGED vars
  <2>1. UNCHANGED <<enabled, lost, pc, faults>>
    BY <1>3 DEF MinuteEnds, Tick, vars, requestVars, quotaVars
  <2> QED BY <2>1
<1> QED BY <1>1, <1>2, <1>3 DEF Next

\* Whatever races with it, the loss of a usage row closes the key to requests that
\* are not authorised yet, unless disabling it failed as well
\* (settleManagedKeyQuotaUsage and its caller, downstream_quota.go 335-347).
THEOREM LossCloses == Spec => LossClosesKey
<1> DEFINE Step == \A r \in Requests :
             pc[r] = "new" /\ pc'[r] \in {"read", "admit"} =>
               faults > 1 \/ \A q \in lost : pc[q] = "disabling" \/ pc[q] = "crashed"
<1> DEFINE ClosedInv == RequestsTypeOK /\ QuotaTypeOK /\ Closing /\ Closed
<1>1. Init => ClosedInv
  <2>1. Init => faults = 0 /\ enabled = TRUE /\ lost = {} /\ \A r \in Requests : pc[r] = "new"
    BY DEF Init, RequestsInit, QuotaInit
  <2> QED BY <2>1, QuotaInvInit DEF QuotaInv, Closing, Closed
<1>2. ClosedInv /\ [Next]_vars => ClosedInv'
  BY RequestsType, QuotaType, ClosedStep
<1>3. ClosedInv /\ [Next]_vars => [Step]_vars
  <2> SUFFICES ASSUME ClosedInv, Next, NEW r \in Requests, pc[r] = "new", pc'[r] \in {"read", "admit"}
               PROVE  enabled
    BY DEF Closed
  <2>1. ASSUME NEW q \in Requests, RequestStep(q) PROVE enabled
    <3>1. q = r
      BY <2>1, StepMoves DEF Moves, Goto, RequestsTypeOK
    <3>2. Authorize(r)
      BY <2>1, <3>1 DEF RequestStep, BeginReserve, RefuseQuota, ReserveFails, Reserve, ReserveUnacknowledged, Arrive,
        RefuseAddress, Unlimited, RpmFailsOpen, TpmFailsOpen, IncrementRpm, IncrementTpm, Decide, UndoTpm, UndoRpm,
        RecordAdmission, Disable, Consume, ConsumeFails, RecordUsage, RecordFails, Finish, Release, ReleaseFails
    <3> QED BY <3>2 DEF Authorize, Goto, RequestsTypeOK
  <2>2. ASSUME NEW g \in Gateways, Crash(g) PROVE FALSE
    BY <2>2 DEF Crash, RequestsTypeOK
  <2>3. ASSUME (\E d \in Dimensions : MinuteEnds(d)) \/ Tick PROVE FALSE
    BY <2>3 DEF MinuteEnds, Tick, requestVars
  <2> QED BY <2>1, <2>2, <2>3 DEF Next
<1> QED BY <1>1, <1>2, <1>3, PTL DEF Spec, LossClosesKey

-----------------------------------------------------------------------------
(* The windows of admission are well formed *)

Entry == [at : 0..MaxTime[key], tokens : Nat]
Counter == [val : Nat, armed : BOOLEAN]

LEMMA PruneType ==
  ASSUME NEW S, NEW w \in Seq(S), NEW t
  PROVE  Prune(w, t) \in Seq(S)
<1> DEFINE old == {i \in DOMAIN w : \A j \in 1..i : w[j].at < t - Minute}
<1>1. old \subseteq 1..Len(w) /\ Len(w) \in Nat
  OBVIOUS
<1>2. IsFiniteSet(1..Len(w)) /\ Cardinality(1..Len(w)) = Len(w)
  BY <1>1, FS_Interval
<1>3. Cardinality(old) \in Nat /\ Cardinality(old) <= Len(w)
  BY <1>1, <1>2, FS_Subset, FS_CardinalityType
<1>4. Old(w, t) \in 0..Len(w)
  BY <1>1, <1>3 DEF Old
<1> QED BY <1>1, <1>4, SubSeqProperties DEF Prune

LEMMA CounterType ==
  ASSUME NEW c \in Counter, NEW n \in Nat
  PROVE  Increment(c, n) \in Counter /\ Unanswered(c, n) \in Counter /\ RolledBack(c, n) \in Counter
  BY DEF Increment, Unanswered, RolledBack, Absent, Counter

\* Whatever a counter answers, and however its commands fail, it is one.
LEMMA RepliesType ==
  ASSUME NEW d, counter[d] \in Counter, NEW n \in Nat
  PROVE  /\ \A x \in Answers(d, n) : x[1] \in Counter
         /\ Errors(d, n) \subseteq Counter /\ Rollbacks(counter[d], n) \subseteq Counter
<1> DEFINE c == counter[d]
<1>1. Increment(c, n) \in Counter /\ Unanswered(c, n) \in Counter /\ RolledBack(c, n) \in Counter
  BY CounterType
<1>2. /\ Unanswered(Increment(c, n), n) \in Counter /\ Unanswered(Unanswered(c, n), n) \in Counter
      /\ RolledBack(RolledBack(c, n), n) \in Counter
  BY <1>1, CounterType
<1>3. \A x \in Answers(d, n) : x[1] \in {Increment(c, n), Unanswered(Increment(c, n), n), Unanswered(Unanswered(c, n), n)}
  <2>1. \A a, b : <<a, b>>[1] = a
    OBVIOUS
  <2>2. \A x \in Answers(d, n) : \/ x = <<Increment(c, n), FALSE>> \/ x = <<Unanswered(Increment(c, n), n), TRUE>>
                                \/ x = <<Unanswered(Unanswered(c, n), n), TRUE>>
    BY Zenon DEF Answers
  <2> QED BY <2>1, <2>2, Zenon
<1> QED BY <1>1, <1>2, <1>3 DEF Errors, Rollbacks

LEMMA WindowTypes ==
  ASSUME RequestsTypeOK, AdmissionTypeOK, NEW r \in Requests
  PROVE  /\ Window(r) \in Seq(Entry) /\ Reserved(r) \in Seq(Entry)
         /\ \A d \in Dimensions : Delta(r, d) \in Nat
<1> USE DEF RequestsTypeOK, AdmissionTypeOK
<1>1. home[r] \in Gateways /\ local[home[r]] \in Seq(Entry)
  BY DEF Entry
<1>2. Window(r) \in Seq(Entry)
  BY <1>1, PruneType DEF Window
<1>3. [at |-> call[r].at, tokens |-> call[r].tokens] \in Entry
  BY DEF Entry
<1>4. Reserved(r) \in Seq(Entry)
  BY <1>2, <1>3, AppendProperties DEF Reserved
<1> QED BY <1>2, <1>4 DEF Delta, Dimensions

LEMMA RecordType ==
  ASSUME RequestsTypeOK, AdmissionTypeOK, NEW r \in Requests, key' = key,
         Record(r) \/ (local' = [local EXCEPT ![home[r]] = Window(r)] /\ UNCHANGED passed)
  PROVE  /\ local' \in [Gateways -> Seq(Entry)]
         /\ passed' \in [Requests -> [done : BOOLEAN, shared : SUBSET Dimensions, tokens : Nat,
                                      prompt : BOOLEAN, at : 0..MaxTime[key]]]
<1> USE DEF RequestsTypeOK, AdmissionTypeOK
<1>1. Window(r) \in Seq(Entry) /\ Reserved(r) \in Seq(Entry) /\ local \in [Gateways -> Seq(Entry)]
  BY WindowTypes DEF Entry
<1>2. CASE Record(r)
  <2> DEFINE prompt == call[r].at = now /\ call[r].counted # Dimensions
  <2> DEFINE verdict == [done |-> TRUE, shared |-> call[r].counted, tokens |-> call[r].tokens,
                         prompt |-> prompt, at |-> IF prompt THEN now ELSE 0]
  <2>1. local' = [local EXCEPT ![home[r]] = Reserved(r)] /\ passed' = [passed EXCEPT ![r] = verdict]
    BY <1>2 DEF Record
  <2>2. verdict \in [done : BOOLEAN, shared : SUBSET Dimensions, tokens : Nat, prompt : BOOLEAN, at : 0..MaxTime[key]]
    OBVIOUS
  <2> HIDE DEF verdict
  <2> QED BY <1>1, <2>1, <2>2
<1>3. CASE local' = [local EXCEPT ![home[r]] = Window(r)] /\ UNCHANGED passed
  BY <1>1, <1>3
<1> QED BY <1>2, <1>3

LEMMA ReturnType ==
  ASSUME RequestsTypeOK, AdmissionTypeOK, NEW r \in Requests, key' = key, Return(r) \/ UNCHANGED call
  PROVE  call' \in [Requests -> [at : 0..MaxTime[key], tokens : Nat, counted : SUBSET Dimensions]]
<1>1. NoCall \in [at : 0..MaxTime[key], tokens : Nat, counted : SUBSET Dimensions]
  BY DEF NoCall, RequestsTypeOK
<1> QED BY <1>1 DEF Return, AdmissionTypeOK

\* What the steps do to the windows.
Touches(r) ==
  \/ UNCHANGED admissionVars
  \/ \E n \in Estimates : ReadClock(r, n)
  \/ \E ok \in BOOLEAN : DecideLocally(r, ok) \/ RecordShared(r, ok)
  \/ \E d \in Dimensions, a, b \in BOOLEAN : Count(r, d, a, b) \/ RollBackCount(r, d, a, b)
  \/ \E d \in Dimensions : FailOpen(r, d)

LEMMA AdmissionSteps ==
  ASSUME NEW r \in Requests, RequestStep(r)
  PROVE  Touches(r)
<1> USE DEF Touches, Dimensions
<1>1. CASE Authorize(r) \/ BeginReserve(r) \/ RefuseQuota(r) \/ ReserveFails(r) \/ RefuseAddress(r) \/ Unlimited(r)
  BY <1>1 DEF Authorize, BeginReserve, RefuseQuota, ReserveFails, RefuseAddress, Unlimited
<1>2. ASSUME NEW n \in Estimates, Reserve(r, n) \/ ReserveUnacknowledged(r, n) \/ Arrive(r, n) PROVE Touches(r)
  BY <1>2 DEF Reserve, ReserveUnacknowledged, Arrive
<1>3. CASE RpmFailsOpen(r) \/ TpmFailsOpen(r)
  BY <1>3 DEF RpmFailsOpen, TpmFailsOpen
<1>4. ASSUME NEW a \in BOOLEAN, NEW b \in BOOLEAN, IncrementRpm(r, a, b) \/ IncrementTpm(r, a, b) PROVE Touches(r)
  BY <1>4 DEF IncrementRpm, IncrementTpm
<1>5. ASSUME NEW b \in BOOLEAN, Decide(r, b) \/ UndoTpm(r, b) \/ UndoRpm(r, b) \/ RecordAdmission(r, b) \/ Disable(r, b)
      PROVE  Touches(r)
  <2>1. CASE UndoTpm(r, b)
    <3>1. ("rpm" \notin call[r].counted) \in BOOLEAN
      OBVIOUS
    <3> QED BY <2>1, <3>1 DEF UndoTpm
  <2> QED BY <1>5, <2>1 DEF Decide, UndoRpm, RecordAdmission, Disable
<1>6. CASE Consume(r) \/ ConsumeFails(r) \/ RecordFails(r) \/ Finish(r) \/ Release(r) \/ ReleaseFails(r)
  BY <1>6 DEF Consume, ConsumeFails, RecordFails, Finish, Release, ReleaseFails
<1>7. ASSUME NEW n \in Usages \cup {Unknown}, RecordUsage(r, n) PROVE Touches(r)
  BY <1>7 DEF RecordUsage
<1> QED BY <1>1, <1>2, <1>3, <1>4, <1>5, <1>6, <1>7 DEF RequestStep

LEMMA WindowsStep ==
  ASSUME RequestsTypeOK, AdmissionTypeOK, key' = key, UNCHANGED <<now, home>>, NEW r \in Requests, Touches(r)
  PROVE  AdmissionTypeOK'
<1> USE DEF RequestsTypeOK, AdmissionTypeOK
<1>1. /\ local \in [Gateways -> Seq(Entry)] /\ counter \in [Dimensions -> Counter]
      /\ Window(r) \in Seq(Entry) /\ \A d \in Dimensions : Delta(r, d) \in Nat
  BY WindowTypes DEF Entry, Counter
<1>2. ASSUME local' \in [Gateways -> Seq(Entry)], counter' \in [Dimensions -> Counter],
             sharedMu' \in [Gateways -> Requests \cup {NoRequest}],
             call' \in [Requests -> [at : 0..MaxTime[key], tokens : Nat, counted : SUBSET Dimensions]],
             undone' \in BOOLEAN, joined' \in [Dimensions -> SUBSET Requests],
             passed' \in [Requests -> [done : BOOLEAN, shared : SUBSET Dimensions, tokens : Nat,
                                       prompt : BOOLEAN, at : 0..MaxTime[key]]]
      PROVE  AdmissionTypeOK'
  BY <1>2 DEF Entry, Counter
<1>3. CASE UNCHANGED admissionVars
  BY <1>1, <1>2, <1>3 DEF admissionVars
<1>4. ASSUME NEW n \in Estimates, ReadClock(r, n) PROVE AdmissionTypeOK'
  <2> DEFINE new == [at |-> now, tokens |-> IF key.tpm = NoLimit THEN 0 ELSE n, counted |-> {}]
  <2>1. new \in [at : 0..MaxTime[key], tokens : Nat, counted : SUBSET Dimensions]
    BY QuotaAssumption
  <2>2. call' = [call EXCEPT ![r] = new] /\ UNCHANGED <<sharedMu, counter, undone, joined, passed>>
    BY <1>4 DEF ReadClock
  <2>3. call' \in [Requests -> [at : 0..MaxTime[key], tokens : Nat, counted : SUBSET Dimensions]]
    <3> HIDE DEF new
    <3> QED BY <2>1, <2>2
  <2>4. Prune(local[home[r]], now) \in Seq(Entry)
    BY <1>1, PruneType
  <2>5. local' \in [Gateways -> Seq(Entry)]
    BY <1>1, <1>4, <2>4 DEF ReadClock
  <2> QED BY <1>1, <1>2, <2>2, <2>3, <2>5
<1>5. ASSUME NEW ok \in BOOLEAN, DecideLocally(r, ok) PROVE AdmissionTypeOK'
  <2>1. /\ Record(r) \/ (local' = [local EXCEPT ![home[r]] = Window(r)] /\ UNCHANGED passed)
        /\ Return(r) /\ UNCHANGED <<sharedMu, counter, undone, joined>>
    BY <1>5 DEF DecideLocally
  <2> QED BY <1>1, <1>2, <2>1, RecordType, ReturnType
<1>6. ASSUME NEW ok \in BOOLEAN, RecordShared(r, ok) PROVE AdmissionTypeOK'
  <2>1. /\ Record(r) \/ (local' = [local EXCEPT ![home[r]] = Window(r)] /\ UNCHANGED passed)
        /\ Return(r) /\ UNCHANGED <<counter, undone, joined>>
        /\ sharedMu' = [sharedMu EXCEPT ![home[r]] = NoRequest]
    BY <1>6 DEF RecordShared
  <2> QED BY <1>1, <1>2, <2>1, RecordType, ReturnType
<1>7. ASSUME NEW d \in Dimensions, NEW a \in BOOLEAN, NEW b \in BOOLEAN, Count(r, d, a, b) PROVE AdmissionTypeOK'
  <2>1. PICK x \in Answers(d, Delta(r, d)) :
          Write(d, x[1]) /\ call' = [call EXCEPT ![r].counted = IF a THEN @ ELSE @ \cup {d}]
    BY <1>7 DEF Count
  <2>2. x[1] \in Counter
    BY <1>1, RepliesType
  <2>3. call' \in [Requests -> [at : 0..MaxTime[key], tokens : Nat, counted : SUBSET Dimensions]]
    <3> DEFINE counted == IF a THEN call[r].counted ELSE call[r].counted \cup {d}
    <3>1. counted \in SUBSET Dimensions
      OBVIOUS
    <3>2. [call[r] EXCEPT !.counted = counted] \in [at : 0..MaxTime[key], tokens : Nat, counted : SUBSET Dimensions]
      <4>1. call[r] \in [at : 0..MaxTime[key], tokens : Nat, counted : SUBSET Dimensions]
        OBVIOUS
      <4> HIDE DEF counted, AdmissionTypeOK
      <4> QED BY <3>1, <4>1
    <3>3. call' = [call EXCEPT ![r] = [call[r] EXCEPT !.counted = counted]]
      BY <2>1
    <3> HIDE DEF counted
    <3> QED BY <3>2, <3>3
  <2>4. /\ sharedMu' = [sharedMu EXCEPT ![home[r]] = r] /\ joined' = [joined EXCEPT ![d] = @ \cup {r}]
        /\ UNCHANGED <<local, undone, passed>>
    BY <1>7 DEF Count, Joins
  <2> QED BY <1>1, <1>2, <2>1, <2>2, <2>3, <2>4 DEF Write
<1>8. ASSUME NEW d \in Dimensions, FailOpen(r, d) PROVE AdmissionTypeOK'
  <2>1. PICK c \in Errors(d, Delta(r, d)) :
          Write(d, c) /\ (UNCHANGED joined \/ joined' = [joined EXCEPT ![d] = @ \cup {r}])
    BY <1>8 DEF FailOpen, Joins
  <2>2. c \in Counter
    BY <1>1, RepliesType
  <2>3. Return(r) \/ UNCHANGED call
    BY <1>8 DEF FailOpen
  <2>4. local' \in [Gateways -> Seq(Entry)] /\ sharedMu' \in [Gateways -> Requests \cup {NoRequest}]
    BY <1>1, <1>8 DEF FailOpen
  <2>5. UNCHANGED <<undone, passed>>
    BY <1>8 DEF FailOpen
  <2>6. call' \in [Requests -> [at : 0..MaxTime[key], tokens : Nat, counted : SUBSET Dimensions]]
    BY <2>3, ReturnType
  <2>7. counter' \in [Dimensions -> Counter]
    BY <1>1, <2>1, <2>2 DEF Write
  <2>8. joined' \in [Dimensions -> SUBSET Requests]
    <3>1. joined \in [Dimensions -> SUBSET Requests]
      OBVIOUS
    <3>2. joined' = joined \/ joined' = [joined EXCEPT ![d] = joined[d] \cup {r}]
      BY <2>1
    <3> HIDE DEF AdmissionTypeOK, RequestsTypeOK
    <3> QED BY <3>1, <3>2
  <2> QED BY <1>2, <2>4, <2>5, <2>6, <2>7, <2>8
<1>9. ASSUME NEW d \in Dimensions, NEW a \in BOOLEAN, NEW b \in BOOLEAN, RollBackCount(r, d, a, b) PROVE AdmissionTypeOK'
  <2> DEFINE once == RolledBack(counter[d], Delta(r, d))
  <2>1. PICK c \in Rollbacks(counter[d], Delta(r, d)) :
          /\ Write(d, c)
          /\ undone' = (undone \/ (r \notin joined[d] /\ c # counter[d]) \/ c \notin {once, counter[d]})
          /\ joined' = [joined EXCEPT ![d] = IF c = Absent THEN {} ELSE IF c = counter[d] THEN @ ELSE @ \ {r}]
    BY <1>9 DEF RollBackCount
  <2>2. c \in Counter
    BY <1>1, RepliesType
  <2>3. undone' \in BOOLEAN /\ joined' \in [Dimensions -> SUBSET Requests]
    <3> HIDE DEF once
    <3> QED BY <2>1
  <2>4. /\ Return(r) \/ UNCHANGED call
        /\ sharedMu' \in [Gateways -> Requests \cup {NoRequest}]
        /\ UNCHANGED <<local, passed>>
    BY <1>9 DEF RollBackCount
  <2>5. call' \in [Requests -> [at : 0..MaxTime[key], tokens : Nat, counted : SUBSET Dimensions]]
    BY <2>4, ReturnType
  <2>6. counter' \in [Dimensions -> Counter]
    BY <1>1, <2>1, <2>2 DEF Write
  <2>7. local' \in [Gateways -> Seq(Entry)]
    BY <1>1, <2>4
  <2>8. passed' = passed
    BY <2>4
  <2>9. passed \in [Requests -> [done : BOOLEAN, shared : SUBSET Dimensions, tokens : Nat,
                                 prompt : BOOLEAN, at : 0..MaxTime[key]]]
    OBVIOUS
  <2> HIDE DEF AdmissionTypeOK, RequestsTypeOK
  <2> QED BY <1>2, <2>3, <2>4, <2>5, <2>6, <2>7, <2>8, <2>9
<1> HIDE DEF RequestsTypeOK, AdmissionTypeOK
<1> QED BY <1>3, <1>4, <1>5, <1>6, <1>7, <1>8, <1>9, Zenon DEF Touches

LEMMA AdmissionType ==
  ASSUME RequestsTypeOK, AdmissionTypeOK, [Next]_vars
  PROVE  AdmissionTypeOK'
<1> USE DEF RequestsTypeOK, AdmissionTypeOK
<1>1. ASSUME NEW r \in Requests, RequestStep(r) PROVE AdmissionTypeOK'
  BY <1>1, StepMoves, AdmissionSteps, WindowsStep DEF Moves
<1>2. ASSUME NEW g \in Gateways, Crash(g) PROVE AdmissionTypeOK'
  <2>1. UNCHANGED <<key, counter, undone, joined>> /\ Forget(g)
    BY <1>2 DEF Crash, Forget
  <2>2. NoCall \in [at : 0..MaxTime[key], tokens : Nat, counted : SUBSET Dimensions] /\ MaxTime[key] \in Nat
    BY DEF NoCall
  <2>3. call' \in [Requests -> [at : 0..MaxTime[key], tokens : Nat, counted : SUBSET Dimensions]]
    BY <2>1, <2>2 DEF Forget
  <2>4. <<>> \in Seq([at : 0..MaxTime[key], tokens : Nat])
    OBVIOUS
  <2>5. local' \in [Gateways -> Seq([at : 0..MaxTime[key], tokens : Nat])]
    BY <2>1, <2>4 DEF Forget
  <2>6. passed' \in [Requests -> [done : BOOLEAN, shared : SUBSET Dimensions, tokens : Nat,
                                  prompt : BOOLEAN, at : 0..MaxTime[key]]]
    <3> DEFINE Verdict == [done : BOOLEAN, shared : SUBSET Dimensions, tokens : Nat,
                           prompt : BOOLEAN, at : 0..MaxTime[key]]
    <3>1. ASSUME NEW r \in Requests
          PROVE  passed[r] \in Verdict /\ [passed[r] EXCEPT !.prompt = FALSE, !.at = 0] \in Verdict
      <4>1. passed[r] \in Verdict
        OBVIOUS
      <4>2. [[passed[r] EXCEPT !.prompt = FALSE] EXCEPT !.at = 0] \in Verdict
        <5> DEFINE v == [passed[r] EXCEPT !.prompt = FALSE]
        <5>1. v \in Verdict
          BY <4>1
        <5>2. 0 \in 0..MaxTime[key]
          <6> HIDE DEF AdmissionTypeOK, RequestsTypeOK
          <6> QED BY <2>2
        <5>3. [v EXCEPT !.at = 0] \in Verdict
          <6> HIDE DEF AdmissionTypeOK, RequestsTypeOK, v
          <6> QED BY <5>1, <5>2
        <5> QED BY <5>3
      <4> QED BY <4>1, <4>2, Zenon
    <3>2. passed' = [r \in Requests |-> IF home[r] = g THEN [passed[r] EXCEPT !.prompt = FALSE, !.at = 0] ELSE passed[r]]
      BY <2>1 DEF Forget
    <3>3. passed' \in [Requests -> Verdict]
      <4> HIDE DEF Verdict
      <4> QED BY <3>1, <3>2
    <3> QED BY <3>3
  <2> QED BY <2>1, <2>3, <2>5, <2>6 DEF Forget
<1>3. ASSUME NEW d \in Dimensions, MinuteEnds(d) PROVE AdmissionTypeOK'
  <2>1. /\ UNCHANGED <<key, call, local, sharedMu, undone, passed>>
        /\ counter' = [counter EXCEPT ![d] = Absent] /\ joined' = [joined EXCEPT ![d] = {}]
    BY <1>3 DEF MinuteEnds, Expire, Write, requestVars
  <2> QED BY <2>1 DEF Absent
<1>4. CASE Tick \/ UNCHANGED vars
  <2>1. UNCHANGED <<key, admissionVars>>
    BY <1>4 DEF Tick, vars, requestVars
  <2> QED BY <2>1 DEF admissionVars
<1> QED BY <1>1, <1>2, <1>3, <1>4 DEF Next

-----------------------------------------------------------------------------
(* The request count *)

UsedOK == used \in Nat /\ (key.max # NoLimit => used <= key.max)

LEMMA UsedType ==
  ASSUME RequestsTypeOK, UsedOK, [Next]_vars
  PROVE  UsedOK'
<1> USE DEF UsedOK
<1>1. ASSUME NEW r \in Requests, RequestStep(r) PROVE UsedOK'
  <2>1. key' = key /\ key.max \in Nat
    BY <1>1, StepMoves DEF Moves, RequestsTypeOK, Settings
  <2>2. CASE Consume(r) \/ ConsumeFails(r)
    BY <2>1, <2>2 DEF Consume, ConsumeFails
  <2>3. CASE UNCHANGED used
    BY <2>1, <2>3
  <2> QED BY <1>1, <2>2, <2>3 DEF RequestStep, Authorize, BeginReserve, RefuseQuota, ReserveFails, Reserve,
    ReserveUnacknowledged, Arrive, RefuseAddress, Unlimited, RpmFailsOpen, TpmFailsOpen, IncrementRpm, IncrementTpm,
    Decide, UndoTpm, UndoRpm, RecordAdmission, Disable, RecordUsage, RecordFails, Finish, Release, ReleaseFails
<1>2. CASE (\E g \in Gateways : Crash(g)) \/ (\E d \in Dimensions : MinuteEnds(d)) \/ Tick \/ UNCHANGED vars
  <2>1. UNCHANGED <<key, used>>
    BY <1>2 DEF Crash, MinuteEnds, Tick, vars, requestVars
  <2> QED BY <2>1
<1> QED BY <1>1, <1>2 DEF Next

LEMMA TypeInit == Init => RequestsTypeOK /\ QuotaTypeOK /\ AdmissionTypeOK /\ UsedOK
<1> SUFFICES ASSUME Init PROVE RequestsTypeOK /\ QuotaTypeOK /\ AdmissionTypeOK /\ UsedOK
  OBVIOUS
<1>1. RequestsTypeOK /\ QuotaTypeOK
  BY QuotaInvInit DEF QuotaInv
<1>2. key \in Keys /\ MaxTime[key] \in Nat /\ key.max \in Nat
  BY <1>1 DEF RequestsTypeOK, Settings
<1>3. AdmissionTypeOK
  <2>1. call \in [Requests -> [at : 0..MaxTime[key], tokens : Nat, counted : SUBSET Dimensions]]
    BY <1>2 DEF Init, AdmissionInit, NoCall
  <2>2. passed \in [Requests -> [done : BOOLEAN, shared : SUBSET Dimensions, tokens : Nat,
                                 prompt : BOOLEAN, at : 0..MaxTime[key]]]
    BY <1>2 DEF Init, AdmissionInit, NotPassed
  <2>3. local \in [Gateways -> Seq([at : 0..MaxTime[key], tokens : Nat])]
    BY DEF Init, AdmissionInit
  <2>4. counter \in [Dimensions -> [val : Nat, armed : BOOLEAN]]
    BY DEF Init, AdmissionInit, Absent
  <2> QED BY <2>1, <2>2, <2>3, <2>4 DEF Init, AdmissionInit, AdmissionTypeOK
<1>4. UsedOK
  BY <1>2 DEF Init, UsedOK
<1> QED BY <1>1, <1>3, <1>4

\* The state of a key is well formed for every number of requests and gateways, and
\* consumeManagedKeyRequest never takes the count past its limit
\* (auth/downstream.go 344-373).
THEOREM TypeCorrect == Spec => []TypeOK
<1> DEFINE TypeInv == RequestsTypeOK /\ QuotaTypeOK /\ AdmissionTypeOK /\ UsedOK
<1>1. Init => TypeInv
  BY TypeInit
<1>2. TypeInv /\ [Next]_vars => TypeInv'
  BY RequestsType, QuotaType, AdmissionType, UsedType
<1>3. TypeInv => TypeOK
  BY DEF UsedOK, TypeOK
<1> QED BY <1>1, <1>2, <1>3, PTL DEF Spec

-----------------------------------------------------------------------------
(* The shared windows *)

Early == {"new", "read", "summing", "admit"}
Within == {"decide", "rpm", "undoRpm", "tpm", "undoTpm", "record"}
Typed == RequestsTypeOK /\ AdmissionTypeOK

\* Where a request stands in Allow says whether it passed, which counters hold its
\* increment and who makes the round trips of its process; without faults also which
\* counters answered.
LifeOf(r) ==
  /\ pc[r] \in Early \cup Within => ~passed[r].done
  /\ pc[r] \in Early \cup {"decide", "rpm"} => \A d \in Dimensions : r \notin joined[d]
  /\ pc[r] = "rpm" => call[r].counted = {}
  /\ pc[r] = "tpm" => r \notin joined["tpm"] /\ "tpm" \notin call[r].counted
  /\ pc[r] \in {"undoRpm", "undoTpm", "record"} => sharedMu[home[r]] = r
  /\ pc[r] \in {"tpm", "undoTpm"} => call[r].tokens > 0
  /\ pc[r] = "rpm" /\ key.tpm # NoLimit => call[r].tokens > 0
  /\ faults = 0 => /\ pc[r] = "undoRpm" => r \notin joined["tpm"]
                   /\ pc[r] \in {"tpm", "undoTpm"} /\ r \in joined["rpm"] => "rpm" \in call[r].counted
                   /\ pc[r] = "record" /\ key.tpm # NoLimit => "tpm" \in call[r].counted
Life == \A r \in Requests : LifeOf(r)

\* What a request adds to a counter, in Allow or passed.
Weights(d) == [r \in Requests |-> IF passed[r].done THEN Weight(r, d) ELSE Delta(r, d)]
\* The requests that a counter let in, and those that still account for what it holds.
In(d) == {r \in joined[d] : d \in call[r].counted \/ (passed[r].done /\ d \in passed[r].shared)}
Live(d) == {r \in joined[d] : sharedMu[home[r]] = r \/ passed[r].done}

Cover(d) == /\ SumOf(Weights(d), joined[d]) <= counter[d].val
            /\ key[d] # NoLimit => SumOf(Weights(d), In(d)) <= key[d]
Trace(d) == counter[d].val <= SumOf(Weights(d), Live(d))

Covered == ~undone => \A d \in Dimensions : Cover(d)
Traced == faults = 0 => \A d \in Dimensions : Trace(d)
Shared == Typed /\ Life /\ Covered /\ Traced

LEMMA SharedTypes ==
  ASSUME Typed, NEW d \in Dimensions
  PROVE  /\ joined[d] \in SUBSET Requests /\ IsFiniteSet(joined[d]) /\ In(d) \subseteq joined[d] /\ Live(d) \subseteq joined[d]
         /\ counter[d].val \in Nat /\ key[d] \in Nat
         /\ \A r \in Requests : Weights(d)[r] \in Nat /\ Delta(r, d) \in Nat
         /\ \A r \in Requests : Weights(d)[r] = IF passed[r].done THEN Weight(r, d) ELSE Delta(r, d)
<1>1. joined[d] \in SUBSET Requests /\ In(d) \subseteq joined[d] /\ Live(d) \subseteq joined[d]
  BY DEF Typed, AdmissionTypeOK, In, Live
<1>2. IsFiniteSet(joined[d])
  BY <1>1, FS_Subset
<1>3. counter[d].val \in Nat
  BY DEF Typed, AdmissionTypeOK
<1>4. key[d] \in Nat
  BY DEF Typed, RequestsTypeOK, Settings, Dimensions
<1>5. \A r \in Requests : Weight(r, d) \in Nat /\ Delta(r, d) \in Nat
  BY DEF Typed, AdmissionTypeOK, Weight, Delta, Dimensions
<1> QED BY <1>1, <1>2, <1>3, <1>4, <1>5 DEF Weights

\* A counter that gains, of which no request claims more, covers its requests still.
LEMMA CoverKept ==
  ASSUME Typed, NEW d \in Dimensions, Cover(d), key' = key,
         joined'[d] \subseteq joined[d], In(d)' \subseteq In(d), counter[d].val <= counter'[d].val, counter'[d].val \in Nat,
         \A q \in joined'[d] : Weights(d)'[q] \in Nat /\ Weights(d)'[q] <= Weights(d)[q]
  PROVE  Cover(d)'
<1>1. /\ joined[d] \in SUBSET Requests /\ IsFiniteSet(joined[d]) /\ In(d) \subseteq joined[d] /\ key[d] \in Nat
      /\ counter[d].val \in Nat /\ \A r \in joined[d] : Weights(d)[r] \in Nat
  BY SharedTypes
<1>2. In(d)' \subseteq joined'[d] /\ IsFiniteSet(In(d))
  BY <1>1, FS_Subset DEF In
<1>3. SumOf(Weights(d)', joined'[d]) <= SumOf(Weights(d), joined[d]) /\ SumOf(Weights(d)', joined'[d]) \in Int
      /\ SumOf(Weights(d), joined[d]) \in Int
  BY <1>1, SumGrows
<1>4. SumOf(Weights(d)', In(d)') <= SumOf(Weights(d), In(d)) /\ SumOf(Weights(d)', In(d)') \in Int
      /\ SumOf(Weights(d), In(d)) \in Int
  BY <1>1, <1>2, SumGrows
<1> QED BY <1>1, <1>3, <1>4 DEF Cover

\* An increment joins, and a request is let in only when the counter stays within the limit.
LEMMA CoverJoined ==
  ASSUME Typed, NEW d \in Dimensions, Cover(d), key' = key, NEW r \in Requests,
         joined'[d] = joined[d] \cup {r}, counter[d].val + Weights(d)[r] <= counter'[d].val, counter'[d].val \in Nat,
         \A q \in joined'[d] : Weights(d)'[q] = Weights(d)[q],
         In(d)' \subseteq In(d) \/ counter'[d].val <= key[d]
  PROVE  Cover(d)'
<1>1. /\ joined[d] \in SUBSET Requests /\ IsFiniteSet(joined[d]) /\ In(d) \subseteq joined[d] /\ key[d] \in Nat
      /\ counter[d].val \in Nat /\ \A q \in Requests : Weights(d)[q] \in Nat
  BY SharedTypes
<1>2. In(d)' \subseteq joined'[d] /\ IsFiniteSet(In(d)) /\ joined'[d] \in SUBSET Requests /\ IsFiniteSet(joined'[d])
  BY <1>1, FS_Subset, FS_AddElement DEF In
<1>3. \A q \in joined'[d] : Weights(d)'[q] \in Nat
  BY <1>1, <1>2
<1>4. SumOf(Weights(d)', joined'[d]) = SumOf(Weights(d), joined'[d])
  BY <1>2, SumSame
<1>5. SumOf(Weights(d), joined'[d]) <= SumOf(Weights(d), joined[d]) + Weights(d)[r] /\ SumOf(Weights(d), joined[d]) \in Int
      /\ SumOf(Weights(d), joined'[d]) \in Int
  <2>1. SumOf(Weights(d), joined[d]) \in Int /\ SumOf(Weights(d), joined'[d]) \in Int
    BY <1>1, <1>2, SumType
  <2>2. CASE r \in joined[d]
    <3>1. joined'[d] = joined[d] /\ Weights(d)[r] \in Nat
      BY <1>1, <2>2
    <3>2. SumOf(Weights(d), joined'[d]) = SumOf(Weights(d), joined[d])
      BY <3>1
    <3> QED BY <2>1, <3>1, <3>2
  <2>3. CASE r \notin joined[d]
    <3>1. \A q \in joined[d] \cup {r} : Weights(d)[q] \in Int
      BY <1>1
    <3>2. SumOf(Weights(d), joined[d] \cup {r}) = Weights(d)[r] + SumOf(Weights(d), joined[d])
      BY <1>1, <2>3, <3>1, SumAdd
    <3> QED BY <1>1, <2>1, <3>2
  <2> QED BY <2>2, <2>3
<1>6. SumOf(Weights(d)', joined'[d]) <= counter'[d].val
  BY <1>1, <1>4, <1>5 DEF Cover
<1>7. SumOf(Weights(d)', In(d)') <= SumOf(Weights(d)', joined'[d]) /\ SumOf(Weights(d)', In(d)') \in Int
      /\ SumOf(Weights(d)', joined'[d]) \in Int
  BY <1>2, <1>3, SumGrows
<1>8. In(d)' \subseteq In(d) => /\ SumOf(Weights(d)', In(d)') <= SumOf(Weights(d), In(d))
                               /\ SumOf(Weights(d), In(d)) \in Int
  BY <1>1, <1>2, <1>3, SumGrows
<1> QED BY <1>1, <1>6, <1>7, <1>8 DEF Cover

\* A decrement takes its own request with it.
LEMMA CoverLeft ==
  ASSUME Typed, NEW d \in Dimensions, Cover(d), key' = key, NEW r \in joined[d],
         joined'[d] = joined[d] \ {r}, counter'[d].val = counter[d].val - Weights(d)[r],
         \A q \in joined'[d] : Weights(d)'[q] = Weights(d)[q], In(d)' \subseteq In(d)
  PROVE  Cover(d)'
<1>1. /\ joined[d] \in SUBSET Requests /\ IsFiniteSet(joined[d]) /\ In(d) \subseteq joined[d] /\ key[d] \in Nat
      /\ counter[d].val \in Nat /\ \A q \in Requests : Weights(d)[q] \in Nat
  BY SharedTypes
<1>2. IsFiniteSet(In(d)) /\ joined'[d] \in SUBSET Requests /\ IsFiniteSet(joined'[d]) /\ In(d)' \subseteq joined'[d]
  BY <1>1, FS_Subset DEF In
<1>3. SumOf(Weights(d)', joined'[d]) = SumOf(Weights(d), joined'[d])
  BY <1>2, SumSame
<1>4. SumOf(Weights(d), joined[d]) = Weights(d)[r] + SumOf(Weights(d), joined'[d])
  BY <1>1, SumAny
<1>5. SumOf(Weights(d), joined[d]) \in Int /\ SumOf(Weights(d), joined'[d]) \in Int
  BY <1>1, <1>2, SumType
<1>6. \A q \in In(d)' : Weights(d)'[q] \in Int /\ Weights(d)'[q] <= Weights(d)[q]
  BY <1>1, <1>2
<1>7. SumOf(Weights(d)', In(d)') <= SumOf(Weights(d), In(d)) /\ SumOf(Weights(d)', In(d)') \in Int
      /\ SumOf(Weights(d), In(d)) \in Int
  BY <1>1, <1>2, <1>6, SumGrows
<1> QED BY <1>1, <1>3, <1>4, <1>5, <1>7 DEF Cover

\* The weights after a step, for the primed half of the lemmas below.
LEMMA SharedTypesNext ==
  ASSUME Typed', NEW d \in Dimensions
  PROVE  /\ joined'[d] \in SUBSET Requests /\ IsFiniteSet(joined'[d]) /\ Live(d)' \subseteq joined'[d]
         /\ counter'[d].val \in Nat /\ \A r \in Requests : Weights(d)'[r] \in Nat
<1>1. joined'[d] \in SUBSET Requests /\ Live(d)' \subseteq joined'[d]
  BY DEF Typed, AdmissionTypeOK, Live
<1>2. IsFiniteSet(joined'[d])
  BY <1>1, FS_Subset
<1>3. counter'[d].val \in Nat
  BY DEF Typed, AdmissionTypeOK
<1>4. \A r \in Requests : Weight(r, d)' \in Nat /\ Delta(r, d)' \in Nat
  BY DEF Typed, AdmissionTypeOK, Weight, Delta, Dimensions
<1>5. \A r \in Requests : Weights(d)'[r] = IF passed'[r].done THEN Weight(r, d)' ELSE Delta(r, d)'
  BY DEF Weights
<1> QED BY <1>1, <1>2, <1>3, <1>4, <1>5

\* A counter that holds no more, for no fewer requests, is accounted for still.
LEMMA TraceKept ==
  ASSUME Typed, Typed', NEW d \in Dimensions, Trace(d), counter'[d].val <= counter[d].val,
         Live(d) \subseteq Live(d)', \A q \in Live(d) : Weights(d)[q] <= Weights(d)'[q]
  PROVE  Trace(d)'
<1>1. Live(d) \subseteq Requests /\ counter[d].val \in Nat /\ \A q \in Requests : Weights(d)[q] \in Nat
  BY SharedTypes
<1>2. /\ Live(d)' \subseteq Requests /\ IsFiniteSet(Live(d)') /\ counter'[d].val \in Nat
      /\ \A q \in Requests : Weights(d)'[q] \in Nat
  BY SharedTypesNext, FS_Subset
<1>3. SumOf(Weights(d), Live(d)) <= SumOf(Weights(d)', Live(d)') /\ SumOf(Weights(d), Live(d)) \in Int
      /\ SumOf(Weights(d)', Live(d)') \in Int
  BY <1>1, <1>2, SumGrows
<1> QED BY <1>1, <1>2, <1>3 DEF Trace

LEMMA TraceJoined ==
  ASSUME Typed, Typed', NEW d \in Dimensions, Trace(d), NEW r \in Requests, r \notin joined[d],
         counter'[d].val <= counter[d].val + Weights(d)[r],
         Live(d) \cup {r} \subseteq Live(d)', \A q \in Live(d) \cup {r} : Weights(d)[q] = Weights(d)'[q]
  PROVE  Trace(d)'
<1>1. /\ Live(d) \subseteq Requests /\ IsFiniteSet(Live(d)) /\ r \notin Live(d) /\ counter[d].val \in Nat
      /\ \A q \in Requests : Weights(d)[q] \in Nat
  BY SharedTypes, FS_Subset DEF Live
<1>2. /\ Live(d)' \subseteq Requests /\ IsFiniteSet(Live(d)') /\ counter'[d].val \in Nat
      /\ \A q \in Requests : Weights(d)'[q] \in Nat
  BY SharedTypesNext, FS_Subset
<1>3. \A q \in Live(d) \cup {r} : Weights(d)[q] \in Int /\ Weights(d)[q] <= Weights(d)'[q]
  BY <1>1
<1>4. /\ SumOf(Weights(d), Live(d) \cup {r}) <= SumOf(Weights(d)', Live(d)')
      /\ SumOf(Weights(d)', Live(d)') \in Int
  BY <1>2, <1>3, SumGrows
<1>5. SumOf(Weights(d), Live(d) \cup {r}) = Weights(d)[r] + SumOf(Weights(d), Live(d))
  BY <1>1, <1>3, SumAdd
<1>6. SumOf(Weights(d), Live(d)) \in Int
  BY <1>1, SumType
<1> QED BY <1>1, <1>2, <1>4, <1>5, <1>6 DEF Trace

LEMMA TraceLeft ==
  ASSUME Typed, Typed', NEW d \in Dimensions, Trace(d), NEW r \in Requests,
         counter'[d].val <= counter[d].val - Weights(d)[r],
         Live(d) \ {r} \subseteq Live(d)', \A q \in Live(d) \ {r} : Weights(d)[q] = Weights(d)'[q]
  PROVE  Trace(d)'
<1>1. /\ Live(d) \subseteq Requests /\ IsFiniteSet(Live(d)) /\ counter[d].val \in Nat
      /\ \A q \in Requests : Weights(d)[q] \in Nat
  BY SharedTypes, FS_Subset
<1>2. /\ Live(d)' \subseteq Requests /\ IsFiniteSet(Live(d)') /\ counter'[d].val \in Nat
      /\ \A q \in Requests : Weights(d)'[q] \in Nat
  BY SharedTypesNext, FS_Subset
<1>3. \A q \in Live(d) \ {r} : Weights(d)[q] \in Int /\ Weights(d)[q] <= Weights(d)'[q]
  BY <1>1
<1>4. /\ SumOf(Weights(d), Live(d) \ {r}) <= SumOf(Weights(d)', Live(d)')
      /\ SumOf(Weights(d)', Live(d)') \in Int /\ SumOf(Weights(d), Live(d) \ {r}) \in Int
  BY <1>2, <1>3, SumGrows
<1>5. SumOf(Weights(d), Live(d)) <= Weights(d)[r] + SumOf(Weights(d), Live(d) \ {r})
  <2>1. CASE r \in Live(d)
    <3>1. \A q \in Live(d) : Weights(d)[q] \in Int
      BY <1>1
    <3>2. SumOf(Weights(d), Live(d)) = Weights(d)[r] + SumOf(Weights(d), Live(d) \ {r})
      BY <1>1, <2>1, <3>1, SumAny
    <3> QED BY <1>1, <1>4, <3>2
  <2>2. CASE r \notin Live(d)
    <3>1. Live(d) = Live(d) \ {r} /\ Weights(d)[r] \in Nat
      BY <1>1, <2>2
    <3>2. SumOf(Weights(d), Live(d)) = SumOf(Weights(d), Live(d) \ {r})
      BY <3>1
    <3> QED BY <1>4, <3>1, <3>2
  <2> QED BY <2>1, <2>2
<1>6. SumOf(Weights(d), Live(d)) \in Int
  BY <1>1, SumType
<1> QED BY <1>1, <1>2, <1>4, <1>5, <1>6 DEF Trace

\* What a step of r leaves of the others: they stay where they are, nobody joins a counter
\* and nobody loses the round trips.
Only(r) ==
  /\ UNCHANGED <<key, home>> /\ faults <= faults'
  /\ \A q \in Requests \ {r} : pc'[q] = pc[q] /\ call'[q] = call[q] /\ passed'[q] = passed[q]
  /\ \A q \in Requests \ {r}, d \in Dimensions : q \in joined'[d] => q \in joined[d]
  /\ \A q \in Requests \ {r} : sharedMu[home[q]] = q => sharedMu'[home[q]] = q

LEMMA LifeOthers ==
  ASSUME Typed, Typed', Life, NEW r \in Requests, Only(r), LifeOf(r)'
  PROVE  Life'
<1>1. faults \in Nat /\ faults' \in Nat /\ (faults' = 0 => faults = 0)
  BY DEF Typed, RequestsTypeOK, Only
<1>2. ASSUME NEW q \in Requests \ {r} PROVE LifeOf(q)'
  <2>1. LifeOf(q)
    BY DEF Life
  <2>2. /\ pc'[q] = pc[q] /\ call'[q] = call[q] /\ passed'[q] = passed[q] /\ home' = home /\ key' = key
        /\ \A d \in Dimensions : q \in joined'[d] => q \in joined[d]
        /\ sharedMu[home[q]] = q => sharedMu'[home[q]] = q
    BY DEF Only
  <2> QED BY <1>1, <2>1, <2>2 DEF LifeOf, Dimensions
<1> QED BY <1>2 DEF Life

LEMMA OthersWeigh ==
  ASSUME Typed, NEW r \in Requests, Only(r), NEW d \in Dimensions
  PROVE  /\ \A q \in Requests \ {r} : Weights(d)'[q] = Weights(d)[q]
         /\ \A q \in Requests \ {r} : q \in In(d)' => q \in In(d)
         /\ \A q \in Requests \ {r} : q \in Live(d) /\ q \in joined'[d] => q \in Live(d)'
<1>1. \A q \in Requests \ {r} : Weights(d)'[q] = Weights(d)[q]
  BY DEF Only, Weights, Weight, Delta
<1>2. \A q \in Requests \ {r} : q \in In(d)' => q \in In(d)
  BY DEF Only, In
<1>3. \A q \in Requests \ {r} : q \in Live(d) /\ q \in joined'[d] => q \in Live(d)'
  BY DEF Only, Live
<1> QED BY <1>1, <1>2, <1>3

\* A step of r that leaves a counter alone and claims no more of it.
LEMMA CoverQuiet ==
  ASSUME Typed, Typed', NEW r \in Requests, Only(r), NEW d \in Dimensions, Cover(d),
         counter'[d] = counter[d], joined'[d] = joined[d],
         r \in joined[d] => Weights(d)'[r] <= Weights(d)[r] /\ (r \in In(d)' => r \in In(d))
  PROVE  Cover(d)'
<1>1. /\ joined[d] \subseteq Requests /\ counter[d].val \in Nat
      /\ \A q \in Requests : Weights(d)[q] \in Nat /\ Weights(d)'[q] \in Nat
  BY SharedTypes, SharedTypesNext
<1>2. \A q \in joined'[d] : Weights(d)'[q] \in Nat /\ Weights(d)'[q] <= Weights(d)[q]
  BY <1>1, OthersWeigh
<1>3. In(d)' \subseteq joined'[d]
  BY DEF In
<1>4. In(d)' \subseteq In(d)
  BY <1>1, <1>3, OthersWeigh
<1>5. key' = key
  BY DEF Only
<1> QED BY <1>1, <1>2, <1>4, <1>5, CoverKept

LEMMA TraceQuiet ==
  ASSUME Typed, Typed', NEW r \in Requests, Only(r), NEW d \in Dimensions, Trace(d),
         counter'[d] = counter[d], joined'[d] = joined[d],
         r \in Live(d) => Weights(d)[r] <= Weights(d)'[r] /\ r \in Live(d)'
  PROVE  Trace(d)'
<1>1. /\ Live(d) \subseteq joined[d] /\ joined[d] \subseteq Requests /\ counter[d].val \in Nat
      /\ \A q \in Requests : Weights(d)[q] \in Nat /\ Weights(d)'[q] \in Nat
  BY SharedTypes, SharedTypesNext
<1>2. Live(d) \subseteq Live(d)'
  BY <1>1, OthersWeigh
<1>3. \A q \in Live(d) : Weights(d)[q] <= Weights(d)'[q]
  BY <1>1, OthersWeigh
<1> QED BY <1>1, <1>2, <1>3, TraceKept

\* Steps that leave the windows alone.
LEMMA AsideStep ==
  ASSUME Shared, Typed', NEW r \in Requests, UNCHANGED <<key, home, admissionVars>>, faults <= faults',
         NEW l \in Labels, Goto(r, l), l \notin Within, l \in Early => pc[r] \in Early
  PROVE  Life' /\ Covered' /\ Traced'
<1>1. Typed /\ Life
  BY DEF Shared
<1>2. pc'[r] = l /\ \A q \in Requests \ {r} : pc'[q] = pc[q]
  BY <1>1 DEF Goto, Typed, RequestsTypeOK
<1>3. Only(r)
  BY <1>2 DEF Only, admissionVars
<1>4. LifeOf(r)'
  BY <1>1, <1>2 DEF LifeOf, Life, Early, Within, admissionVars
<1>5. ASSUME NEW d \in Dimensions PROVE (Cover(d) => Cover(d)') /\ (Trace(d) => Trace(d)')
  <2>1. Weights(d)' = Weights(d)
    BY DEF Weights, Weight, Delta, admissionVars
  <2>2. In(d)' = In(d) /\ Live(d)' = Live(d)
    BY DEF In, Live, admissionVars
  <2>3. counter'[d] = counter[d] /\ joined'[d] = joined[d] /\ key'[d] = key[d]
    BY DEF admissionVars
  <2> QED BY <2>1, <2>2, <2>3 DEF Cover, Trace
<1>6. (undone' <=> undone) /\ (faults' = 0 => faults = 0)
  BY <1>1 DEF admissionVars, Typed, RequestsTypeOK
<1> QED BY <1>1, <1>3, <1>4, <1>5, <1>6, LifeOthers DEF Shared, Covered, Traced

\* Steps of the windows that change no counter.
LEMMA SteadyStep ==
  ASSUME Shared, Typed', NEW r \in Requests, Only(r), LifeOf(r)', UNCHANGED <<counter, joined, undone>>,
         \A d \in Dimensions : r \in joined[d] =>
           Weights(d)'[r] <= Weights(d)[r] /\ (r \in In(d)' => r \in In(d)),
         faults' = 0 => \A d \in Dimensions : r \in Live(d) => Weights(d)[r] <= Weights(d)'[r] /\ r \in Live(d)'
  PROVE  Life' /\ Covered' /\ Traced'
<1>1. Typed /\ Life
  BY DEF Shared
<1>2. Life'
  BY <1>1, LifeOthers
<1>3. Covered'
  BY <1>1, CoverQuiet DEF Shared, Covered
<1>4. faults' = 0 => faults = 0
  BY <1>1 DEF Only, Typed, RequestsTypeOK
<1>5. Traced'
  BY <1>1, <1>4, TraceQuiet DEF Shared, Traced
<1> QED BY <1>2, <1>3, <1>5

LEMMA ArriveStep ==
  ASSUME Shared, Typed', NEW r \in Requests, NEW n \in Estimates, Arrive(r, n)
  PROVE  Life' /\ Covered' /\ Traced'
<1>1. Typed /\ LifeOf(r)
  BY DEF Shared, Life
<1> DEFINE c == [at |-> now, tokens |-> IF key.tpm = NoLimit THEN 0 ELSE n, counted |-> {}]
<1>2. /\ pc[r] = "admit" /\ (key.rpm # NoLimit \/ key.tpm # NoLimit)
      /\ UNCHANGED <<key, home, faults, sharedMu, counter, undone, joined, passed>>
      /\ call' = [call EXCEPT ![r] = c]
      /\ Goto(r, IF ~key.redis THEN "decide" ELSE IF key.rpm # NoLimit THEN "rpm" ELSE "tpm")
  BY DEF Arrive, ReadClock
<1>3. c.counted = {} /\ (key.tpm # NoLimit => c.tokens > 0)
  BY QuotaAssumption
<1> HIDE DEF c
<1>4. /\ call'[r] = c /\ pc'[r] \in {"decide", "rpm", "tpm"} /\ (pc'[r] = "tpm" => key.tpm # NoLimit)
      /\ \A q \in Requests \ {r} : pc'[q] = pc[q] /\ call'[q] = call[q]
  BY <1>1, <1>2 DEF Goto, Typed, RequestsTypeOK, AdmissionTypeOK
<1>5. Only(r)
  BY <1>1, <1>2, <1>4 DEF Only, Typed, RequestsTypeOK
<1>6. \A d \in Dimensions : r \notin joined[d] /\ r \notin Live(d)
  BY <1>1, <1>2 DEF LifeOf, Early, Live
<1>7. LifeOf(r)'
  BY <1>1, <1>2, <1>3, <1>4, <1>6 DEF LifeOf, Early, Within, Dimensions
<1> QED BY <1>2, <1>5, <1>6, <1>7, SteadyStep

LEMMA DecideStep ==
  ASSUME Shared, Typed', NEW r \in Requests, NEW ok \in BOOLEAN, Decide(r, ok)
  PROVE  Life' /\ Covered' /\ Traced'
<1>1. Typed /\ LifeOf(r)
  BY DEF Shared, Life
<1>2. /\ pc[r] = "decide" /\ UNCHANGED <<key, home, faults, sharedMu, counter, undone, joined>>
      /\ call' = [call EXCEPT ![r] = NoCall]
      /\ \E l \in {"consume", "done", "ended"} : Goto(r, l)
      /\ passed' = passed \/ \E v : passed' = [passed EXCEPT ![r] = v]
  BY DEF Decide, DecideLocally, Record, Return, LeaveUnless, Leave
<1>3. /\ pc'[r] \in {"consume", "done", "ended"}
      /\ \A q \in Requests \ {r} : pc'[q] = pc[q] /\ call'[q] = call[q] /\ passed'[q] = passed[q]
  BY <1>1, <1>2 DEF Goto, Typed, RequestsTypeOK, AdmissionTypeOK
<1>4. Only(r)
  BY <1>1, <1>2, <1>3 DEF Only, Typed, RequestsTypeOK
<1>5. \A d \in Dimensions : r \notin joined[d] /\ r \notin Live(d)
  BY <1>1, <1>2 DEF LifeOf, Early, Live
<1>6. LifeOf(r)'
  <2>1. pc'[r] \notin Early \cup Within
    BY <1>3 DEF Early, Within
  <2> QED BY <2>1 DEF LifeOf, Early, Within
<1> QED BY <1>2, <1>4, <1>5, <1>6, SteadyStep

\* Without faults the request that records has been counted on every dimension with a limit.
LEMMA RecordStep ==
  ASSUME Shared, Typed', NEW r \in Requests, NEW ok \in BOOLEAN, RecordAdmission(r, ok)
  PROVE  Life' /\ Covered' /\ Traced'
<1>1. Typed /\ LifeOf(r)
  BY DEF Shared, Life
<1>2. /\ pc[r] = "record" /\ UNCHANGED <<key, home, faults, counter, undone, joined>>
      /\ call' = [call EXCEPT ![r] = NoCall]
      /\ \E l \in {"consume", "done", "ended"} : Goto(r, l)
      /\ sharedMu' = [sharedMu EXCEPT ![home[r]] = NoRequest]
      /\ ok = ("tpm" \in call[r].counted \/ ~OverLocally(r, "tpm"))
      /\ IF ok THEN Record(r) ELSE UNCHANGED passed
  BY DEF RecordAdmission, RecordShared, Return, LeaveUnless, Leave
<1>3. ~passed[r].done /\ sharedMu[home[r]] = r
  BY <1>1, <1>2 DEF LifeOf, Within
<1>4. /\ pc'[r] \in {"consume", "done", "ended"} /\ call'[r] = NoCall
      /\ \A q \in Requests \ {r} : pc'[q] = pc[q] /\ call'[q] = call[q]
      /\ \A q \in Requests \ {r} : sharedMu[home[q]] = q => sharedMu'[home[q]] = q
  BY <1>1, <1>2, <1>3 DEF Goto, Typed, RequestsTypeOK, AdmissionTypeOK
<1>5. \A q \in Requests \ {r} : passed'[q] = passed[q]
  BY <1>1, <1>2 DEF Record, Typed, AdmissionTypeOK
<1>6. ok => passed'[r].done /\ passed'[r].shared = call[r].counted /\ passed'[r].tokens = call[r].tokens
  <2> SUFFICES ASSUME ok PROVE passed'[r].done /\ passed'[r].shared = call[r].counted /\ passed'[r].tokens = call[r].tokens
    OBVIOUS
  <2> DEFINE v(x, y) == [done |-> TRUE, shared |-> call[r].counted, tokens |-> call[r].tokens, prompt |-> x, at |-> y]
  <2>1. \E x, y : passed' = [passed EXCEPT ![r] = v(x, y)]
    BY <1>2 DEF Record
  <2> QED BY <1>1, <2>1 DEF Typed, AdmissionTypeOK
<1>7. ~ok => passed'[r] = passed[r] /\ ~passed'[r].done
  BY <1>2, <1>3
<1>8. Only(r)
  BY <1>1, <1>2, <1>4, <1>5 DEF Only, Typed, RequestsTypeOK
<1>9. LifeOf(r)'
  BY <1>4 DEF LifeOf, Early, Within
<1>10. ASSUME NEW d \in Dimensions
       PROVE  /\ Weights(d)[r] = Delta(r, d) /\ Delta(r, d) \in Nat
              /\ ok => Weights(d)'[r] = Delta(r, d)
              /\ ~ok => Weights(d)'[r] <= Delta(r, d)
  <2>1. Weights(d)[r] = Delta(r, d) /\ Delta(r, d) \in Nat
    BY <1>1, <1>3, SharedTypes
  <2>2. Weights(d)'[r] = IF passed'[r].done THEN Weight(r, d)' ELSE Delta(r, d)'
    BY DEF Weights
  <2>3. ok => Weight(r, d)' = Delta(r, d)
    BY <1>6 DEF Weight, Delta
  <2>4. Delta(r, d)' <= Delta(r, d)
    BY <1>1, <1>4 DEF Delta, NoCall, Typed, AdmissionTypeOK
  <2> QED BY <1>6, <1>7, <2>1, <2>2, <2>3, <2>4
<1>11. \A d \in Dimensions : r \in In(d)' => r \in In(d)
  BY <1>2, <1>4, <1>6, <1>7 DEF In, NoCall
<1>12. faults' = 0 => ok
  BY <1>1, <1>2 DEF LifeOf, OverLocally
<1>13. ok => \A d \in Dimensions : r \in Live(d) => r \in Live(d)'
  BY <1>2, <1>6 DEF Live
<1>14. \A d \in Dimensions : Weights(d)'[r] <= Weights(d)[r] /\ (ok => Weights(d)[r] <= Weights(d)'[r])
  BY <1>10
<1> QED BY <1>2, <1>8, <1>9, <1>11, <1>12, <1>13, <1>14, SteadyStep

\* An increment of d: the counter and the requests it holds grow together, and without
\* faults by the same amount.
LEMMA JoinStep ==
  ASSUME Shared, Typed', NEW r \in Requests, Only(r), LifeOf(r)', NEW d \in Dimensions, r \notin joined[d], undone' = undone,
         \A e \in Dimensions \ {d} : counter'[e] = counter[e] /\ joined'[e] = joined[e],
         joined'[d] = joined[d] \cup {r}, counter[d].val + Weights(d)[r] <= counter'[d].val,
         Weights(d)'[r] = Weights(d)[r], r \in In(d)' => counter'[d].val <= key[d],
         \A e \in Dimensions \ {d} : r \in joined[e] =>
           Weights(e)'[r] <= Weights(e)[r] /\ (r \in In(e)' => r \in In(e)),
         faults' = 0 => /\ counter'[d].val <= counter[d].val + Weights(d)[r] /\ r \in Live(d)'
                        /\ \A e \in Dimensions \ {d} : r \in Live(e) =>
                             Weights(e)[r] <= Weights(e)'[r] /\ r \in Live(e)'
  PROVE  Life' /\ Covered' /\ Traced'
<1>1. Typed /\ Life /\ key' = key
  BY DEF Shared, Only
<1>2. Life'
  BY <1>1, LifeOthers
<1>3. /\ joined[d] \subseteq Requests /\ joined'[d] \subseteq Requests /\ counter'[d].val \in Nat
      /\ In(d)' \subseteq joined'[d] /\ Live(d) \subseteq joined[d]
  BY <1>1, SharedTypes, SharedTypesNext DEF In
<1>4. \A q \in joined'[d] : Weights(d)'[q] = Weights(d)[q]
  BY <1>1, <1>3, OthersWeigh
<1>5. In(d)' \subseteq In(d) \/ counter'[d].val <= key[d]
  BY <1>1, <1>3, OthersWeigh
<1>6. Cover(d) => Cover(d)'
  BY <1>1, <1>3, <1>4, <1>5, CoverJoined
<1>7. \A e \in Dimensions \ {d} : Cover(e) => Cover(e)'
  BY <1>1, CoverQuiet
<1>8. Covered'
  BY <1>6, <1>7 DEF Shared, Covered
<1>9. faults' = 0 => faults = 0
  BY <1>1 DEF Only, Typed, RequestsTypeOK
<1>10. faults' = 0 => (Trace(d) => Trace(d)')
  <2> SUFFICES ASSUME faults' = 0, Trace(d) PROVE Trace(d)'
    OBVIOUS
  <2>1. Live(d) \cup {r} \subseteq Live(d)'
    BY <1>1, <1>3, OthersWeigh
  <2>2. \A q \in Live(d) \cup {r} : Weights(d)[q] = Weights(d)'[q]
    BY <1>3, <1>4
  <2> QED BY <1>1, <2>1, <2>2, TraceJoined
<1>11. faults' = 0 => \A e \in Dimensions \ {d} : Trace(e) => Trace(e)'
  BY <1>1, TraceQuiet
<1>12. Traced'
  BY <1>9, <1>10, <1>11 DEF Shared, Traced
<1> QED BY <1>2, <1>8, <1>12

LEMMA CountStep ==
  ASSUME Shared, Typed', NEW r \in Requests, NEW d \in Dimensions, NEW over \in BOOLEAN, NEW miss \in BOOLEAN,
         Count(r, d, over, miss), Only(r), LifeOf(r)', miss => faults' > 0,
         r \notin joined[d], d \notin call[r].counted, ~passed[r].done
  PROVE  Life' /\ Covered' /\ Traced'
<1>1. Typed /\ home' = home /\ key' = key
  BY DEF Shared, Only
<1> DEFINE n == Delta(r, d)
<1>2. PICK a \in Answers(d, n) :
        /\ miss = a[2] /\ over = (a[1].val > key[d]) /\ counter' = [counter EXCEPT ![d] = a[1]]
        /\ call' = [call EXCEPT ![r].counted = IF over THEN @ ELSE @ \cup {d}]
  BY DEF Count, Write
<1>3. /\ sharedMu' = [sharedMu EXCEPT ![home[r]] = r] /\ joined' = [joined EXCEPT ![d] = @ \cup {r}]
      /\ UNCHANGED <<undone, passed>>
  BY DEF Count, Joins
<1>4. Weights(d)[r] = n /\ n \in Nat /\ counter[d].val \in Nat /\ key[d] \in Nat
  BY <1>1, SharedTypes
<1>5. a[1].val \in Nat /\ counter[d].val + n <= a[1].val /\ (~miss => a[1].val = counter[d].val + n)
  <2>2. /\ Increment(counter[d], n).val = counter[d].val + n
        /\ Unanswered(Increment(counter[d], n), n).val = counter[d].val + n + n
        /\ Unanswered(Unanswered(counter[d], n), n).val = counter[d].val + n + n
    BY DEF Increment, Unanswered
  <2> HIDE DEF n
  <2>3. \/ a[1].val = counter[d].val + n /\ a[2] = FALSE
        \/ a[1].val = counter[d].val + n + n /\ a[2] = TRUE
    <3>1. \/ a = <<Increment(counter[d], n), FALSE>> \/ a = <<Unanswered(Increment(counter[d], n), n), TRUE>>
          \/ a = <<Unanswered(Unanswered(counter[d], n), n), TRUE>>
      BY Zenon DEF Answers
    <3>2. \/ a[1] = Increment(counter[d], n) /\ a[2] = FALSE
          \/ a[1] = Unanswered(Increment(counter[d], n), n) /\ a[2] = TRUE
          \/ a[1] = Unanswered(Unanswered(counter[d], n), n) /\ a[2] = TRUE
      <4>1. ASSUME NEW x, a = <<x, FALSE>> PROVE a[1] = x /\ a[2] = FALSE
        BY <4>1
      <4>2. ASSUME NEW x, a = <<x, TRUE>> PROVE a[1] = x /\ a[2] = TRUE
        BY <4>2
      <4> QED BY <3>1, <4>1, <4>2, Zenon
    <3> QED BY <2>2, <3>2, Zenon
  <2> QED BY <1>2, <1>4, <2>3
<1>6. /\ counter'[d] = a[1] /\ \A e \in Dimensions \ {d} : counter'[e] = counter[e]
      /\ joined'[d] = joined[d] \cup {r} /\ \A e \in Dimensions \ {d} : joined'[e] = joined[e]
      /\ sharedMu'[home'[r]] = r
  BY <1>1, <1>2, <1>3 DEF Typed, RequestsTypeOK, AdmissionTypeOK
<1>7. /\ call'[r].tokens = call[r].tokens
      /\ call'[r].counted = IF over THEN call[r].counted ELSE call[r].counted \cup {d}
  <2>1. call[r] \in [at : 0..MaxTime[key], tokens : Nat, counted : SUBSET Dimensions] /\ call \in [Requests -> [at : 0..MaxTime[key], tokens : Nat, counted : SUBSET Dimensions]]
    BY <1>1 DEF Typed, AdmissionTypeOK
  <2> DEFINE s == IF over THEN call[r].counted ELSE call[r].counted \cup {d}
  <2>2. call' = [call EXCEPT ![r] = [call[r] EXCEPT !.counted = s]]
    BY <1>2
  <2> HIDE DEF s
  <2>3. call'[r] = [call[r] EXCEPT !.counted = s]
    BY <2>1, <2>2
  <2>4. call'[r].tokens = call[r].tokens /\ call'[r].counted = s
    BY <2>1, <2>3
  <2> QED BY <2>4 DEF s
<1>8. \A e \in Dimensions : Weights(e)'[r] = Weights(e)[r]
  BY <1>3, <1>7 DEF Weights, Weight, Delta
<1>9. \A e \in Dimensions \ {d} : r \in In(e)' => r \in In(e)
  BY <1>3, <1>6, <1>7 DEF In
<1>10. r \in In(d)' => counter'[d].val <= key[d]
  <2>1. r \in In(d)' => ~over
    BY <1>3, <1>7 DEF In
  <2>2. ~over => ~(a[1].val > key[d])
    BY <1>2
  <2> HIDE DEF n
  <2> QED BY <1>4, <1>5, <1>6, <2>1, <2>2
<1>11. \A e \in Dimensions : r \in joined'[e] => r \in Live(e)'
  BY <1>6 DEF Live
<1>12. \A e \in Dimensions : Weights(e)[r] \in Nat
  BY <1>1, SharedTypes
<1>13. faults' = 0 => counter'[d].val <= counter[d].val + Weights(d)[r]
  <2>1. faults' = 0 => ~miss
    OBVIOUS
  <2> HIDE DEF n
  <2> QED BY <1>4, <1>5, <1>6, <2>1
<1>14. \A e \in Dimensions \ {d} : r \in Live(e) => r \in Live(e)'
  BY <1>6, <1>11 DEF Live
<1>15. counter[d].val + Weights(d)[r] <= counter'[d].val
  BY <1>4, <1>5, <1>6
<1>16. \A e \in Dimensions : Weights(e)'[r] <= Weights(e)[r] /\ Weights(e)[r] <= Weights(e)'[r]
  BY <1>8, <1>12
<1> QED BY <1>3, <1>6, <1>8, <1>9, <1>10, <1>11, <1>13, <1>14, <1>15, <1>16, JoinStep

LEMMA FailOpenStep ==
  ASSUME Shared, Typed', NEW r \in Requests, NEW d \in Dimensions, FailOpen(r, d), Only(r), LifeOf(r)', faults' > 0,
         r \notin joined[d], d \notin call[r].counted, ~passed[r].done
  PROVE  Life' /\ Covered' /\ Traced'
<1>1. Typed /\ home' = home /\ key' = key /\ faults' # 0
  BY DEF Shared, Only
<1> DEFINE n == Delta(r, d)
<1>2. PICK c \in Errors(d, n) :
        /\ counter' = [counter EXCEPT ![d] = c]
        /\ IF c = counter[d] THEN UNCHANGED joined ELSE joined' = [joined EXCEPT ![d] = @ \cup {r}]
  BY DEF FailOpen, Write, Joins
<1>3. UNCHANGED <<undone, passed>> /\ (UNCHANGED call \/ (d = "rpm" /\ call' = [call EXCEPT ![r] = NoCall]))
  BY DEF FailOpen, Return
<1>4. Weights(d)[r] = n /\ n \in Nat /\ counter[d].val \in Nat
  BY <1>1, SharedTypes
<1>5. call'[r] = call[r] \/ (d = "rpm" /\ call'[r] = NoCall)
  BY <1>1, <1>3 DEF Typed, AdmissionTypeOK
<1>6. ASSUME NEW e \in Dimensions
      PROVE  /\ Weights(e)'[r] <= Weights(e)[r] /\ (r \in In(e)' => r \in joined'[e] /\ e \in call[r].counted)
             /\ e = d => Weights(e)'[r] = Weights(e)[r]
  <2>1. Weights(e)'[r] = Delta(r, e)' /\ Weights(e)[r] = Delta(r, e) /\ Delta(r, e) \in Nat
    BY <1>1, <1>3, SharedTypes DEF Weights
  <2>2. Delta(r, e)' <= Delta(r, e) /\ (e = d => Delta(r, e)' = Delta(r, e))
    BY <1>1, <1>5 DEF Delta, NoCall, Typed, AdmissionTypeOK
  <2>3. r \in In(e)' => r \in joined'[e] /\ e \in call[r].counted
    BY <1>3, <1>5 DEF In, NoCall
  <2> QED BY <2>1, <2>2, <2>3
<1>7. CASE c = counter[d]
  <2>1. UNCHANGED <<counter, joined, undone>>
    BY <1>1, <1>2, <1>3, <1>7 DEF Typed, AdmissionTypeOK
  <2>2. \A e \in Dimensions : r \in In(e)' => r \in In(e)
    BY <1>6, <2>1 DEF In
  <2> QED BY <1>1, <1>6, <2>1, <2>2, SteadyStep
<1>8. CASE c # counter[d]
  <2>1. c.val = counter[d].val + n
    BY <1>2, <1>8 DEF Errors, Increment, Unanswered
  <2>2. /\ counter'[d] = c /\ \A e \in Dimensions \ {d} : counter'[e] = counter[e]
        /\ joined'[d] = joined[d] \cup {r} /\ \A e \in Dimensions \ {d} : joined'[e] = joined[e]
    BY <1>1, <1>2, <1>8 DEF Typed, AdmissionTypeOK
  <2>3. \A e \in Dimensions \ {d} : r \in In(e)' => r \in In(e)
    BY <1>6, <2>2 DEF In
  <2>4. r \notin In(d)'
    BY <1>6
  <2>5. counter[d].val + Weights(d)[r] <= counter'[d].val
    <3> HIDE DEF n
    <3> QED BY <1>4, <2>1, <2>2
  <2> QED BY <1>1, <1>3, <1>6, <2>2, <2>3, <2>4, <2>5, JoinStep
<1> QED BY <1>7, <1>8

\* A compensating decrement: what it takes is its own, or the history says that it was not.
LEMMA UndoStep ==
  ASSUME Shared, Typed', NEW r \in Requests, NEW d \in Dimensions, NEW last \in BOOLEAN, NEW faulty \in BOOLEAN,
         RollBackCount(r, d, last, faulty), Only(r), LifeOf(r)', ~passed[r].done,
         faults' = 0 => ~faulty /\ (last => \A e \in Dimensions \ {d} : r \notin joined[e])
  PROVE  Life' /\ Covered' /\ Traced'
<1>1. Typed /\ Life /\ home' = home /\ key' = key
  BY DEF Shared, Only
<1> DEFINE n == Delta(r, d)
           once == RolledBack(counter[d], n)
<1>2. PICK c \in Rollbacks(counter[d], n) :
        /\ faulty = (c # once) /\ counter' = [counter EXCEPT ![d] = c]
        /\ undone' = (undone \/ (r \notin joined[d] /\ c # counter[d]) \/ c \notin {once, counter[d]})
        /\ joined' = [joined EXCEPT ![d] = IF c = Absent THEN {} ELSE IF c = counter[d] THEN @ ELSE @ \ {r}]
  BY DEF RollBackCount, Write
<1>3. /\ sharedMu' = [sharedMu EXCEPT ![home[r]] = IF last THEN NoRequest ELSE r]
      /\ (call' = call \/ call' = [call EXCEPT ![r] = NoCall]) /\ (~last => call' = call) /\ passed' = passed
  BY DEF RollBackCount, Return
<1>4. /\ Weights(d)[r] = n /\ n \in Nat /\ counter[d].val \in Nat /\ counter'[d].val \in Nat
      /\ joined[d] \subseteq Requests /\ Live(d) \subseteq joined[d] /\ key[d] \in Nat
  BY <1>1, SharedTypes, SharedTypesNext
<1>5. /\ counter'[d] = c /\ joined'[d] = IF c = Absent THEN {} ELSE IF c = counter[d] THEN joined[d] ELSE joined[d] \ {r}
      /\ \A e \in Dimensions \ {d} : counter'[e] = counter[e] /\ joined'[e] = joined[e]
  BY <1>1, <1>2 DEF Typed, AdmissionTypeOK
<1>6. once = Absent \/ (once.val = counter[d].val - n /\ once # Absent)
  <2>1. once = Absent \/ once = [counter[d] EXCEPT !.val = counter[d].val - n]
    BY DEF RolledBack
  <2> HIDE DEF n, once
  <2>2. counter[d] \in [val : Nat, armed : BOOLEAN]
    BY <1>1 DEF Typed, AdmissionTypeOK
  <2> QED BY <2>1, <2>2
<1>7. call'[r] = call[r] \/ (last /\ call'[r] = NoCall)
  BY <1>1, <1>3 DEF Typed, AdmissionTypeOK
<1>8. ASSUME NEW e \in Dimensions
      PROVE  /\ Weights(e)'[r] <= Weights(e)[r] /\ Weights(e)[r] \in Nat
             /\ ~last => Weights(e)'[r] = Weights(e)[r]
             /\ r \in In(e)' => r \in joined'[e] /\ e \in call[r].counted
  <2>1. Weights(e)'[r] = Delta(r, e)' /\ Weights(e)[r] = Delta(r, e) /\ Delta(r, e) \in Nat
    BY <1>1, <1>3, SharedTypes DEF Weights
  <2>2. Delta(r, e)' <= Delta(r, e) /\ (~last => Delta(r, e)' = Delta(r, e))
    BY <1>1, <1>7 DEF Delta, NoCall, Typed, AdmissionTypeOK
  <2>3. r \in In(e)' => r \in joined'[e] /\ e \in call[r].counted
    BY <1>3, <1>7 DEF In, NoCall
  <2> QED BY <2>1, <2>2, <2>3
<1>9. Life'
  BY <1>1, LifeOthers
<1>10. joined'[d] \subseteq joined[d] /\ In(d)' \subseteq joined'[d] /\ In(d)' \subseteq In(d)
  <2>1. joined'[d] \subseteq joined[d] /\ In(d)' \subseteq joined'[d]
    BY <1>5 DEF In
  <2>2. \A q \in In(d)' : q \in In(d)
    BY <1>1, <1>4, <1>8, <2>1, OthersWeigh DEF In
  <2> QED BY <2>1, <2>2
<1>11. ASSUME ~undone' PROVE ~undone /\ (Cover(d) => Cover(d)')
  <2> HIDE DEF n, once
  <2>1. ~undone /\ (c = once \/ c = counter[d]) /\ (r \in joined[d] \/ c = counter[d])
    BY <1>2, <1>11
  <2>2. CASE c = Absent
    <3>1. joined'[d] = {} /\ In(d)' = {} /\ counter'[d].val = 0
      BY <1>5, <1>10, <2>2 DEF Absent
    <3>2. SumOf(Weights(d)', joined'[d]) = 0 /\ SumOf(Weights(d)', In(d)') = 0
      BY <3>1, SumEmpty
    <3> QED BY <1>1, <1>4, <2>1, <3>1, <3>2 DEF Cover
  <2>3. CASE c # Absent /\ c = counter[d]
    <3>1. counter'[d] = counter[d] /\ joined'[d] = joined[d]
      BY <1>5, <2>3
    <3>2. Cover(d) => Cover(d)'
      BY <1>1, <1>8, <1>10, <3>1, CoverQuiet
    <3> QED BY <2>1, <3>2
  <2>4. CASE c # Absent /\ c # counter[d]
    <3>1. r \in joined[d] /\ joined'[d] = joined[d] \ {r} /\ counter'[d].val = counter[d].val - Weights(d)[r]
      BY <1>4, <1>5, <1>6, <2>1, <2>4
    <3>2. \A q \in joined'[d] : Weights(d)'[q] = Weights(d)[q]
      BY <1>1, <1>4, <3>1, OthersWeigh
    <3>3. Cover(d) => Cover(d)'
      BY <1>1, <1>10, <3>1, <3>2, CoverLeft
    <3> QED BY <2>1, <3>3
  <2> QED BY <2>2, <2>3, <2>4
<1>12. \A e \in Dimensions \ {d} : Cover(e) => Cover(e)'
  <2> SUFFICES ASSUME NEW e \in Dimensions \ {d}, Cover(e) PROVE Cover(e)'
    OBVIOUS
  <2>1. counter'[e] = counter[e] /\ joined'[e] = joined[e]
    BY <1>5
  <2>2. Weights(e)'[r] <= Weights(e)[r] /\ (r \in In(e)' => r \in In(e))
    BY <1>8, <2>1 DEF In
  <2> QED BY <1>1, <2>1, <2>2, CoverQuiet
<1>13. Covered'
  BY <1>11, <1>12 DEF Shared, Covered
<1>14. faults' = 0 => faults = 0
  BY <1>1 DEF Only, Typed, RequestsTypeOK
<1>15. faults' = 0 => (Trace(d) => Trace(d)')
  <2> SUFFICES ASSUME faults' = 0, Trace(d) PROVE Trace(d)'
    OBVIOUS
  <2> HIDE DEF n, once
  <2>1. c = once
    BY <1>2
  <2>2. CASE once = Absent
    <3>1. joined'[d] = {} /\ counter'[d].val = 0
      BY <1>5, <2>1, <2>2 DEF Absent
    <3>2. Live(d)' = {}
      BY <3>1 DEF Live
    <3>3. SumOf(Weights(d)', Live(d)') = 0
      BY <3>2, SumEmpty
    <3> QED BY <3>1, <3>3 DEF Trace
  <2>3. CASE once # Absent
    <3>1. counter'[d].val = counter[d].val - Weights(d)[r] /\ joined[d] \ {r} \subseteq joined'[d]
      BY <1>4, <1>5, <1>6, <2>1, <2>3
    <3>2. Live(d) \ {r} \subseteq Live(d)'
      BY <1>1, <1>4, <3>1, OthersWeigh
    <3>3. \A q \in Live(d) \ {r} : Weights(d)[q] = Weights(d)'[q]
      BY <1>1, <1>4, OthersWeigh
    <3>4. counter'[d].val <= counter[d].val - Weights(d)[r]
      BY <1>4, <3>1
    <3> QED BY <1>1, <3>2, <3>3, <3>4, TraceLeft
  <2> QED BY <2>2, <2>3
<1>16. faults' = 0 => \A e \in Dimensions \ {d} : Trace(e) => Trace(e)'
  <2> SUFFICES ASSUME faults' = 0, NEW e \in Dimensions \ {d}, Trace(e) PROVE Trace(e)'
    OBVIOUS
  <2>1. counter'[e] = counter[e] /\ joined'[e] = joined[e]
    BY <1>5
  <2>2. r \in Live(e) => ~last /\ r \in joined[e]
    BY DEF Live
  <2>3. ~last => sharedMu'[home'[r]] = r
    BY <1>1, <1>3 DEF Typed, RequestsTypeOK, AdmissionTypeOK
  <2>4. r \in Live(e) => Weights(e)[r] <= Weights(e)'[r] /\ r \in Live(e)'
    BY <1>8, <2>1, <2>2, <2>3 DEF Live
  <2> QED BY <1>1, <2>1, <2>4, TraceQuiet
<1>17. Traced'
  BY <1>14, <1>15, <1>16 DEF Shared, Traced
<1> QED BY <1>9, <1>13, <1>17

LEMMA OnlyWindow ==
  ASSUME Typed, NEW r \in Requests, UNCHANGED <<key, home, passed>>, Fault \/ UNCHANGED faults, NEW l, Goto(r, l),
         call' = call \/ \E v : call' = [call EXCEPT ![r] = v],
         sharedMu[home[r]] \in {r, NoRequest}, \E m : sharedMu' = [sharedMu EXCEPT ![home[r]] = m],
         \A q \in Requests \ {r}, d \in Dimensions : q \in joined'[d] => q \in joined[d]
  PROVE  Only(r) /\ pc'[r] = l
<1>1. /\ pc'[r] = l /\ \A q \in Requests \ {r} : pc'[q] = pc[q] /\ call'[q] = call[q] /\ passed'[q] = passed[q]
      /\ faults <= faults'
  BY DEF Goto, Fault, Typed, RequestsTypeOK, AdmissionTypeOK
<1>3. \A q \in Requests \ {r} : sharedMu[home[q]] = q => sharedMu'[home[q]] = q
  BY DEF Typed, RequestsTypeOK, AdmissionTypeOK
<1> QED BY <1>1, <1>3 DEF Only

\* What an increment does to the locals of its request.
CountMoves(r, d, over) ==
  /\ sharedMu[home[r]] \in {r, NoRequest} /\ sharedMu' = [sharedMu EXCEPT ![home[r]] = r]
  /\ sharedMu'[home[r]] = r /\ passed' = passed
  /\ joined' = [joined EXCEPT ![d] = joined[d] \cup {r}]
  /\ \A e \in Dimensions : r \in joined'[e] <=> (r \in joined[e] \/ e = d)
  /\ \E v : call' = [call EXCEPT ![r] = v]
  /\ call'[r].tokens = call[r].tokens
  /\ call'[r].counted = IF over THEN call[r].counted ELSE call[r].counted \cup {d}

LEMMA CountLocals ==
  ASSUME Typed, NEW r \in Requests, NEW d \in Dimensions, NEW over \in BOOLEAN, NEW miss \in BOOLEAN, Count(r, d, over, miss)
  PROVE  CountMoves(r, d, over)
<1>1. /\ sharedMu[home[r]] \in {r, NoRequest} /\ sharedMu' = [sharedMu EXCEPT ![home[r]] = r] /\ passed' = passed
      /\ joined' = [joined EXCEPT ![d] = joined[d] \cup {r}]
  BY DEF Count, Joins
<1>2. sharedMu'[home[r]] = r /\ \A e \in Dimensions : r \in joined'[e] <=> (r \in joined[e] \/ e = d)
  BY <1>1 DEF Typed, RequestsTypeOK, AdmissionTypeOK
<1> DEFINE s == IF over THEN call[r].counted ELSE call[r].counted \cup {d}
           Call == [at : 0..MaxTime[key], tokens : Nat, counted : SUBSET Dimensions]
<1>3. call' = [call EXCEPT ![r] = [call[r] EXCEPT !.counted = s]]
  BY DEF Count
<1>4. call \in [Requests -> Call] /\ call[r] \in Call
  BY DEF Typed, AdmissionTypeOK
<1> HIDE DEF s
<1>5. call'[r] = [call[r] EXCEPT !.counted = s]
  BY <1>3, <1>4
<1>6. call'[r].tokens = call[r].tokens /\ call'[r].counted = s
  BY <1>4, <1>5
<1>7. \E v : call' = [call EXCEPT ![r] = v]
  BY <1>3
<1> QED BY <1>1, <1>2, <1>6, <1>7 DEF s, CountMoves

LEMMA IncrementRpmStep ==
  ASSUME Shared, Typed', NEW r \in Requests, NEW over \in BOOLEAN, NEW miss \in BOOLEAN, IncrementRpm(r, over, miss)
  PROVE  Life' /\ Covered' /\ Traced'
<1>1. Typed /\ LifeOf(r)
  BY DEF Shared, Life
<1>2. /\ pc[r] = "rpm" /\ Count(r, "rpm", over, miss) /\ UNCHANGED <<key, home>>
      /\ (miss => Fault) /\ (~miss => faults' = faults)
      /\ Goto(r, IF over THEN "undoRpm" ELSE AfterRpm)
  BY DEF IncrementRpm
<1>3. AfterRpm = IF key.tpm # NoLimit THEN "tpm" ELSE "record"
  BY DEF AfterRpm
<1>4. "rpm" \in Dimensions
  BY DEF Dimensions
<1>5. CountMoves(r, "rpm", over)
  BY <1>1, <1>2, <1>4, CountLocals
<1>6. Only(r) /\ pc'[r] = IF over THEN "undoRpm" ELSE AfterRpm
  <2> DEFINE l == IF over THEN "undoRpm" ELSE AfterRpm
  <2>1. Goto(r, l) /\ UNCHANGED <<key, home, passed>> /\ (Fault \/ UNCHANGED faults)
    BY <1>2, <1>5 DEF CountMoves
  <2>2. /\ \A q \in Requests \ {r}, d \in Dimensions : q \in joined'[d] => q \in joined[d]
        /\ sharedMu[home[r]] \in {r, NoRequest} /\ \E m : sharedMu' = [sharedMu EXCEPT ![home[r]] = m]
        /\ \E v : call' = [call EXCEPT ![r] = v]
    BY <1>1, <1>5 DEF CountMoves, Typed, AdmissionTypeOK
  <2> HIDE DEF l
  <2>3. Only(r) /\ pc'[r] = l
    BY <1>1, <2>1, <2>2, OnlyWindow
  <2> QED BY <2>3 DEF l
<1>7. ~passed[r].done /\ call[r].counted = {} /\ \A e \in Dimensions : r \notin joined[e]
  BY <1>1, <1>2 DEF LifeOf, Early, Within
<1>8. LifeOf(r)'
  <2>1. pc'[r] \in {"undoRpm", "tpm", "record"} /\ (pc'[r] = "undoRpm" <=> over)
        /\ (pc'[r] = "tpm" => key.tpm # NoLimit) /\ (pc'[r] = "record" => key.tpm = NoLimit)
    BY <1>3, <1>6
  <2>2. r \notin joined'["tpm"]
    BY <1>5, <1>7 DEF CountMoves, Dimensions
  <2>3. pc'[r] \notin Early \cup {"decide", "rpm"} /\ ~passed'[r].done
    BY <1>5, <1>7, <2>1 DEF CountMoves, Early
  <2>4. key.tpm # NoLimit => call'[r].tokens > 0
    BY <1>1, <1>2, <1>5 DEF CountMoves, LifeOf
  <2>5. ~over => "tpm" \notin call'[r].counted /\ "rpm" \in call'[r].counted
    BY <1>5, <1>7 DEF CountMoves
  <2> QED BY <1>2, <1>5, <2>1, <2>2, <2>3, <2>4, <2>5 DEF CountMoves, LifeOf
<1>9. miss => faults' > 0
  BY <1>1, <1>2 DEF Fault, Typed, RequestsTypeOK
<1> QED BY <1>2, <1>4, <1>6, <1>7, <1>8, <1>9, CountStep

LEMMA IncrementTpmStep ==
  ASSUME Shared, Typed', NEW r \in Requests, NEW over \in BOOLEAN, NEW miss \in BOOLEAN, IncrementTpm(r, over, miss)
  PROVE  Life' /\ Covered' /\ Traced'
<1>1. Typed /\ LifeOf(r)
  BY DEF Shared, Life
<1>2. /\ pc[r] = "tpm" /\ Count(r, "tpm", over, miss) /\ UNCHANGED <<key, home>>
      /\ (miss => Fault) /\ (~miss => faults' = faults)
      /\ Goto(r, IF over THEN "undoTpm" ELSE "record")
  BY DEF IncrementTpm
<1>3. "tpm" \in Dimensions /\ "rpm" \in Dimensions
  BY DEF Dimensions
<1>4. CountMoves(r, "tpm", over)
  BY <1>1, <1>2, <1>3, CountLocals
<1>5. Only(r) /\ pc'[r] = IF over THEN "undoTpm" ELSE "record"
  <2> DEFINE l == IF over THEN "undoTpm" ELSE "record"
  <2>1. Goto(r, l) /\ UNCHANGED <<key, home, passed>> /\ (Fault \/ UNCHANGED faults)
    BY <1>2, <1>4 DEF CountMoves
  <2>2. /\ \A q \in Requests \ {r}, d \in Dimensions : q \in joined'[d] => q \in joined[d]
        /\ sharedMu[home[r]] \in {r, NoRequest} /\ \E m : sharedMu' = [sharedMu EXCEPT ![home[r]] = m]
        /\ \E v : call' = [call EXCEPT ![r] = v]
    BY <1>1, <1>4 DEF CountMoves, Typed, AdmissionTypeOK
  <2> HIDE DEF l
  <2>3. Only(r) /\ pc'[r] = l
    BY <1>1, <2>1, <2>2, OnlyWindow
  <2> QED BY <2>3 DEF l
<1>6. ~passed[r].done /\ "tpm" \notin call[r].counted /\ r \notin joined["tpm"] /\ call[r].tokens > 0
  BY <1>1, <1>2 DEF LifeOf, Early, Within
<1>7. faults' = 0 => faults = 0
  BY <1>1, <1>5 DEF Only, Typed, RequestsTypeOK
<1>8. LifeOf(r)'
  <2>1. pc'[r] \in {"undoTpm", "record"} /\ (pc'[r] = "undoTpm" <=> over)
    BY <1>5
  <2>2. pc'[r] \notin Early \cup {"decide", "rpm"} /\ ~passed'[r].done
    BY <1>4, <1>6, <2>1 DEF CountMoves, Early
  <2>3. faults' = 0 /\ r \in joined'["rpm"] => "rpm" \in call'[r].counted
    BY <1>1, <1>2, <1>3, <1>4, <1>7 DEF CountMoves, LifeOf
  <2>4. ~over => "tpm" \in call'[r].counted
    BY <1>4 DEF CountMoves
  <2> QED BY <1>2, <1>4, <1>6, <2>1, <2>2, <2>3, <2>4 DEF CountMoves, LifeOf
<1>9. miss => faults' > 0
  BY <1>1, <1>2 DEF Fault, Typed, RequestsTypeOK
<1> QED BY <1>2, <1>3, <1>5, <1>6, <1>8, <1>9, CountStep

LEMMA RpmFailsOpenStep ==
  ASSUME Shared, Typed', NEW r \in Requests, RpmFailsOpen(r)
  PROVE  Life' /\ Covered' /\ Traced'
<1>1. Typed /\ LifeOf(r)
  BY DEF Shared, Life
<1> DEFINE over == OverLocally(r, "rpm")
           l == IF ~over THEN AfterRpm ELSE IF HasQuota THEN "done" ELSE "ended"
<1>2. /\ pc[r] = "rpm" /\ FailOpen(r, "rpm") /\ UNCHANGED <<key, home>> /\ Fault /\ Goto(r, l)
  BY DEF RpmFailsOpen, LeaveUnless, Leave
<1>3. /\ sharedMu[home[r]] \in {r, NoRequest} /\ sharedMu' = [sharedMu EXCEPT ![home[r]] = IF over THEN NoRequest ELSE r]
      /\ passed' = passed
      /\ call' = call \/ (over /\ call' = [call EXCEPT ![r] = NoCall])
      /\ joined' = joined \/ joined' = [joined EXCEPT !["rpm"] = joined["rpm"] \cup {r}]
  BY <1>2 DEF FailOpen, Joins, Return
<1> HIDE DEF over, l
<1>4. Only(r) /\ pc'[r] = l
  <2>1. \A q \in Requests \ {r}, d \in Dimensions : q \in joined'[d] => q \in joined[d]
    <3>1. joined \in [Dimensions -> SUBSET Requests]
      BY <1>1 DEF Typed, AdmissionTypeOK
    <3>2. CASE joined' = joined
      BY <3>2
    <3>3. CASE joined' = [joined EXCEPT !["rpm"] = joined["rpm"] \cup {r}]
      BY <3>1, <3>3
    <3> QED BY <1>3, <3>2, <3>3
  <2>2. (\E m : sharedMu' = [sharedMu EXCEPT ![home[r]] = m]) /\ (call' = call \/ \E v : call' = [call EXCEPT ![r] = v])
    BY <1>3
  <2> QED BY <1>1, <1>2, <1>3, <2>1, <2>2, OnlyWindow
<1>5. ~passed[r].done /\ call[r].counted = {} /\ (\A e \in Dimensions : r \notin joined[e])
      /\ (key.tpm # NoLimit => call[r].tokens > 0)
  BY <1>1, <1>2 DEF LifeOf, Early, Within
<1>6. faults' > 0
  BY <1>1, <1>2 DEF Fault, Typed, RequestsTypeOK
<1>7. r \notin joined'["tpm"] /\ (~over => sharedMu'[home[r]] = r /\ call' = call)
  BY <1>1, <1>3, <1>5 DEF Typed, RequestsTypeOK, AdmissionTypeOK, Dimensions
<1>8. pc'[r] \in {"tpm", "record", "done", "ended"} /\ (pc'[r] = "tpm" => key.tpm # NoLimit)
      /\ (pc'[r] \in {"tpm", "record"} => ~over)
  BY <1>4 DEF l, AfterRpm
<1>9. LifeOf(r)'
  <2>1. pc'[r] \notin Early \cup {"decide", "rpm"} /\ ~passed'[r].done
    BY <1>3, <1>5, <1>8 DEF Early
  <2> QED BY <1>2, <1>5, <1>6, <1>7, <1>8, <2>1 DEF LifeOf
<1> QED BY <1>2, <1>4, <1>5, <1>6, <1>9, FailOpenStep DEF Dimensions

LEMMA TpmFailsOpenStep ==
  ASSUME Shared, Typed', NEW r \in Requests, TpmFailsOpen(r)
  PROVE  Life' /\ Covered' /\ Traced'
<1>1. Typed /\ LifeOf(r)
  BY DEF Shared, Life
<1>2. /\ pc[r] = "tpm" /\ FailOpen(r, "tpm") /\ UNCHANGED <<key, home>> /\ Fault /\ Goto(r, "record")
  BY DEF TpmFailsOpen
<1>3. /\ sharedMu[home[r]] \in {r, NoRequest} /\ sharedMu' = [sharedMu EXCEPT ![home[r]] = r]
      /\ passed' = passed /\ call' = call
      /\ joined' = joined \/ joined' = [joined EXCEPT !["tpm"] = joined["tpm"] \cup {r}]
  BY <1>2 DEF FailOpen, Joins, Return
<1>4. Only(r) /\ pc'[r] = "record"
  <2>1. \A q \in Requests \ {r}, d \in Dimensions : q \in joined'[d] => q \in joined[d]
    <3>1. joined \in [Dimensions -> SUBSET Requests]
      BY <1>1 DEF Typed, AdmissionTypeOK
    <3>2. CASE joined' = joined
      BY <3>2
    <3>3. CASE joined' = [joined EXCEPT !["tpm"] = joined["tpm"] \cup {r}]
      BY <3>1, <3>3
    <3> QED BY <1>3, <3>2, <3>3
  <2>2. \E m : sharedMu' = [sharedMu EXCEPT ![home[r]] = m]
    BY <1>3
  <2> QED BY <1>1, <1>2, <1>3, <2>1, <2>2, OnlyWindow
<1>5. ~passed[r].done /\ "tpm" \notin call[r].counted /\ r \notin joined["tpm"]
  BY <1>1, <1>2 DEF LifeOf, Early, Within
<1>6. faults' > 0
  BY <1>1, <1>2 DEF Fault, Typed, RequestsTypeOK
<1>7. sharedMu'[home[r]] = r
  BY <1>1, <1>3 DEF Typed, RequestsTypeOK, AdmissionTypeOK
<1>8. LifeOf(r)'
  <2>1. pc'[r] \notin Early \cup {"decide", "rpm"} /\ ~passed'[r].done
    BY <1>3, <1>4, <1>5 DEF Early
  <2> QED BY <1>2, <1>4, <1>6, <1>7, <2>1 DEF LifeOf
<1> QED BY <1>2, <1>4, <1>5, <1>6, <1>8, FailOpenStep DEF Dimensions

\* What a decrement does to the locals of its request.
UndoMoves(r, d, last, faulty) ==
  /\ sharedMu' = [sharedMu EXCEPT ![home[r]] = IF last THEN NoRequest ELSE r]
  /\ passed' = passed /\ (~last => call' = call) /\ (call' = call \/ \E v : call' = [call EXCEPT ![r] = v])
  /\ \A q \in Requests, e \in Dimensions : q \in joined'[e] => q \in joined[e]
  /\ ~faulty /\ Delta(r, d) > 0 => r \notin joined'[d]

LEMMA UndoLocals ==
  ASSUME Typed, NEW r \in Requests, NEW d \in Dimensions, NEW last \in BOOLEAN, NEW faulty \in BOOLEAN,
         RollBackCount(r, d, last, faulty)
  PROVE  UndoMoves(r, d, last, faulty)
<1> DEFINE n == Delta(r, d)
           once == RolledBack(counter[d], n)
<1>1. PICK c : /\ faulty = (c # once)
               /\ joined' = [joined EXCEPT ![d] = IF c = Absent THEN {} ELSE IF c = counter[d] THEN @ ELSE @ \ {r}]
  BY DEF RollBackCount
<1>2. /\ sharedMu' = [sharedMu EXCEPT ![home[r]] = IF last THEN NoRequest ELSE r]
      /\ passed' = passed /\ (~last => call' = call) /\ (call' = call \/ \E v : call' = [call EXCEPT ![r] = v])
  BY DEF RollBackCount, Return
<1>3. counter[d] \in [val : Nat, armed : BOOLEAN] /\ n \in Nat
  BY SharedTypes DEF Typed, AdmissionTypeOK
<1>4. n > 0 => once # counter[d] \/ once = Absent
  <2>1. once = Absent \/ once = [counter[d] EXCEPT !.val = counter[d].val - n]
    BY DEF RolledBack
  <2> HIDE DEF n, once
  <2> QED BY <1>3, <2>1
<1> HIDE DEF n, once
<1>5. \A q \in Requests, e \in Dimensions : q \in joined'[e] => q \in joined[e]
  BY <1>1 DEF Typed, AdmissionTypeOK
<1>6. ~faulty /\ n > 0 => r \notin joined'[d]
  BY <1>1, <1>4 DEF Typed, AdmissionTypeOK
<1> QED BY <1>2, <1>5, <1>6 DEF UndoMoves, n

LEMMA UndoTpmStep ==
  ASSUME Shared, Typed', NEW r \in Requests, NEW faulty \in BOOLEAN, UndoTpm(r, faulty)
  PROVE  Life' /\ Covered' /\ Traced'
<1>1. Typed /\ LifeOf(r)
  BY DEF Shared, Life
<1> DEFINE last == "rpm" \notin call[r].counted
           l == IF ~last THEN "undoRpm" ELSE IF HasQuota THEN "done" ELSE "ended"
<1>2. /\ pc[r] = "undoTpm" /\ RollBackCount(r, "tpm", last, faulty) /\ UNCHANGED <<key, home>>
      /\ (faulty => Fault) /\ (~faulty => faults' = faults) /\ Goto(r, l) /\ last \in BOOLEAN
  BY DEF UndoTpm, LeaveUnless, Leave
<1>3. ~passed[r].done /\ sharedMu[home[r]] = r /\ Delta(r, "tpm") > 0
      /\ (faults = 0 /\ last => r \notin joined["rpm"])
  BY <1>1, <1>2 DEF LifeOf, Within, Delta
<1>4. l = IF ~last THEN "undoRpm" ELSE IF HasQuota THEN "done" ELSE "ended"
  OBVIOUS
<1> HIDE DEF last, l
<1>5. UndoMoves(r, "tpm", last, faulty)
  BY <1>1, <1>2, UndoLocals DEF Dimensions
<1>6. Only(r) /\ pc'[r] = l
  <2>1. \E m : sharedMu' = [sharedMu EXCEPT ![home[r]] = m]
    BY <1>5 DEF UndoMoves
  <2> QED BY <1>1, <1>2, <1>3, <1>5, <2>1, OnlyWindow DEF UndoMoves
<1>7. (faulty => faults' > 0) /\ (faults' = 0 => faults = 0)
  BY <1>1, <1>2 DEF Fault, Typed, RequestsTypeOK
<1>8. LifeOf(r)'
  <2>1. pc'[r] \in {"undoRpm", "done", "ended"} /\ (pc'[r] = "undoRpm" => ~last)
    BY <1>4, <1>6
  <2>2. pc'[r] \notin Early \cup {"decide", "rpm"} /\ ~passed'[r].done
    BY <1>3, <1>5, <2>1 DEF Early, UndoMoves
  <2>3. ~last => sharedMu'[home'[r]] = r
    BY <1>1, <1>2, <1>5 DEF UndoMoves, Typed, RequestsTypeOK, AdmissionTypeOK
  <2>4. faults' = 0 => r \notin joined'["tpm"]
    BY <1>3, <1>5, <1>7 DEF UndoMoves
  <2> QED BY <2>1, <2>2, <2>3, <2>4 DEF LifeOf
<1>9. faults' = 0 => ~faulty /\ (last => \A e \in Dimensions \ {"tpm"} : r \notin joined[e])
  BY <1>3, <1>7 DEF Dimensions
<1> QED BY <1>2, <1>3, <1>6, <1>8, <1>9, UndoStep DEF Dimensions

LEMMA UndoRpmStep ==
  ASSUME Shared, Typed', NEW r \in Requests, NEW faulty \in BOOLEAN, UndoRpm(r, faulty)
  PROVE  Life' /\ Covered' /\ Traced'
<1>1. Typed /\ LifeOf(r)
  BY DEF Shared, Life
<1> DEFINE l == IF HasQuota THEN "done" ELSE "ended"
<1>2. /\ pc[r] = "undoRpm" /\ RollBackCount(r, "rpm", TRUE, faulty) /\ UNCHANGED <<key, home>>
      /\ (faulty => Fault) /\ (~faulty => faults' = faults) /\ Goto(r, l)
  BY DEF UndoRpm, Leave
<1>3. ~passed[r].done /\ sharedMu[home[r]] = r /\ (faults = 0 => r \notin joined["tpm"])
  BY <1>1, <1>2 DEF LifeOf, Within
<1>4. l \in {"done", "ended"}
  OBVIOUS
<1> HIDE DEF l
<1>5. UndoMoves(r, "rpm", TRUE, faulty)
  BY <1>1, <1>2, UndoLocals DEF Dimensions
<1>6. Only(r) /\ pc'[r] = l
  <2>1. \E m : sharedMu' = [sharedMu EXCEPT ![home[r]] = m]
    BY <1>5 DEF UndoMoves
  <2> QED BY <1>1, <1>2, <1>3, <1>5, <2>1, OnlyWindow DEF UndoMoves
<1>7. (faulty => faults' > 0) /\ (faults' = 0 => faults = 0)
  BY <1>1, <1>2 DEF Fault, Typed, RequestsTypeOK
<1>8. LifeOf(r)'
  <2>1. pc'[r] \notin Early \cup Within
    BY <1>4, <1>6 DEF Early, Within
  <2> QED BY <2>1 DEF LifeOf, Early, Within
<1>9. faults' = 0 => ~faulty /\ \A e \in Dimensions \ {"rpm"} : r \notin joined[e]
  BY <1>3, <1>7 DEF Dimensions
<1> QED BY <1>2, <1>3, <1>6, <1>8, <1>9, UndoStep DEF Dimensions

\* A process that dies forgets what its requests were doing, and the counters keep their increments.
LEMMA CrashStep ==
  ASSUME Shared, Typed', NEW g \in Gateways, Crash(g)
  PROVE  Life' /\ Covered' /\ Traced'
<1>1. Typed /\ Life
  BY DEF Shared
<1>2. /\ UNCHANGED <<key, home, counter, undone, joined>>
      /\ pc' = [r \in Requests |-> IF home[r] = g /\ InProgress(r) THEN "crashed" ELSE pc[r]]
      /\ sharedMu' = [sharedMu EXCEPT ![g] = NoRequest]
      /\ call' = [r \in Requests |-> IF home[r] = g THEN NoCall ELSE call[r]]
      /\ passed' = [r \in Requests |-> IF home[r] = g THEN [passed[r] EXCEPT !.prompt = FALSE, !.at = 0] ELSE passed[r]]
  BY DEF Crash, Forget
<1>9. faults' # 0
  BY <1>1 DEF Crash, Fault, Typed, RequestsTypeOK
<1>3. ASSUME NEW r \in Requests PROVE /\ passed'[r].done = passed[r].done /\ passed'[r].shared = passed[r].shared
                                      /\ passed'[r].tokens = passed[r].tokens
  <2>1. passed[r] \in [done : BOOLEAN, shared : SUBSET Dimensions, tokens : Nat, prompt : BOOLEAN, at : 0..MaxTime[key]]
    BY <1>1 DEF Typed, AdmissionTypeOK
  <2>2. passed'[r] = passed[r] \/ passed'[r] = [passed[r] EXCEPT !.prompt = FALSE, !.at = 0]
    BY <1>2
  <2> QED BY <2>1, <2>2
<1>4. ASSUME NEW r \in Requests, home[r] = g PROVE LifeOf(r)'
  <2>1. LifeOf(r) /\ pc[r] \in Labels
    BY <1>1 DEF Life, Typed, RequestsTypeOK
  <2>2. pc'[r] \in {"new", "ended", "crashed"} /\ (pc'[r] = "new" => pc[r] = "new")
    BY <1>2, <1>4, <2>1 DEF InProgress, Over
  <2>3. pc'[r] = "new" => ~passed'[r].done /\ \A d \in Dimensions : r \notin joined'[d]
    BY <1>2, <1>3, <2>1, <2>2 DEF LifeOf, Early
  <2> QED BY <2>2, <2>3 DEF LifeOf, Early, Within
<1>5. ASSUME NEW r \in Requests, home[r] # g PROVE LifeOf(r)'
  <2>1. LifeOf(r) /\ home[r] \in Gateways
    BY <1>1 DEF Life, Typed, RequestsTypeOK
  <2>2. pc'[r] = pc[r] /\ call'[r] = call[r] /\ passed'[r] = passed[r] /\ sharedMu'[home[r]] = sharedMu[home[r]]
    BY <1>1, <1>2, <1>5, <2>1 DEF Typed, AdmissionTypeOK
  <2>3. home' = home /\ joined' = joined /\ key' = key /\ faults' # 0
    BY <1>2, <1>9
  <2> HIDE DEF Early, Within
  <2> QED BY <2>1, <2>2, <2>3 DEF LifeOf
<1>6. ASSUME NEW d \in Dimensions, Cover(d) PROVE Cover(d)'
  <2>1. joined[d] \subseteq Requests /\ counter'[d].val \in Nat /\ \A r \in Requests : Weights(d)'[r] \in Nat
    BY <1>1, SharedTypes, SharedTypesNext
  <2>2. ASSUME NEW r \in Requests PROVE Weights(d)'[r] <= Weights(d)[r]
    <3>a. passed[r].tokens \in Nat /\ call[r].tokens \in Nat
      BY <1>1 DEF Typed, AdmissionTypeOK
    <3>b. call'[r].tokens = 0 \/ call'[r] = call[r]
      BY <1>2 DEF NoCall
    <3>1. call'[r].tokens <= call[r].tokens /\ passed[r].tokens \in Nat /\ call[r].tokens \in Nat
      BY <3>a, <3>b
    <3> QED BY <1>3, <3>1 DEF Weights, Weight, Delta
  <2>3. In(d)' \subseteq In(d)
    <3>1. \A r \in Requests : d \in call'[r].counted => d \in call[r].counted
      BY <1>2 DEF NoCall
    <3> QED BY <1>2, <1>3, <2>1, <3>1 DEF In
  <2>4. /\ joined'[d] \subseteq joined[d] /\ counter[d].val <= counter'[d].val
        /\ \A r \in joined'[d] : Weights(d)'[r] \in Nat /\ Weights(d)'[r] <= Weights(d)[r]
    <3>1. joined' = joined /\ counter'[d].val = counter[d].val
      BY <1>2
    <3> QED BY <2>1, <2>2, <3>1
  <2> QED BY <1>1, <1>2, <1>6, <2>1, <2>3, <2>4, CoverKept
<1>7. Life'
  BY <1>4, <1>5 DEF Life
<1>8. Covered'
  BY <1>2, <1>6 DEF Shared, Covered
<1> QED BY <1>7, <1>8, <1>9 DEF Traced

\* The minute of a counter ends for everything it held.
LEMMA MinuteStep ==
  ASSUME Shared, Typed', NEW d \in Dimensions, MinuteEnds(d)
  PROVE  Life' /\ Covered' /\ Traced'
<1>1. Typed /\ Life
  BY DEF Shared
<1>2. /\ UNCHANGED <<key, home, faults, pc, call, sharedMu, undone, passed>>
      /\ counter' = [counter EXCEPT ![d] = Absent] /\ joined' = [joined EXCEPT ![d] = {}]
  BY DEF MinuteEnds, Expire, Write, requestVars
<1>3. ASSUME NEW e \in Dimensions
      PROVE  joined'[e] \subseteq joined[e] /\ (e # d => joined'[e] = joined[e] /\ counter'[e] = counter[e])
             /\ (e = d => joined'[e] = {} /\ counter'[e].val = 0)
  BY <1>1, <1>2 DEF Typed, AdmissionTypeOK, Absent
<1>4. ASSUME NEW r \in Requests PROVE LifeOf(r)'
  <2>1. LifeOf(r)
    BY <1>1 DEF Life
  <2>2. \A e \in Dimensions : r \notin joined[e] => r \notin joined'[e]
    BY <1>3
  <2> HIDE DEF Early, Within
  <2> QED BY <1>2, <2>1, <2>2 DEF LifeOf, Dimensions
<1>5. ASSUME NEW e \in Dimensions PROVE (Cover(e) => Cover(e)') /\ (Trace(e) => Trace(e)')
  <2>1. Weights(e)' = Weights(e) /\ key'[e] = key[e]
    BY <1>2 DEF Weights, Weight, Delta
  <2>2. CASE e # d
    <3>1. In(e)' = In(e) /\ Live(e)' = Live(e)
      BY <1>2, <1>3, <2>2 DEF In, Live
    <3> QED BY <1>3, <2>1, <2>2, <3>1 DEF Cover, Trace
  <2>3. CASE e = d
    <3>1. joined'[e] = {} /\ counter'[e].val = 0 /\ In(e)' = {} /\ Live(e)' = {}
      BY <1>3, <2>3 DEF In, Live
    <3>2. SumOf(Weights(e)', joined'[e]) = 0 /\ SumOf(Weights(e)', In(e)') = 0 /\ SumOf(Weights(e)', Live(e)') = 0
      BY <3>1, SumEmpty
    <3>3. key[e] \in Nat
      BY <1>1, SharedTypes
    <3> QED BY <2>1, <3>1, <3>2, <3>3 DEF Cover, Trace
  <2> QED BY <2>2, <2>3
<1>6. Covered' /\ Traced'
  BY <1>2, <1>5 DEF Shared, Covered, Traced
<1> QED BY <1>4, <1>6 DEF Life

\* Steps that none of this depends on.
LEMMA ElsewhereStep ==
  ASSUME Shared, UNCHANGED <<key, pc, home, faults, admissionVars>>
  PROVE  Life' /\ Covered' /\ Traced'
<1>1. UNCHANGED <<call, sharedMu, counter, undone, joined, passed>>
  BY DEF admissionVars
<1>2. Life'
  BY <1>1 DEF Shared, Life, LifeOf
<1>3. \A d \in Dimensions : Weights(d)' = Weights(d) /\ In(d)' = In(d) /\ Live(d)' = Live(d)
  BY <1>1 DEF Weights, Weight, Delta, In, Live
<1>4. Covered' /\ Traced'
  BY <1>1, <1>3 DEF Shared, Covered, Traced, Cover, Trace
<1> QED BY <1>2, <1>4

\* The steps of a request outside Allow.
LEMMA OutsideStep ==
  ASSUME Shared, Typed', NEW r \in Requests,
         \/ Authorize(r) \/ BeginReserve(r) \/ RefuseQuota(r) \/ ReserveFails(r)
         \/ \E n \in Estimates : Reserve(r, n) \/ ReserveUnacknowledged(r, n)
         \/ RefuseAddress(r) \/ Unlimited(r) \/ (\E b \in BOOLEAN : Disable(r, b))
         \/ Consume(r) \/ ConsumeFails(r) \/ (\E n \in Usages \cup {Unknown} : RecordUsage(r, n)) \/ RecordFails(r)
         \/ Finish(r) \/ Release(r) \/ ReleaseFails(r)
  PROVE  Life' /\ Covered' /\ Traced'
<1>1. Typed
  BY DEF Shared
<1> DEFINE Aside == /\ UNCHANGED <<key, home, admissionVars>> /\ faults <= faults'
                    /\ \E l \in Labels : Goto(r, l) /\ l \notin Within /\ (l \in Early => pc[r] \in Early)
<1>2. faults \in Nat /\ (Fault => faults <= faults') /\ (UNCHANGED faults => faults <= faults')
  BY <1>1 DEF Fault, Typed, RequestsTypeOK
<1>3. ASSUME Authorize(r) \/ BeginReserve(r) \/ RefuseQuota(r) \/ ReserveFails(r) PROVE Aside
  BY <1>2, <1>3 DEF Authorize, BeginReserve, RefuseQuota, ReserveFails, Goto, Labels, Early, Within
<1>4. ASSUME NEW n \in Estimates, Reserve(r, n) \/ ReserveUnacknowledged(r, n) PROVE Aside
  BY <1>2, <1>4 DEF Reserve, ReserveUnacknowledged, Goto, Labels, Early, Within
<1>5. ASSUME RefuseAddress(r) \/ Unlimited(r) \/ Finish(r) \/ Release(r) \/ ReleaseFails(r) PROVE Aside
  BY <1>2, <1>5 DEF RefuseAddress, Unlimited, Finish, Release, ReleaseFails, Leave, Goto, Labels, Early, Within
<1>6. ASSUME NEW b \in BOOLEAN, Disable(r, b) PROVE Aside
  BY <1>2, <1>6 DEF Disable, Goto, Labels, Early, Within
<1>7. ASSUME Consume(r) \/ ConsumeFails(r) \/ RecordFails(r) PROVE Aside
  BY <1>2, <1>7 DEF Consume, ConsumeFails, RecordFails, Leave, Goto, Labels, Early, Within
<1>8. ASSUME NEW n \in Usages \cup {Unknown}, RecordUsage(r, n) PROVE Aside
  <2>1. Goto(r, "running") /\ UNCHANGED <<key, home, faults, admissionVars>>
    BY <1>1, <1>8 DEF RecordUsage, requestVars, Goto, Typed, RequestsTypeOK
  <2> QED BY <1>2, <2>1 DEF Labels, Early, Within
<1>9. Aside
  BY <1>3, <1>4, <1>5, <1>6, <1>7, <1>8
<1> QED BY <1>9, AsideStep

LEMMA SharedStep == Shared /\ [Next]_vars => Shared'
<1> SUFFICES ASSUME Shared, [Next]_vars PROVE Shared'
  OBVIOUS
<1>1. Typed'
  BY RequestsType, AdmissionType DEF Shared, Typed
<1> DEFINE Rest == Life' /\ Covered' /\ Traced'
<1>2. ASSUME NEW r \in Requests, RequestStep(r) PROVE Rest
  <2>1. ASSUME NEW n \in Estimates, Arrive(r, n) PROVE Rest
    BY <1>1, <2>1, ArriveStep
  <2>2. ASSUME RpmFailsOpen(r) \/ TpmFailsOpen(r) PROVE Rest
    BY <1>1, <2>2, RpmFailsOpenStep, TpmFailsOpenStep
  <2>3. ASSUME NEW a \in BOOLEAN, NEW b \in BOOLEAN, IncrementRpm(r, a, b) \/ IncrementTpm(r, a, b) PROVE Rest
    BY <1>1, <2>3, IncrementRpmStep, IncrementTpmStep
  <2>4. ASSUME NEW b \in BOOLEAN, Decide(r, b) \/ UndoTpm(r, b) \/ UndoRpm(r, b) \/ RecordAdmission(r, b) PROVE Rest
    BY <1>1, <2>4, DecideStep, UndoTpmStep, UndoRpmStep, RecordStep
  <2>5. ASSUME Authorize(r) \/ BeginReserve(r) \/ RefuseQuota(r) \/ ReserveFails(r) \/ RefuseAddress(r) \/ Unlimited(r) PROVE Rest
    BY <1>1, <2>5, OutsideStep
  <2>6. ASSUME NEW n \in Estimates, Reserve(r, n) \/ ReserveUnacknowledged(r, n) PROVE Rest
    BY <1>1, <2>6, OutsideStep
  <2>7. ASSUME NEW b \in BOOLEAN, Disable(r, b) PROVE Rest
    BY <1>1, <2>7, OutsideStep
  <2>8. ASSUME Consume(r) \/ ConsumeFails(r) \/ RecordFails(r) \/ Finish(r) \/ Release(r) \/ ReleaseFails(r) PROVE Rest
    BY <1>1, <2>8, OutsideStep
  <2>9. ASSUME NEW n \in Usages \cup {Unknown}, RecordUsage(r, n) PROVE Rest
    BY <1>1, <2>9, OutsideStep
  <2> HIDE DEF Rest
  <2> QED BY <1>2, <2>1, <2>2, <2>3, <2>4, <2>5, <2>6, <2>7, <2>8, <2>9 DEF RequestStep
<1>3. ASSUME NEW g \in Gateways, Crash(g) PROVE Rest
  BY <1>1, <1>3, CrashStep
<1>4. ASSUME NEW d \in Dimensions, MinuteEnds(d) PROVE Rest
  BY <1>1, <1>4, MinuteStep
<1>5. ASSUME Tick \/ UNCHANGED vars PROVE Rest
  <2>1. UNCHANGED <<key, pc, home, faults, admissionVars>>
    BY <1>5 DEF Tick, vars, requestVars
  <2> QED BY <2>1, ElsewhereStep
<1>6. Rest
  BY <1>2, <1>3, <1>4, <1>5 DEF Next
<1> QED BY <1>1, <1>6 DEF Shared

LEMMA SharedInit == Init => Shared
<1> SUFFICES ASSUME Init PROVE Shared
  OBVIOUS
<1>1. Typed
  BY TypeInit DEF Typed
<1>2. /\ \A r \in Requests : pc[r] = "new" /\ ~passed[r].done
      /\ \A d \in Dimensions : joined[d] = {} /\ counter[d].val = 0 /\ In(d) = {} /\ Live(d) = {}
  BY DEF Init, RequestsInit, AdmissionInit, NotPassed, Absent, In, Live
<1>3. Life
  BY <1>2 DEF Life, LifeOf, Early, Within
<1>4. \A d \in Dimensions : Cover(d) /\ Trace(d)
  <2> TAKE d \in Dimensions
  <2>1. joined[d] = {} /\ In(d) = {} /\ Live(d) = {} /\ counter[d].val = 0
    BY <1>2
  <2>2. SumOf(Weights(d), {}) = 0
    BY SumEmpty
  <2>3. key[d] \in Nat
    BY <1>1, SharedTypes
  <2> QED BY <2>1, <2>2, <2>3 DEF Cover, Trace
<1> QED BY <1>1, <1>3, <1>4 DEF Shared, Covered, Traced

\* The folds of the properties are sums.
LEMMA PassedSum ==
  ASSUME NEW d, NEW S, IsFiniteSet(S)
  PROVE  MapThenSumSet(LAMBDA r : Weight(r, d), S) = SumOf([r \in S |-> Weight(r, d)], S)
<1> DEFINE F == [r \in S |-> Weight(r, d)]
           h == CHOOSE i : i = [s \in SUBSET S |-> IF s = {} THEN 0 ELSE Weight(Some(s), d) + i[s \ {Some(s)}]]
<1>1. MapThenSumSet(LAMBDA r : Weight(r, d), S) = h[S]
  BY DEF MapThenSumSet, MapThenFoldSet, Some
<1>2. ASSUME NEW s \in SUBSET S, s # {} PROVE F[Some(s)] = Weight(Some(s), d)
  BY <1>2, SomeMember
<1>3. ASSUME NEW i
      PROVE  Adds(i, F, S) <=> i = [s \in SUBSET S |-> IF s = {} THEN 0 ELSE Weight(Some(s), d) + i[s \ {Some(s)}]]
  <2>1. [s \in SUBSET S |-> IF s = {} THEN 0 ELSE Weight(Some(s), d) + i[s \ {Some(s)}]]
          = [s \in SUBSET S |-> IF s = {} THEN 0 ELSE F[Some(s)] + i[s \ {Some(s)}]]
    BY <1>2
  <2> QED BY <2>1 DEF Adds
<1>4. Adds(h, F, S)
  <2>1. \E i : Adds(i, F, S)
    BY AddsExists
  <2>2. \E i : i = [s \in SUBSET S |-> IF s = {} THEN 0 ELSE Weight(Some(s), d) + i[s \ {Some(s)}]]
    BY <1>3, <2>1
  <2>3. h = [s \in SUBSET S |-> IF s = {} THEN 0 ELSE Weight(Some(s), d) + h[s \ {Some(s)}]]
    BY <2>2
  <2> HIDE DEF h
  <2> QED BY <1>3, <2>3
<1> HIDE DEF h
<1> QED BY <1>1, <1>4, SumUnique

LEMMA LiveSum ==
  ASSUME NEW d, NEW S \in SUBSET Requests
  PROVE  MapThenSumSet(LAMBDA r : IF passed[r].done THEN Weight(r, d) ELSE Delta(r, d), S) = SumOf(Weights(d), S)
<1> DEFINE h == CHOOSE i : i = [s \in SUBSET S |->
                 IF s = {} THEN 0
                 ELSE (IF passed[Some(s)].done THEN Weight(Some(s), d) ELSE Delta(Some(s), d)) + i[s \ {Some(s)}]]
<1>1. MapThenSumSet(LAMBDA r : IF passed[r].done THEN Weight(r, d) ELSE Delta(r, d), S) = h[S]
  BY DEF MapThenSumSet, MapThenFoldSet, Some
<1>2. ASSUME NEW s \in SUBSET S, s # {}
      PROVE  Weights(d)[Some(s)] = IF passed[Some(s)].done THEN Weight(Some(s), d) ELSE Delta(Some(s), d)
  BY <1>2, SomeMember DEF Weights
<1>3. ASSUME NEW i
      PROVE  Adds(i, Weights(d), S) <=> i = [s \in SUBSET S |->
                 IF s = {} THEN 0
                 ELSE (IF passed[Some(s)].done THEN Weight(Some(s), d) ELSE Delta(Some(s), d)) + i[s \ {Some(s)}]]
  <2>1. [s \in SUBSET S |->
           IF s = {} THEN 0
           ELSE (IF passed[Some(s)].done THEN Weight(Some(s), d) ELSE Delta(Some(s), d)) + i[s \ {Some(s)}]]
          = [s \in SUBSET S |-> IF s = {} THEN 0 ELSE Weights(d)[Some(s)] + i[s \ {Some(s)}]]
    BY <1>2
  <2> QED BY <2>1 DEF Adds
<1>4. Adds(h, Weights(d), S)
  <2>1. \E i : Adds(i, Weights(d), S)
    BY FS_Subset, AddsExists
  <2>2. \E i : i = [s \in SUBSET S |->
                 IF s = {} THEN 0
                 ELSE (IF passed[Some(s)].done THEN Weight(Some(s), d) ELSE Delta(Some(s), d)) + i[s \ {Some(s)}]]
    BY <1>3, <2>1
  <2>3. h = [s \in SUBSET S |->
                 IF s = {} THEN 0
                 ELSE (IF passed[Some(s)].done THEN Weight(Some(s), d) ELSE Delta(Some(s), d)) + h[s \ {Some(s)}]]
    BY <2>2
  <2> HIDE DEF h
  <2> QED BY <1>3, <2>3
<1> HIDE DEF h
<1> QED BY <1>1, <1>4, FS_Subset, SumUnique

\* Over all processes a shared minute admits no more requests and tokens than the limit,
\* whatever replies, retries and crashes lose, while no rollback takes more than its own
\* increment (internal/sharedcount/counter.go 437-440 and 568-572, key_admission.go
\* 300-352): every increment of a request whose admission a counter granted stays in the
\* counter until its minute ends, so that the limit compared with the counter bounds them all.
THEOREM SharedHolds == Spec => []SharedWindowHolds
<1>1. Shared => SharedWindowHolds
  <2> SUFFICES ASSUME Shared, ~undone, NEW d \in Dimensions, key[d] # NoLimit
               PROVE  MapThenSumSet(LAMBDA r : Weight(r, d), {r \in joined[d] : passed[r].done /\ d \in passed[r].shared})
                        <= key[d]
    BY DEF SharedWindowHolds
  <2> DEFINE S == {r \in joined[d] : passed[r].done /\ d \in passed[r].shared}
             F == [r \in S |-> Weight(r, d)]
  <2>1. Typed /\ SumOf(Weights(d), In(d)) <= key[d]
    BY DEF Shared, Covered, Cover
  <2>2. /\ joined[d] \in SUBSET Requests /\ IsFiniteSet(joined[d]) /\ In(d) \subseteq joined[d] /\ key[d] \in Nat
        /\ \A r \in Requests : Weights(d)[r] \in Nat
        /\ \A r \in Requests : Weights(d)[r] = IF passed[r].done THEN Weight(r, d) ELSE Delta(r, d)
    BY <2>1, SharedTypes
  <2>3. S \subseteq In(d) /\ IsFiniteSet(In(d)) /\ IsFiniteSet(S)
    BY <2>2, FS_Subset DEF In
  <2>4. \A r \in S : F[r] \in Int /\ F[r] <= Weights(d)[r]
    BY <2>2
  <2>5. \A r \in In(d) : Weights(d)[r] \in Nat
    BY <2>2
  <2> HIDE DEF F
  <2>6. SumOf(F, S) <= SumOf(Weights(d), In(d)) /\ SumOf(F, S) \in Int /\ SumOf(Weights(d), In(d)) \in Int
    BY <2>3, <2>4, <2>5, SumGrows
  <2>7. SumOf(F, S) <= key[d]
    BY <2>1, <2>2, <2>6
  <2> QED BY <2>3, <2>7, PassedSum DEF F
<1> QED BY <1>1, SharedInit, SharedStep, PTL DEF Spec

\* While nothing fails a refused request does not occupy the shared window: what a counter
\* holds is accounted for by requests that passed or are still in Allow (the compensating
\* decrement of key_admission.go 314).
THEOREM NoTraceLeft == Spec => []RefusedLeaveNoTrace
<1>1. Shared => RefusedLeaveNoTrace
  <2> SUFFICES ASSUME Shared, faults = 0, NEW d \in Dimensions
               PROVE  counter[d].val <=
                        MapThenSumSet(LAMBDA r : IF passed[r].done THEN Weight(r, d) ELSE Delta(r, d),
                                      {r \in joined[d] : sharedMu[home[r]] = r \/ passed[r].done})
    BY DEF RefusedLeaveNoTrace
  <2>1. counter[d].val <= SumOf(Weights(d), Live(d)) /\ Live(d) \in SUBSET Requests
    BY SharedTypes DEF Shared, Traced, Trace
  <2> QED BY <2>1, LiveSum DEF Live
<1> QED BY <1>1, SharedInit, SharedStep, PTL DEF Spec

-----------------------------------------------------------------------------
(* The local windows *)

\* The first n positions.
LEMMA Positions == ASSUME NEW n \in Nat PROVE IsFiniteSet(1..n) /\ Cardinality(1..n) = n
<1>1. n \in Int /\ 1 \in Int /\ (IF 1 > n THEN 0 ELSE n - 1 + 1) = n
  OBVIOUS
<1> QED BY <1>1, FS_Interval

\* What pruning leaves: a suffix, and everything that is still inside.
LEMMA PruneShape ==
  ASSUME NEW E, \A e \in E : e.at \in Int, NEW w \in Seq(E), NEW t \in Int
  PROVE  /\ Old(w, t) \in 0..Len(w) /\ Len(w) \in Nat
         /\ Prune(w, t) \in Seq(E) /\ Len(Prune(w, t)) = Len(w) - Old(w, t)
         /\ \A i \in 1..Len(Prune(w, t)) : Old(w, t) + i \in 1..Len(w) /\ Prune(w, t)[i] = w[Old(w, t) + i]
         /\ \A j \in 1..Len(w) : w[j].at >= t - Minute => j > Old(w, t)
<1> DEFINE old == {i \in DOMAIN w : \A j \in 1..i : w[j].at < t - Minute}
           n == Old(w, t)
<1>1. Len(w) \in Nat /\ DOMAIN w = 1..Len(w)
  BY LenProperties
<1>2. \A i \in 1..Len(w) : w[i].at \in Int
  BY <1>1, ElementOfSeq
<1>3. old \subseteq 1..Len(w)
  BY <1>1
<1>4. n = Cardinality(old)
  BY DEF Old
<1>5. n \in 0..Len(w)
  <2> HIDE DEF old, n
  <2>0. IsFiniteSet(1..Len(w)) /\ Cardinality(1..Len(w)) = Len(w)
    BY <1>1, Positions
  <2>1. Cardinality(old) \in Nat /\ Cardinality(old) <= Len(w)
    BY <1>3, <2>0, FS_Subset, FS_CardinalityType
  <2> QED BY <1>1, <1>4, <2>1
<1>6. ASSUME NEW j \in 1..Len(w), w[j].at >= t - Minute PROVE j > n
  <2>0. j \in Nat /\ j - 1 \in Nat /\ w[j].at \in Int /\ t - Minute \in Int
    BY <1>1, <1>2
  <2>1. ASSUME NEW i \in old PROVE i \in 1..(j - 1)
    <3>1. i \in 1..Len(w) /\ \A k \in 1..i : w[k].at < t - Minute
      BY <1>3
    <3>2. ~(j \in 1..i)
      BY <1>6, <2>0, <3>1
    <3> QED BY <1>1, <2>0, <3>1, <3>2
  <2>3. old \subseteq 1..(j - 1)
    BY <2>1
  <2> HIDE DEF old, n
  <2>2. IsFiniteSet(1..(j - 1)) /\ Cardinality(1..(j - 1)) = j - 1
    BY <2>0, Positions
  <2>4. Cardinality(old) <= j - 1
    BY <2>2, <2>3, FS_Subset
  <2> QED BY <1>1, <1>4, <1>5, <2>0, <2>4
<1> HIDE DEF n
<1>7. Prune(w, t) = SubSeq(w, n + 1, Len(w))
  BY DEF Prune, n
<1>8. /\ SubSeq(w, n + 1, Len(w)) \in Seq(E) /\ Len(SubSeq(w, n + 1, Len(w))) = Len(w) - n
      /\ \A i \in 1..Len(SubSeq(w, n + 1, Len(w))) : n + i \in 1..Len(w) /\ SubSeq(w, n + 1, Len(w))[i] = w[n + i]
  BY <1>5, Suffix
<1> QED BY <1>1, <1>5, <1>6, <1>7, <1>8 DEF n

\* A window that was pruned before loses no more than one that was not.
LEMMA PruneTwice ==
  ASSUME NEW E, \A e \in E : e.at \in Int, NEW w \in Seq(E), NEW s \in Int, NEW t \in Int
  PROVE  Len(Prune(Prune(w, s), t)) <= Len(Prune(w, t))
<1> DEFINE v == Prune(w, s)
           n == Old(w, s)
           m == Old(v, t)
           O(u) == {i \in DOMAIN u : \A j \in 1..i : u[j].at < t - Minute}
<1>1. /\ n \in 0..Len(w) /\ Len(v) = Len(w) - n /\ Len(w) \in Nat /\ v \in Seq(E)
      /\ \A i \in 1..Len(v) : n + i \in 1..Len(w) /\ v[i] = w[n + i]
  BY PruneShape
<1>2. Len(Prune(w, t)) = Len(w) - Old(w, t) /\ Old(w, t) \in 0..Len(w)
  BY PruneShape
<1> HIDE DEF v, n
<1>3. Len(Prune(v, t)) = Len(v) - m /\ m \in 0..Len(v) /\ Len(v) \in Nat
  BY <1>1, PruneShape
<1>4. DOMAIN w = 1..Len(w) /\ DOMAIN v = 1..Len(v)
  BY <1>1, LenProperties
<1>5. n \in Nat /\ m \in Nat /\ n + m \in Nat
  BY <1>1, <1>3
<1> DEFINE shift == [i \in O(v) |-> n + i]
           moved == {n + i : i \in O(v)}
<1>6. O(w) \subseteq (1..n) \cup moved
  <2> SUFFICES ASSUME NEW i \in O(w), i \notin 1..n PROVE i \in moved
    OBVIOUS
  <2>1. i \in 1..Len(w) /\ \A j \in 1..i : w[j].at < t - Minute
    BY <1>4
  <2>2. i \in Nat /\ i > n /\ i - n \in 1..Len(v) /\ n + (i - n) = i
    <3>1. Len(v) = Len(w) - n /\ Len(w) \in Nat
      BY <1>1
    <3>2. i \in Nat /\ 1 <= i /\ i <= Len(w)
      BY <2>1, <3>1
    <3> QED BY <1>5, <3>1, <3>2
  <2>3. ASSUME NEW j \in 1..(i - n) PROVE v[j].at < t - Minute
    <3>0. Len(v) \in Nat
      BY <1>3
    <3>1. j \in 1..Len(v) /\ n + j \in 1..i
      BY <1>5, <2>2, <3>0
    <3>2. v[j] = w[n + j]
      BY <1>1, <3>1
    <3> QED BY <2>1, <3>1, <3>2
  <2>4. i - n \in O(v)
    BY <1>4, <2>2, <2>3
  <2> HIDE DEF O
  <2> QED BY <2>2, <2>4
<1>7. IsFiniteSet(O(v)) /\ Cardinality(O(v)) = m /\ Cardinality(O(w)) = Old(w, t)
  <2>1. IsFiniteSet(1..Len(v)) /\ O(v) \subseteq 1..Len(v)
    BY <1>3, <1>4, Positions
  <2>2. Cardinality(O(v)) = m /\ Cardinality(O(w)) = Old(w, t)
    BY DEF Old
  <2> HIDE DEF O
  <2> QED BY <2>1, <2>2, FS_Subset
<1> HIDE DEF O, m
<1>8. IsFiniteSet(moved) /\ Cardinality(moved) <= m /\ Cardinality(moved) \in Nat
  <2>1. shift \in Surjection(O(v), moved)
    BY DEF Surjection
  <2> QED BY <1>7, <2>1, FS_Surjection, FS_CardinalityType DEF ExistsSurjection
<1>9. IsFiniteSet(1..n) /\ Cardinality(1..n) = n
  BY <1>5, Positions
<1> HIDE DEF moved
<1>10. /\ IsFiniteSet((1..n) \cup moved)
       /\ Cardinality((1..n) \cup moved) = Cardinality(1..n) + Cardinality(moved) - Cardinality((1..n) \cap moved)
       /\ Cardinality((1..n) \cap moved) \in Nat
  <2>1. IsFiniteSet((1..n) \cap moved)
    BY <1>9, FS_Subset
  <2> QED BY <1>8, <1>9, <2>1, FS_Union, FS_CardinalityType
<1>11. Cardinality(O(w)) <= Cardinality((1..n) \cup moved)
  BY <1>6, <1>10, FS_Subset
<1>12. Old(w, t) <= n + m
  BY <1>2, <1>5, <1>7, <1>8, <1>9, <1>10, <1>11
<1>13. Len(Prune(v, t)) <= Len(Prune(w, t))
  <2>1. Len(w) \in Nat /\ Len(v) = Len(w) - n
    BY <1>1
  <2> QED BY <1>2, <1>3, <1>5, <1>12, <2>1
<1> QED BY <1>13 DEF v

\* A window that has an entry of its own for each request of S, with its time and its tokens.
Places(f, P, S, w) ==
  /\ f \in [S -> 1..Len(w)]
  /\ \A r, q \in S : f[r] = f[q] => r = q
  /\ \A r \in S : w[f[r]].at = P[r].at /\ w[f[r]].tokens = P[r].tokens
FitsIn(P, S, w) == \E f : Places(f, P, S, w)

LEMMA SubFits ==
  ASSUME NEW P, NEW Q, NEW S, NEW w, FitsIn(P, S, w), NEW T \in SUBSET S,
         \A r \in T : Q[r].at = P[r].at /\ Q[r].tokens = P[r].tokens
  PROVE  FitsIn(Q, T, w)
<1>1. PICK f : Places(f, P, S, w)
  BY DEF FitsIn
<1>2. Places([r \in T |-> f[r]], Q, T, w)
  BY <1>1 DEF Places
<1> QED BY <1>2 DEF FitsIn

LEMMA PrunedFits ==
  ASSUME NEW E, \A e \in E : e.at \in Int, NEW w \in Seq(E), NEW t \in Int, NEW P, NEW S, FitsIn(P, S, w),
         \A r \in S : P[r].at >= t - Minute
  PROVE  FitsIn(P, S, Prune(w, t))
<1> DEFINE n == Old(w, t)
           v == Prune(w, t)
<1>1. PICK f : Places(f, P, S, w)
  BY DEF FitsIn
<1>2. /\ n \in 0..Len(w) /\ Len(w) \in Nat /\ Len(v) = Len(w) - n
      /\ \A i \in 1..Len(v) : v[i] = w[n + i]
      /\ \A j \in 1..Len(w) : w[j].at >= t - Minute => j > n
  BY PruneShape
<1> HIDE DEF n, v
<1> DEFINE h == [r \in S |-> f[r] - n]
<1>3. ASSUME NEW r \in S PROVE h[r] \in 1..Len(v) /\ n + h[r] = f[r] /\ v[h[r]] = w[f[r]]
  <2>1. f[r] \in 1..Len(w) /\ w[f[r]].at >= t - Minute
    BY <1>1 DEF Places
  <2>2. f[r] > n
    BY <1>2, <2>1
  <2>3. f[r] - n \in 1..Len(v) /\ n + (f[r] - n) = f[r]
    BY <1>2, <2>1, <2>2
  <2> QED BY <1>2, <2>3
<1>4. h \in [S -> 1..Len(v)]
  BY <1>3
<1>5. ASSUME NEW r \in S, NEW q \in S, h[r] = h[q] PROVE r = q
  <2>1. f[r] = f[q]
    BY <1>3, <1>5
  <2> QED BY <1>1, <2>1 DEF Places
<1>6. \A r \in S : v[h[r]].at = P[r].at /\ v[h[r]].tokens = P[r].tokens
  BY <1>1, <1>3 DEF Places
<1> HIDE DEF h
<1>7. Places(h, P, S, v)
  BY <1>4, <1>5, <1>6 DEF Places
<1> QED BY <1>7 DEF FitsIn, v

LEMMA AppendFits ==
  ASSUME NEW E, NEW w \in Seq(E), NEW e \in E, NEW P, NEW Q, NEW S, FitsIn(P, S, w), NEW x, x \notin S,
         \A r \in S : Q[r].at = P[r].at /\ Q[r].tokens = P[r].tokens, e.at = Q[x].at, e.tokens = Q[x].tokens
  PROVE  FitsIn(Q, S \cup {x}, Append(w, e))
<1> DEFINE n == Len(w)
           v == Append(w, e)
<1>1. PICK f : Places(f, P, S, w)
  BY DEF FitsIn
<1>2. n \in Nat /\ Len(v) = n + 1 /\ v[n + 1] = e /\ \A i \in 1..n : v[i] = w[i]
  BY AppendProperties, LenProperties
<1>3. \A r \in S : f[r] \in 1..n
  BY <1>1 DEF Places
<1> HIDE DEF n, v
<1> DEFINE h == [r \in S \cup {x} |-> IF r = x THEN n + 1 ELSE f[r]]
<1>4. h[x] = n + 1 /\ \A r \in S : h[r] = f[r]
  OBVIOUS
<1>5. h \in [S \cup {x} -> 1..Len(v)]
  BY <1>2, <1>3
<1> HIDE DEF h
<1>6. \A r \in S : h[r] # h[x] /\ v[h[r]] = w[f[r]]
  BY <1>2, <1>3, <1>4
<1>7. \A r, q \in S \cup {x} : h[r] = h[q] => r = q
  BY <1>1, <1>4, <1>6 DEF Places
<1>8. \A r \in S \cup {x} : v[h[r]].at = Q[r].at /\ v[h[r]].tokens = Q[r].tokens
  BY <1>1, <1>2, <1>4, <1>6 DEF Places
<1>9. Places(h, Q, S \cup {x}, v)
  BY <1>5, <1>7, <1>8 DEF Places
<1> QED BY <1>9 DEF FitsIn, v

\* What requests and entries weigh in a dimension.
Load(P, d) == [r \in Requests |-> IF d = "rpm" THEN 1 ELSE P[r].tokens]
Heavy(w, d) == [i \in 1..Len(w) |-> IF d = "rpm" THEN 1 ELSE w[i].tokens]

\* Requests that fit in a window weigh no more than it.
LEMMA FitSum ==
  ASSUME NEW E, \A e \in E : e.tokens \in Nat, NEW w \in Seq(E), NEW d, NEW P, NEW S \in SUBSET Requests, FitsIn(P, S, w)
  PROVE  /\ SumOf(Load(P, d), S) <= SumOf(Heavy(w, d), 1..Len(w))
         /\ SumOf(Load(P, d), S) \in Int /\ SumOf(Heavy(w, d), 1..Len(w)) \in Int
<1>1. PICK f : Places(f, P, S, w)
  BY DEF FitsIn
<1>2. Len(w) \in Nat /\ \A i \in 1..Len(w) : w[i].tokens \in Nat
  BY LenProperties, ElementOfSeq
<1>3. IsFiniteSet(S) /\ IsFiniteSet(1..Len(w))
  BY <1>2, FS_Subset, Positions
<1>4. \A i \in 1..Len(w) : Heavy(w, d)[i] \in Nat /\ Heavy(w, d)[i] = IF d = "rpm" THEN 1 ELSE w[i].tokens
  BY <1>2 DEF Heavy
<1>5. /\ f \in [S -> 1..Len(w)] /\ \A r, q \in S : f[r] = f[q] => r = q
      /\ \A r \in S : w[f[r]].tokens = P[r].tokens
  BY <1>1 DEF Places
<1>6. \A r \in S : Load(P, d)[r] = Heavy(w, d)[f[r]]
  BY <1>4, <1>5 DEF Load
<1>7. \A r \in S : Load(P, d)[r] \in Int /\ Load(P, d)[r] <= Heavy(w, d)[f[r]]
  <2> SUFFICES ASSUME NEW r \in S PROVE Load(P, d)[r] \in Int /\ Load(P, d)[r] <= Heavy(w, d)[f[r]]
    OBVIOUS
  <2>1. f[r] \in 1..Len(w)
    BY <1>5
  <2>2. Heavy(w, d)[f[r]] \in Nat
    BY <1>4, <2>1
  <2> QED BY <1>6, <2>2
<1> DEFINE F == Load(P, d)
           G == Heavy(w, d)
           T == 1..Len(w)
<1>8. /\ IsFiniteSet(S) /\ IsFiniteSet(T) /\ f \in [S -> T] /\ (\A r, q \in S : f[r] = f[q] => r = q)
      /\ (\A i \in T : G[i] \in Nat) /\ \A r \in S : F[r] \in Int /\ F[r] <= G[f[r]]
  BY <1>3, <1>4, <1>5, <1>7
<1> HIDE DEF F, G, T
<1>9. SumOf(F, S) <= SumOf(G, T) /\ SumOf(F, S) \in Int /\ SumOf(G, T) \in Int
  BY <1>8, SumInject
<1> QED BY <1>9 DEF F, G, T

\* The fold over the tokens of a window is a sum.
LEMMA WindowSum ==
  ASSUME NEW E, NEW w \in Seq(E)
  PROVE  TokensIn(w) = SumOf(Heavy(w, "tpm"), 1..Len(w)) /\ SumOf(Heavy(w, "rpm"), 1..Len(w)) = Len(w)
<1>0. Len(w) \in Nat /\ DOMAIN w = 1..Len(w)
  BY LenProperties
<1> DEFINE S == 1..Len(w)
           F == Heavy(w, "tpm")
           h == CHOOSE i : i = [s \in SUBSET S |-> IF s = {} THEN 0 ELSE w[Some(s)].tokens + i[s \ {Some(s)}]]
<1>1. TokensIn(w) = h[S]
  BY <1>0 DEF TokensIn, MapThenSumSet, MapThenFoldSet, Some
<1>2. ASSUME NEW s \in SUBSET S, s # {} PROVE F[Some(s)] = w[Some(s)].tokens
  BY <1>2, SomeMember DEF Heavy
<1>3. ASSUME NEW i
      PROVE  Adds(i, F, S) <=> i = [s \in SUBSET S |-> IF s = {} THEN 0 ELSE w[Some(s)].tokens + i[s \ {Some(s)}]]
  <2>1. [s \in SUBSET S |-> IF s = {} THEN 0 ELSE w[Some(s)].tokens + i[s \ {Some(s)}]]
          = [s \in SUBSET S |-> IF s = {} THEN 0 ELSE F[Some(s)] + i[s \ {Some(s)}]]
    BY <1>2
  <2> QED BY <2>1 DEF Adds
<1>4. IsFiniteSet(S) /\ Cardinality(S) = Len(w)
  BY <1>0, Positions
<1>5. Adds(h, F, S)
  <2>1. \E i : Adds(i, F, S)
    BY <1>4, AddsExists
  <2>2. \E i : i = [s \in SUBSET S |-> IF s = {} THEN 0 ELSE w[Some(s)].tokens + i[s \ {Some(s)}]]
    BY <1>3, <2>1
  <2>3. h = [s \in SUBSET S |-> IF s = {} THEN 0 ELSE w[Some(s)].tokens + h[s \ {Some(s)}]]
    BY <2>2
  <2> HIDE DEF h
  <2> QED BY <1>3, <2>3
<1> HIDE DEF h
<1>6. TokensIn(w) = SumOf(F, S)
  BY <1>1, <1>4, <1>5, SumUnique
<1>7. \A i \in S : Heavy(w, "rpm")[i] = 1
  BY DEF Heavy
<1>8. SumOf(Heavy(w, "rpm"), S) = Len(w)
  BY <1>4, <1>7, SumOnes
<1> QED BY <1>6, <1>8

\* The requests that passed within the last minute of a process and have not lost their verdict.
Fresh(g) == {r \in Requests : home[r] = g /\ passed[r].prompt /\ passed[r].at >= now - Minute}

\* Each of them has an entry of its own in the window.
Placed == \A g \in Gateways : FitsIn(passed, Fresh(g), local[g])

\* Nobody has read the clock in the future.
Past == \A r \in Requests : call[r].at <= now /\ (passed[r].prompt => passed[r].at <= now)

\* A request that a counter of requests did not answer holds the round trips of its process
\* from its local verdict until it is recorded.
VerdictOf(r) ==
  /\ pc[r] = "decide" => ~key.redis
  /\ pc[r] \in {"rpm", "tpm", "undoRpm", "undoTpm", "record"} => key.redis
  /\ pc[r] = "tpm" /\ key.rpm # NoLimit => sharedMu[home[r]] = r
  /\ pc[r] \in {"tpm", "record"} /\ key.rpm # NoLimit /\ "rpm" \notin call[r].counted => Len(Window(r)) < key.rpm
Verdicts == \A r \in Requests : VerdictOf(r)

\* No minute has been overfull.
Fitting == \A g \in Gateways, d \in Dimensions, t \in 0..now :
             key[d] # NoLimit => SumOf(Load(passed, d), InMinute(g, d, t)) <= key[d]

Local == Placed /\ Past /\ Verdicts /\ Fitting

LEMMA LocalTypes ==
  ASSUME Typed
  PROVE  /\ now \in Nat /\ \A e \in Entry : e.at \in Int /\ e.tokens \in Nat
         /\ \A r \in Requests : /\ home[r] \in Gateways /\ local[home[r]] \in Seq(Entry) /\ call[r].at \in Nat
                                /\ call[r].tokens \in Nat /\ passed[r].at \in Nat /\ passed[r].tokens \in Nat
                                /\ passed[r].prompt \in BOOLEAN /\ passed[r].shared \in SUBSET Dimensions
         /\ \A g \in Gateways : local[g] \in Seq(Entry)
         /\ \A d \in Dimensions : key[d] \in Nat
<1>1. MaxTime[key] \in Nat /\ now \in Nat /\ now \in 0..MaxTime[key]
  BY DEF Typed, RequestsTypeOK
<1>2. \A e \in Entry : e.at \in Int /\ e.tokens \in Nat
  BY <1>1 DEF Entry
<1>3. \A g \in Gateways : local[g] \in Seq(Entry)
  BY DEF Typed, AdmissionTypeOK, Entry
<1>4. \A r \in Requests : call[r] \in [at : 0..MaxTime[key], tokens : Nat, counted : SUBSET Dimensions]
  BY DEF Typed, AdmissionTypeOK
<1>5. \A r \in Requests : passed[r] \in [done : BOOLEAN, shared : SUBSET Dimensions, tokens : Nat,
                                         prompt : BOOLEAN, at : 0..MaxTime[key]]
  BY DEF Typed, AdmissionTypeOK
<1>6. \A r \in Requests : home[r] \in Gateways
  BY DEF Typed, RequestsTypeOK
<1>7. \A r \in Requests : call[r].at \in Nat /\ call[r].tokens \in Nat
  BY <1>1, <1>4
<1>8. \A r \in Requests : /\ passed[r].at \in Nat /\ passed[r].tokens \in Nat
                          /\ passed[r].prompt \in BOOLEAN /\ passed[r].shared \in SUBSET Dimensions
  BY <1>1, <1>5
<1>9. \A d \in Dimensions : key[d] \in Nat
  BY SharedTypes
<1> QED BY <1>1, <1>2, <1>3, <1>6, <1>7, <1>8, <1>9

\* A step that lets nobody pass: the windows keep the entries of whoever stays fresh.
LEMMA PlacedLess ==
  ASSUME Placed,
         \A g \in Gateways : Fresh(g)' \subseteq Fresh(g) /\ FitsIn(passed, Fresh(g)', local'[g]),
         \A g \in Gateways, r \in Requests : r \in Fresh(g)' => passed'[r] = passed[r]
  PROVE  Placed'
<1>1. ASSUME NEW g \in Gateways PROVE FitsIn(passed', Fresh(g)', local'[g])
  <2>1. \A r \in Fresh(g)' : passed'[r] = passed[r]
    BY DEF Fresh
  <2> QED BY <2>1, SubFits
<1> QED BY <1>1 DEF Placed

LEMMA FittingLess ==
  ASSUME Typed, Fitting, key' = key,
         \A g \in Gateways, d \in Dimensions, t \in 0..now' :
           \E s \in 0..now : InMinute(g, d, t)' \subseteq InMinute(g, d, s),
         \A r \in Requests : passed'[r].prompt => passed'[r] = passed[r]
  PROVE  Fitting'
<1> SUFFICES ASSUME NEW g \in Gateways, NEW d \in Dimensions, NEW t \in 0..now', key[d] # NoLimit
             PROVE  SumOf(Load(passed', d), InMinute(g, d, t)') <= key[d]
  BY DEF Fitting
<1>1. PICK s \in 0..now : InMinute(g, d, t)' \subseteq InMinute(g, d, s)
  OBVIOUS
<1>2. InMinute(g, d, s) \in SUBSET Requests /\ IsFiniteSet(InMinute(g, d, s))
  BY FS_Subset DEF InMinute
<1>3. \A r \in InMinute(g, d, s) : Load(passed, d)[r] \in Nat
  BY <1>2, LocalTypes DEF Load
<1>4. \A r \in InMinute(g, d, t)' : passed'[r] = passed[r]
  BY DEF InMinute
<1>5. \A r \in InMinute(g, d, t)' : Load(passed', d)[r] = Load(passed, d)[r]
  BY <1>1, <1>2, <1>4 DEF Load
<1>6. \A r \in InMinute(g, d, t)' : Load(passed', d)[r] \in Int /\ Load(passed', d)[r] <= Load(passed, d)[r]
  BY <1>1, <1>3, <1>5
<1> DEFINE F == Load(passed', d)
           G == Load(passed, d)
           S == InMinute(g, d, t)'
           T == InMinute(g, d, s)
<1>7. IsFiniteSet(T) /\ S \in SUBSET T /\ (\A r \in T : G[r] \in Nat) /\ (\A r \in S : F[r] \in Int /\ F[r] <= G[r])
  BY <1>1, <1>2, <1>3, <1>6
<1>8. SumOf(G, T) <= key[d] /\ key[d] \in Nat
  BY LocalTypes DEF Fitting
<1> HIDE DEF F, G, S, T
<1>9. SumOf(F, S) <= SumOf(G, T) /\ SumOf(F, S) \in Int /\ SumOf(G, T) \in Int
  BY <1>7, SumGrows
<1>10. SumOf(F, S) <= key[d]
  BY <1>8, <1>9
<1> QED BY <1>10 DEF F, S

LEMMA LongerFits ==
  ASSUME NEW E, NEW w \in Seq(E), NEW e \in E, NEW P, NEW S, FitsIn(P, S, w)
  PROVE  FitsIn(P, S, Append(w, e))
<1>1. PICK f : Places(f, P, S, w)
  BY DEF FitsIn
<1>2. Len(w) \in Nat /\ Len(Append(w, e)) = Len(w) + 1 /\ \A i \in 1..Len(w) : Append(w, e)[i] = w[i]
  BY AppendProperties, LenProperties
<1>3. f \in [S -> 1..Len(Append(w, e))] /\ \A r \in S : Append(w, e)[f[r]] = w[f[r]]
  BY <1>1, <1>2 DEF Places
<1>4. Places(f, P, S, Append(w, e))
  BY <1>1, <1>3 DEF Places
<1> QED BY <1>4 DEF FitsIn

\* What a step of r may do to the windows: prune that of its process as of a time it has
\* read, and add an entry.
Pruned(r, t) == Prune(local[home[r]], t)
Slides(r) ==
  \/ local' = local
  \/ \E t \in 0..now : local' = [local EXCEPT ![home[r]] = Pruned(r, t)]
  \/ \E t \in 0..now, e \in Entry : local' = [local EXCEPT ![home[r]] = Append(Pruned(r, t), e)]

LEMMA SlidesFits ==
  ASSUME Typed, Placed, NEW r \in Requests, Slides(r), NEW g \in Gateways
  PROVE  FitsIn(passed, Fresh(g), local'[g])
<1>1. FitsIn(passed, Fresh(g), local[g])
  BY DEF Placed
<1>2. /\ now \in Nat /\ (\A e \in Entry : e.at \in Int) /\ home[r] \in Gateways /\ local[g] \in Seq(Entry)
      /\ local \in [Gateways -> Seq(Entry)]
  <2>1. local \in [Gateways -> Seq(Entry)]
    BY DEF Typed, AdmissionTypeOK, Entry
  <2> QED BY <2>1, LocalTypes
<1>3. ASSUME NEW t \in 0..now
      PROVE  FitsIn(passed, Fresh(g), Prune(local[g], t)) /\ Prune(local[g], t) \in Seq(Entry)
  <2>1. t \in Int /\ t <= now
    BY <1>2
  <2>2. \A q \in Fresh(g) : passed[q].at >= t - Minute
    <3> SUFFICES ASSUME NEW q \in Fresh(g) PROVE passed[q].at >= t - Minute
      OBVIOUS
    <3>1. q \in Requests /\ passed[q].at >= now - Minute
      BY DEF Fresh
    <3>2. passed[q].at \in Nat
      BY <3>1, LocalTypes
    <3> QED BY <1>2, <2>1, <3>1, <3>2
  <2> QED BY <1>1, <1>2, <2>1, <2>2, PrunedFits, PruneType
<1>4. CASE local' = local \/ g # home[r]
  <2>1. local'[g] = local[g]
    BY <1>2, <1>4 DEF Slides
  <2> QED BY <1>1, <2>1
<1>5. CASE g = home[r] /\ \E t \in 0..now : local' = [local EXCEPT ![home[r]] = Pruned(r, t)]
  <2>1. PICK t \in 0..now : local'[g] = Prune(local[g], t)
    BY <1>2, <1>5 DEF Pruned
  <2> QED BY <1>3, <2>1
<1>6. CASE g = home[r] /\ \E t \in 0..now, e \in Entry : local' = [local EXCEPT ![home[r]] = Append(Pruned(r, t), e)]
  <2>1. PICK t \in 0..now, e \in Entry : local'[g] = Append(Prune(local[g], t), e)
    BY <1>2, <1>6 DEF Pruned
  <2> QED BY <1>3, <2>1, LongerFits
<1> QED BY <1>4, <1>5, <1>6 DEF Slides

\* A step of r after which nobody has newly passed at the time it read.
LEMMA QuietFits ==
  ASSUME Typed, Local, NEW r \in Requests, UNCHANGED <<key, now, home>>, Slides(r),
         \A q \in Requests : passed'[q].prompt => passed'[q] = passed[q]
  PROVE  Placed' /\ Fitting'
<1>1. Placed /\ Fitting
  BY DEF Local
<1>2. \A g \in Gateways : Fresh(g)' \subseteq Fresh(g)
  BY DEF Fresh
<1>3. \A g \in Gateways, q \in Requests : q \in Fresh(g)' => passed'[q] = passed[q]
  BY DEF Fresh
<1>4. ASSUME NEW g \in Gateways PROVE FitsIn(passed, Fresh(g)', local'[g])
  <2>1. FitsIn(passed, Fresh(g), local'[g])
    BY <1>1, SlidesFits
  <2> QED BY <1>2, <2>1, SubFits
<1>5. ASSUME NEW g \in Gateways, NEW d \in Dimensions, NEW t \in 0..now'
      PROVE  \E s \in 0..now : InMinute(g, d, t)' \subseteq InMinute(g, d, s)
  <2>1. t \in 0..now /\ InMinute(g, d, t)' \subseteq InMinute(g, d, t)
    BY DEF InMinute
  <2> QED BY <2>1
<1>6. Placed'
  BY <1>1, <1>2, <1>3, <1>4, PlacedLess
<1>7. Fitting'
  BY <1>1, <1>5, FittingLess
<1> QED BY <1>6, <1>7

\* A request that passes at the time it read adds its entry to a window that has room.
LEMMA AdmitFits ==
  ASSUME Typed, Local, NEW r \in Requests, UNCHANGED <<key, now, home>>, Record(r),
         call[r].at = now, call[r].counted # Dimensions,
         \A d \in Dimensions : key[d] # NoLimit /\ d \notin call[r].counted => ~OverLocally(r, d)
  PROVE  Placed' /\ Fitting'
<1> DEFINE g == home[r]
           v == Window(r)
           e == [at |-> call[r].at, tokens |-> call[r].tokens]
           S == Fresh(g) \ {r}
<1>1. /\ now \in Nat /\ (\A x \in Entry : x.at \in Int /\ x.tokens \in Nat) /\ g \in Gateways /\ local[g] \in Seq(Entry)
      /\ local \in [Gateways -> Seq(Entry)]
  <2>1. local \in [Gateways -> Seq(Entry)]
    BY DEF Typed, AdmissionTypeOK, Entry
  <2> QED BY <2>1, LocalTypes
<1>2. v \in Seq(Entry) /\ e \in Entry /\ call[r].tokens \in Nat
  BY WindowTypes DEF Typed, RequestsTypeOK, AdmissionTypeOK, Entry
<1>3. FitsIn(passed, S, v)
  <2>1. FitsIn(passed, Fresh(g), Prune(local[g], now))
    <3>1. now \in Int /\ FitsIn(passed, Fresh(g), local[g]) /\ \A q \in Fresh(g) : passed[q].at >= now - Minute
      BY <1>1 DEF Local, Placed, Fresh
    <3> QED BY <1>1, <3>1, PrunedFits
  <2>2. v = Prune(local[g], now) /\ S \in SUBSET Fresh(g)
    BY DEF Window
  <2> QED BY <2>1, <2>2, SubFits
<1>4. /\ local'[g] = Append(v, e) /\ \A h \in Gateways : h # g => local'[h] = local[h]
      /\ local' = [local EXCEPT ![g] = Append(v, e)]
  BY <1>1 DEF Record, Reserved
<1> DEFINE p == [done |-> TRUE, shared |-> call[r].counted, tokens |-> call[r].tokens, prompt |-> TRUE, at |-> now]
<1>5. passed'[r] = p /\ \A q \in Requests \ {r} : passed'[q] = passed[q]
  <2>1. passed' = [passed EXCEPT ![r] = p]
    BY DEF Record
  <2> QED BY <2>1 DEF Typed, AdmissionTypeOK
<1>6. /\ passed'[r].prompt /\ passed'[r].at = now /\ passed'[r].tokens = call[r].tokens
      /\ passed'[r].shared = call[r].counted
  BY <1>5
<1>7. e.at = now /\ e.tokens = call[r].tokens
  OBVIOUS
<1> HIDE DEF v, e, p
<1>8. Placed'
  <2>1. \A h \in Gateways : Fresh(h)' \subseteq Fresh(h) \cup {r} /\ (h # g => r \notin Fresh(h)')
    BY <1>5 DEF Fresh
  <2>2. ASSUME NEW h \in Gateways, h # g PROVE FitsIn(passed', Fresh(h)', local'[h])
    <3>1. Fresh(h)' \subseteq Fresh(h) /\ (\A q \in Fresh(h)' : q \in Requests \ {r})
      BY <2>1, <2>2 DEF Fresh
    <3>2. FitsIn(passed, Fresh(h), local[h]) /\ local'[h] = local[h]
      BY <1>4, <2>2 DEF Local, Placed
    <3> QED BY <1>5, <3>1, <3>2, SubFits
  <2>3. ASSUME NEW h \in Gateways, h = g PROVE FitsIn(passed', Fresh(h)', local'[h])
    <3>1. r \notin S /\ \A q \in S : passed'[q] = passed[q]
      BY <1>5 DEF Fresh
    <3> HIDE DEF S
    <3>2. FitsIn(passed', S \cup {r}, Append(v, e))
      BY <1>2, <1>3, <1>6, <1>7, <3>1, AppendFits
    <3>3. Fresh(h)' \subseteq S \cup {r}
      BY <2>1, <2>3 DEF S
    <3>4. local'[h] = Append(v, e)
      BY <1>4, <2>3
    <3> QED BY <3>2, <3>3, <3>4, SubFits
  <2>4. \A h \in Gateways : FitsIn(passed', Fresh(h)', local'[h])
    BY <2>2, <2>3
  <2> QED BY <2>4 DEF Placed
<1>9. \A d \in Dimensions : \A q \in Requests \ {r} : Load(passed', d)[q] = Load(passed, d)[q]
  BY <1>5 DEF Load
<1>10. \A d \in Dimensions : \A q \in Requests : Load(passed, d)[q] \in Nat /\ Load(passed', d)[q] \in Nat
  <2>1. \A q \in Requests : passed[q].tokens \in Nat /\ passed'[q].tokens \in Nat
    BY <1>2, <1>5, <1>6, LocalTypes
  <2> QED BY <2>1 DEF Load
<1>11. ASSUME NEW h \in Gateways, NEW d \in Dimensions, NEW t \in 0..now, key[d] # NoLimit
       PROVE  SumOf(Load(passed', d), InMinute(h, d, t)') <= key[d]
  <2> DEFINE I == InMinute(h, d, t)
             J == InMinute(h, d, t)'
             F == Load(passed', d)
             G == Load(passed, d)
  <2>1. J \subseteq I \cup {r} /\ (r \in J => h = g /\ d \notin call[r].counted /\ t = now)
    <3>1. J \subseteq I \cup {r}
      BY <1>5 DEF InMinute
    <3>2. r \in J => h = g /\ d \notin call[r].counted /\ now <= t
      BY <1>6 DEF InMinute
    <3> QED BY <1>1, <3>1, <3>2
  <2>2. I \in SUBSET Requests /\ J \in SUBSET Requests /\ IsFiniteSet(I) /\ IsFiniteSet(J)
    <3>1. I \in SUBSET Requests /\ J \in SUBSET Requests
      BY DEF InMinute
    <3> QED BY <3>1, FS_Subset
  <2>3. key[d] \in Nat /\ SumOf(G, I) <= key[d]
    BY <1>11, LocalTypes DEF Local, Fitting
  <2>4. \A q \in Requests : F[q] \in Nat /\ G[q] \in Nat
    BY <1>10
  <2>5. \A q \in Requests \ {r} : F[q] = G[q]
    BY <1>9
  <2>6. CASE r \notin J
    <3> HIDE DEF F, G, I, J
    <3>1. J \in SUBSET I /\ (\A q \in I : G[q] \in Nat) /\ (\A q \in J : F[q] \in Int /\ F[q] <= G[q])
      <4>1. J \in SUBSET I
        BY <2>1, <2>6
      <4>2. \A q \in J : F[q] = G[q] /\ G[q] \in Nat
        BY <2>2, <2>4, <2>5, <2>6
      <4> QED BY <2>2, <2>4, <4>1, <4>2
    <3>2. SumOf(F, J) <= SumOf(G, I) /\ SumOf(F, J) \in Int /\ SumOf(G, I) \in Int
      BY <2>2, <3>1, SumGrows
    <3>3. SumOf(F, J) <= key[d]
      BY <2>3, <3>2
    <3> QED BY <3>3 DEF F, J
  <2>7. CASE r \in J
    <3>1. h = g /\ d \notin call[r].counted /\ t = now /\ ~OverLocally(r, d)
      BY <1>11, <2>1, <2>7
    <3> DEFINE U == J \ {r}
    <3>2. U \subseteq S
      <4>1. \A q \in I : h = g /\ t = now => q \in Fresh(g)
        BY DEF InMinute, Fresh
      <4> HIDE DEF I, J, g
      <4> QED BY <2>1, <3>1, <4>1
    <3>3. S \in SUBSET Requests /\ IsFiniteSet(S) /\ IsFiniteSet(U)
      <4>1. S \in SUBSET Requests /\ U \in SUBSET Requests
        BY DEF Fresh, InMinute
      <4> QED BY <4>1, FS_Subset
    <3>4. /\ SumOf(G, S) <= SumOf(Heavy(v, d), 1..Len(v))
          /\ SumOf(G, S) \in Int /\ SumOf(Heavy(v, d), 1..Len(v)) \in Int
      <4> HIDE DEF S
      <4> QED BY <1>1, <1>2, <1>3, <3>3, FitSum
    <3>5. SumOf(Heavy(v, d), 1..Len(v)) + F[r] <= key[d]
      <4>1. TokensIn(v) = SumOf(Heavy(v, "tpm"), 1..Len(v)) /\ SumOf(Heavy(v, "rpm"), 1..Len(v)) = Len(v)
        BY <1>2, WindowSum
      <4>2. CASE d = "rpm"
        <5>1. F[r] = 1
          BY <4>2 DEF Load
        <5>2. ~(Len(v) >= key.rpm) /\ Len(v) \in Nat
          BY <1>2, <1>11, <3>1, <4>2, LenProperties DEF OverLocally, v
        <5> QED BY <2>3, <4>1, <4>2, <5>1, <5>2
      <4>3. CASE d = "tpm"
        <5>1. F[r] = call[r].tokens
          BY <1>6, <4>3 DEF Load
        <5>2. ~(TokensIn(v) + call[r].tokens > key.tpm)
          BY <1>11, <3>1, <4>3 DEF OverLocally, v
        <5>3. TokensIn(v) \in Int
          BY <3>4, <4>1, <4>3
        <5> QED BY <1>2, <2>3, <4>1, <4>3, <5>1, <5>2, <5>3
      <4> QED BY <4>2, <4>3 DEF Dimensions
    <3> HIDE DEF F, G, I, J, S, U
    <3>6. SumOf(F, U) <= SumOf(G, S) /\ SumOf(F, U) \in Int
      <4>1. \A q \in S : q \in Requests \ {r}
        BY <3>3 DEF S
      <4>2. U \in SUBSET S /\ (\A q \in S : G[q] \in Nat) /\ (\A q \in U : F[q] \in Int /\ F[q] <= G[q])
        <5>1. \A q \in U : F[q] = G[q] /\ G[q] \in Nat
          BY <2>4, <2>5, <3>2, <4>1
        <5> QED BY <2>4, <3>2, <4>1, <5>1
      <4> QED BY <3>3, <4>2, SumGrows
    <3>7. SumOf(F, J) = F[r] + SumOf(F, U) /\ F[r] \in Nat
      <4>1. r \notin U /\ J = U \cup {r} /\ F[r] \in Nat
        BY <2>4, <2>7 DEF U
      <4>2. \A q \in U \cup {r} : F[q] \in Int
        BY <2>2, <2>4, <4>1
      <4>3. SumOf(F, U \cup {r}) = F[r] + SumOf(F, U)
        BY <3>3, <4>1, <4>2, SumAdd
      <4> QED BY <4>1, <4>3
    <3>8. SumOf(F, J) <= key[d]
      BY <2>3, <3>4, <3>5, <3>6, <3>7
    <3> QED BY <3>8 DEF F, J
  <2> QED BY <2>6, <2>7
<1>12. Fitting'
  BY <1>11 DEF Fitting
<1> QED BY <1>8, <1>12

\* A step of r changes no verdict of the others: it leaves the windows alone, there are no
\* counters, r makes the round trips of its process, or it only prunes.
LEMMA VerdictOthers ==
  ASSUME Typed, Life, Verdicts, NEW r \in Requests, Only(r), VerdictOf(r)',
         \/ local' = local
         \/ ~key.redis
         \/ sharedMu[home[r]] \in {r, NoRequest} /\ \E w : local' = [local EXCEPT ![home[r]] = w]
         \/ \E t \in 0..now : local' = [local EXCEPT ![home[r]] = Pruned(r, t)]
  PROVE  Verdicts'
<1>1. ASSUME NEW q \in Requests \ {r} PROVE VerdictOf(q)'
  <2>1. VerdictOf(q) /\ LifeOf(q)
    BY DEF Verdicts, Life
  <2>2. /\ pc'[q] = pc[q] /\ call'[q] = call[q] /\ home' = home /\ key' = key
        /\ sharedMu[home[q]] = q => sharedMu'[home[q]] = q
    BY DEF Only
  <2>3. ASSUME pc[q] \in {"tpm", "record"}, key.rpm # NoLimit, "rpm" \notin call[q].counted
        PROVE  Len(Window(q)') <= Len(Window(q)) /\ Len(Window(q)') \in Nat
    <3>1. sharedMu[home[q]] = q /\ key.redis
      BY <2>1, <2>3 DEF VerdictOf, LifeOf
    <3>2. home[q] \in Gateways /\ local[home[q]] \in Seq(Entry) /\ call[q].at \in Nat /\ now \in Nat
          /\ \A e \in Entry : e.at \in Int
      BY LocalTypes
    <3>3. Window(q) \in Seq(Entry) /\ Len(Window(q)) \in Nat
      BY WindowTypes, LenProperties DEF Typed
    <3>4. local \in [Gateways -> Seq(Entry)] /\ home[r] \in Gateways /\ q # NoRequest
      BY DEF Typed, AdmissionTypeOK, RequestsTypeOK, Entry
    <3>5. Window(q)' = Prune(local'[home[q]], call[q].at) /\ Window(q) = Prune(local[home[q]], call[q].at)
      BY <2>2 DEF Window
    <3>6. CASE local'[home[q]] = local[home[q]]
      BY <3>3, <3>5, <3>6
    <3>7. ASSUME local'[home[q]] # local[home[q]]
          PROVE  \E t \in 0..now : local'[home[q]] = Prune(local[home[q]], t)
      <4>1. CASE sharedMu[home[r]] \in {r, NoRequest} /\ \E w : local' = [local EXCEPT ![home[r]] = w]
        <5>1. home[q] # home[r]
          BY <3>1, <3>4, <4>1
        <5>2. local'[home[q]] = local[home[q]]
          BY <3>2, <3>4, <4>1, <5>1
        <5> QED BY <3>7, <5>2
      <4>2. CASE \E t \in 0..now : local' = [local EXCEPT ![home[r]] = Pruned(r, t)]
        <5>1. PICK t \in 0..now : local' = [local EXCEPT ![home[r]] = Pruned(r, t)]
          BY <4>2
        <5>2. home[q] = home[r] /\ local'[home[q]] = Pruned(r, t)
          BY <3>2, <3>4, <3>7, <5>1
        <5> QED BY <5>2 DEF Pruned
      <4> QED BY <3>1, <3>7, <4>1, <4>2
    <3>8. CASE local'[home[q]] # local[home[q]]
      <4>1. PICK t \in 0..now : local'[home[q]] = Prune(local[home[q]], t)
        BY <3>7, <3>8
      <4>2. t \in Int /\ call[q].at \in Int
        BY <3>2
      <4>3. Len(Prune(Prune(local[home[q]], t), call[q].at)) <= Len(Prune(local[home[q]], call[q].at))
        BY <3>2, <4>2, PruneTwice
      <4>4. Prune(local[home[q]], t) \in Seq(Entry)
        BY <3>2, PruneType
      <4>5. Prune(Prune(local[home[q]], t), call[q].at) \in Seq(Entry)
        BY <4>4, PruneType
      <4> QED BY <3>5, <4>1, <4>3, <4>5, LenProperties
    <3> QED BY <3>6, <3>8
  <2>4. ASSUME pc[q] \in {"tpm", "record"}, key.rpm # NoLimit, "rpm" \notin call[q].counted
        PROVE  Len(Window(q)') < key.rpm
    <3>1. Len(Window(q)) < key.rpm /\ Len(Window(q)') <= Len(Window(q)) /\ Len(Window(q)') \in Nat
      BY <2>1, <2>3, <2>4 DEF VerdictOf
    <3>2. Len(Window(q)) \in Nat /\ key.rpm \in Nat
      <4>1. Window(q) \in Seq(Entry)
        BY WindowTypes DEF Typed
      <4>2. Len(Window(q)) \in Nat
        BY <4>1, LenProperties
      <4>3. key.rpm \in Nat
        BY LocalTypes DEF Dimensions
      <4> QED BY <4>2, <4>3
    <3> QED BY <3>1, <3>2
  <2> QED BY <2>1, <2>2, <2>4 DEF VerdictOf
<1> QED BY <1>1 DEF Verdicts

\* The rest of a step of r: what it leaves of clocks, and the verdict it takes along.
LEMMA PastStep ==
  ASSUME Typed, Past, UNCHANGED now,
         \A q \in Requests : call'[q].at <= now /\ (passed'[q].prompt => passed'[q].at <= now)
  PROVE  Past'
  BY DEF Past

LEMMA ArriveLocal ==
  ASSUME Shared, Local, NEW r \in Requests, NEW n \in Estimates, Arrive(r, n)
  PROVE  Local'
<1>1. Typed /\ Life /\ LifeOf(r) /\ Placed /\ Past /\ Verdicts /\ Fitting /\ now \in Nat
  BY LocalTypes DEF Shared, Life, Local
<1> DEFINE c == [at |-> now, tokens |-> IF key.tpm = NoLimit THEN 0 ELSE n, counted |-> {}]
<1>2. /\ pc[r] = "admit" /\ (key.rpm # NoLimit \/ key.tpm # NoLimit)
      /\ UNCHANGED <<key, now, home, faults, sharedMu, counter, undone, joined, passed>>
      /\ call' = [call EXCEPT ![r] = c]
      /\ local' = IF key.redis THEN [local EXCEPT ![home[r]] = Pruned(r, now)] ELSE local
      /\ Goto(r, IF ~key.redis THEN "decide" ELSE IF key.rpm # NoLimit THEN "rpm" ELSE "tpm")
  BY DEF Arrive, ReadClock, Pruned
<1>3. c.at = now
  OBVIOUS
<1> HIDE DEF c
<1>4. /\ call'[r] = c /\ pc'[r] = IF ~key.redis THEN "decide" ELSE IF key.rpm # NoLimit THEN "rpm" ELSE "tpm"
      /\ \A q \in Requests \ {r} : pc'[q] = pc[q] /\ call'[q] = call[q]
  BY <1>1, <1>2 DEF Goto, Typed, RequestsTypeOK, AdmissionTypeOK
<1>5. Only(r)
  BY <1>1, <1>2, <1>4 DEF Only, Typed, RequestsTypeOK
<1>6. Slides(r) /\ now \in 0..now
  BY <1>1, <1>2 DEF Slides
<1>7. VerdictOf(r)'
  BY <1>2, <1>4 DEF VerdictOf
<1>8. Verdicts'
  BY <1>1, <1>2, <1>5, <1>6, <1>7, VerdictOthers
<1>9. Placed' /\ Fitting'
  BY <1>1, <1>2, <1>6, QuietFits
<1>10. Past'
  <2>1. \A q \in Requests : call'[q].at <= now /\ (passed'[q].prompt => passed'[q].at <= now)
    BY <1>1, <1>2, <1>3, <1>4 DEF Past
  <2> QED BY <1>1, <1>2, <2>1, PastStep
<1> QED BY <1>8, <1>9, <1>10 DEF Local

\* A request that leaves Allow without passing, or moves on in it, without touching a window.
LEMMA AsideLocal ==
  ASSUME Shared, Local, NEW r \in Requests, Only(r), UNCHANGED <<key, now, home, local, passed>>, VerdictOf(r)',
         call'[r].at <= now
  PROVE  Local'
<1>1. Typed /\ Life /\ Placed /\ Past /\ Verdicts /\ Fitting
  BY DEF Shared, Local
<1>2. Slides(r)
  BY DEF Slides
<1>3. Verdicts'
  BY <1>1, VerdictOthers
<1>4. Placed' /\ Fitting'
  BY <1>1, <1>2, QuietFits
<1>5. \A q \in Requests : call'[q].at <= now /\ (passed'[q].prompt => passed'[q].at <= now)
  BY <1>1 DEF Past, Only
<1>6. Past'
  BY <1>1, <1>5, PastStep
<1> QED BY <1>3, <1>4, <1>6 DEF Local

\* A verdict prunes the window as of the time its request read, and may add its entry.
LEMMA VerdictFits ==
  ASSUME Typed, Local, NEW r \in Requests, UNCHANGED <<key, now, home>>, NEW ok \in BOOLEAN,
         IF ok THEN Record(r) ELSE local' = [local EXCEPT ![home[r]] = Window(r)] /\ UNCHANGED passed,
         \A d \in Dimensions : ok /\ key[d] # NoLimit /\ d \notin call[r].counted => ~OverLocally(r, d)
  PROVE  /\ Placed' /\ Fitting' /\ \A q \in Requests \ {r} : passed'[q] = passed[q]
         /\ \A q \in Requests : passed'[q].prompt => passed'[q].at <= now
         /\ \E w : local' = [local EXCEPT ![home[r]] = w]
<1>1. /\ now \in Nat /\ call[r].at \in 0..now /\ Window(r) = Pruned(r, call[r].at) /\ Placed /\ Past /\ Fitting
      /\ [at |-> call[r].at, tokens |-> call[r].tokens] \in Entry
  <2>1. call[r].at \in 0..now /\ now \in Nat
    BY LocalTypes DEF Local, Past
  <2>2. [at |-> call[r].at, tokens |-> call[r].tokens] \in Entry
    BY DEF Typed, AdmissionTypeOK, Entry
  <2> QED BY <2>1, <2>2 DEF Window, Pruned, Local
<1>2. CASE ~ok
  <2>1. Slides(r) /\ passed' = passed /\ \E w : local' = [local EXCEPT ![home[r]] = w]
    BY <1>1, <1>2 DEF Slides
  <2> QED BY <1>1, <2>1, QuietFits DEF Past
<1>3. CASE ok
  <2> DEFINE e == [at |-> call[r].at, tokens |-> call[r].tokens]
             prompt == call[r].at = now /\ call[r].counted # Dimensions
             p == [done |-> TRUE, shared |-> call[r].counted, tokens |-> call[r].tokens,
                   prompt |-> prompt, at |-> IF prompt THEN now ELSE 0]
  <2>1. Record(r) /\ local' = [local EXCEPT ![home[r]] = Append(Pruned(r, call[r].at), e)]
        /\ passed' = [passed EXCEPT ![r] = p]
    BY <1>1, <1>3 DEF Record, Reserved
  <2>2. p.prompt = prompt /\ p.at <= now
    BY <1>1
  <2> HIDE DEF e, p
  <2>3. passed'[r] = p /\ \A q \in Requests \ {r} : passed'[q] = passed[q]
    BY <2>1 DEF Typed, AdmissionTypeOK
  <2>4. Slides(r)
    BY <1>1, <2>1 DEF Slides, e
  <2>5. \A q \in Requests : passed'[q].prompt => passed'[q].at <= now
    BY <1>1, <2>2, <2>3 DEF Past
  <2>6. Placed' /\ Fitting'
    <3>1. CASE prompt
      BY <1>3, <2>1, <3>1, AdmitFits
    <3>2. CASE ~prompt
      <4>1. \A q \in Requests : passed'[q].prompt => passed'[q] = passed[q]
        BY <2>2, <2>3, <3>2
      <4> QED BY <2>4, <4>1, QuietFits
    <3> QED BY <3>1, <3>2
  <2> QED BY <2>1, <2>3, <2>5, <2>6
<1> QED BY <1>2, <1>3

LEMMA DecideLocal ==
  ASSUME Shared, Local, NEW r \in Requests, NEW ok \in BOOLEAN, Decide(r, ok)
  PROVE  Local'
<1>1. Typed /\ Life /\ LifeOf(r) /\ VerdictOf(r) /\ Past /\ Verdicts /\ now \in Nat
  BY LocalTypes DEF Shared, Life, Local, Verdicts
<1>2. /\ pc[r] = "decide" /\ UNCHANGED <<key, now, home, faults, sharedMu, counter, undone, joined>>
      /\ call' = [call EXCEPT ![r] = NoCall]
      /\ \E l \in {"consume", "done", "ended"} : Goto(r, l)
      /\ ok = (\A d \in Dimensions : ~OverLocally(r, d))
      /\ IF ok THEN Record(r) ELSE local' = [local EXCEPT ![home[r]] = Window(r)] /\ UNCHANGED passed
  BY DEF Decide, DecideLocally, Return, LeaveUnless, Leave
<1>3. /\ Placed' /\ Fitting' /\ \A q \in Requests \ {r} : passed'[q] = passed[q]
      /\ \A q \in Requests : passed'[q].prompt => passed'[q].at <= now
  <2>1. \A d \in Dimensions : ok /\ key[d] # NoLimit /\ d \notin call[r].counted => ~OverLocally(r, d)
    BY <1>2
  <2> QED BY <1>1, <1>2, <2>1, VerdictFits
<1>4. /\ pc'[r] \in {"consume", "done", "ended"} /\ call'[r] = NoCall
      /\ \A q \in Requests \ {r} : pc'[q] = pc[q] /\ call'[q] = call[q]
  BY <1>1, <1>2 DEF Goto, Typed, RequestsTypeOK, AdmissionTypeOK
<1>5. Only(r)
  BY <1>1, <1>2, <1>3, <1>4 DEF Only, Typed, RequestsTypeOK
<1>6. VerdictOf(r)' /\ ~key.redis
  BY <1>1, <1>2, <1>4 DEF VerdictOf
<1>7. Verdicts'
  BY <1>1, <1>5, <1>6, VerdictOthers
<1>8. Past'
  <2>1. \A q \in Requests : call'[q].at <= now
    BY <1>1, <1>4 DEF Past, NoCall
  <2> QED BY <1>1, <1>2, <1>3, <2>1, PastStep
<1> QED BY <1>3, <1>7, <1>8 DEF Local

LEMMA RecordLocal ==
  ASSUME Shared, Local, NEW r \in Requests, NEW ok \in BOOLEAN, RecordAdmission(r, ok)
  PROVE  Local'
<1>1. Typed /\ Life /\ LifeOf(r) /\ VerdictOf(r) /\ Past /\ Verdicts /\ now \in Nat
  BY LocalTypes DEF Shared, Life, Local, Verdicts
<1>2. /\ pc[r] = "record" /\ UNCHANGED <<key, now, home, faults, counter, undone, joined>>
      /\ call' = [call EXCEPT ![r] = NoCall]
      /\ \E l \in {"consume", "done", "ended"} : Goto(r, l)
      /\ sharedMu' = [sharedMu EXCEPT ![home[r]] = NoRequest]
      /\ ok = ("tpm" \in call[r].counted \/ ~OverLocally(r, "tpm"))
      /\ IF ok THEN Record(r) ELSE local' = [local EXCEPT ![home[r]] = Window(r)] /\ UNCHANGED passed
  BY DEF RecordAdmission, RecordShared, Return, LeaveUnless, Leave
<1>3. sharedMu[home[r]] = r
  BY <1>1, <1>2 DEF LifeOf
<1>4. ASSUME NEW d \in Dimensions, ok, key[d] # NoLimit, d \notin call[r].counted PROVE ~OverLocally(r, d)
  <2>1. CASE d = "tpm"
    BY <1>2, <1>4, <2>1
  <2>2. CASE d = "rpm"
    <3>1. Len(Window(r)) < key.rpm
      BY <1>1, <1>2, <1>4, <2>2 DEF VerdictOf
    <3>2. Len(Window(r)) \in Nat /\ key.rpm \in Nat
      <4>1. Window(r) \in Seq(Entry)
        BY <1>1, WindowTypes DEF Typed
      <4> QED BY <1>1, <2>2, <4>1, LenProperties, LocalTypes
    <3> QED BY <2>2, <3>1, <3>2 DEF OverLocally
  <2> QED BY <2>1, <2>2 DEF Dimensions
<1>5. /\ Placed' /\ Fitting' /\ \A q \in Requests \ {r} : passed'[q] = passed[q]
      /\ \A q \in Requests : passed'[q].prompt => passed'[q].at <= now
      /\ \E w : local' = [local EXCEPT ![home[r]] = w]
  BY <1>1, <1>2, <1>4, VerdictFits
<1>6. /\ pc'[r] \in {"consume", "done", "ended"} /\ call'[r] = NoCall
      /\ \A q \in Requests \ {r} : pc'[q] = pc[q] /\ call'[q] = call[q]
      /\ \A q \in Requests \ {r} : sharedMu[home[q]] = q => sharedMu'[home[q]] = q
  BY <1>1, <1>2, <1>3 DEF Goto, Typed, RequestsTypeOK, AdmissionTypeOK
<1>7. Only(r)
  BY <1>1, <1>2, <1>5, <1>6 DEF Only, Typed, RequestsTypeOK
<1>8. VerdictOf(r)'
  BY <1>6 DEF VerdictOf
<1>9. Verdicts'
  BY <1>1, <1>3, <1>5, <1>7, <1>8, VerdictOthers
<1>10. Past'
  <2>1. \A q \in Requests : call'[q].at <= now
    BY <1>1, <1>6 DEF Past, NoCall
  <2> QED BY <1>1, <1>2, <1>5, <2>1, PastStep
<1> QED BY <1>5, <1>9, <1>10 DEF Local

\* An increment, and what follows from its answer.
LEMMA CountLocal ==
  ASSUME Shared, Local, NEW r \in Requests, NEW over \in BOOLEAN, NEW miss \in BOOLEAN,
         IncrementRpm(r, over, miss) \/ IncrementTpm(r, over, miss)
  PROVE  Local'
<1>1. Typed /\ LifeOf(r) /\ VerdictOf(r) /\ Past
  BY DEF Shared, Life, Local, Verdicts
<1> DEFINE d == IF IncrementRpm(r, over, miss) THEN "rpm" ELSE "tpm"
           l == IF over THEN IF d = "rpm" THEN "undoRpm" ELSE "undoTpm"
                ELSE IF d = "rpm" THEN AfterRpm ELSE "record"
<1>2. /\ d \in Dimensions /\ pc[r] = d /\ Count(r, d, over, miss) /\ UNCHANGED <<key, now, home>>
      /\ Fault \/ UNCHANGED faults
      /\ Goto(r, l)
  BY DEF IncrementRpm, IncrementTpm, Dimensions
<1>3. l \in {"tpm", "record", "undoRpm", "undoTpm"} /\ (l = "tpm" => d = "rpm" /\ ~over)
      /\ (l = "record" => ~over /\ (d = "rpm" \/ d = "tpm"))
  BY DEF AfterRpm
<1> HIDE DEF d, l
<1>4. CountMoves(r, d, over) /\ local' = local
  <2>1. CountMoves(r, d, over)
    BY <1>1, <1>2, CountLocals
  <2>2. local' = local
    BY <1>2 DEF Count
  <2> QED BY <2>1, <2>2
<1>5. Only(r) /\ pc'[r] = l
  <2>1. /\ \A q \in Requests \ {r}, x \in Dimensions : q \in joined'[x] => q \in joined[x]
        /\ sharedMu[home[r]] \in {r, NoRequest} /\ \E m : sharedMu' = [sharedMu EXCEPT ![home[r]] = m]
        /\ \E v : call' = [call EXCEPT ![r] = v]
    BY <1>1, <1>2, <1>4 DEF CountMoves, Typed, AdmissionTypeOK
  <2>2. passed' = passed
    BY <1>4 DEF CountMoves
  <2> QED BY <1>1, <1>2, <2>1, <2>2, OnlyWindow
<1>6. call'[r].at = call[r].at
  <2> DEFINE s == IF over THEN call[r].counted ELSE call[r].counted \cup {d}
             Call == [at : 0..MaxTime[key], tokens : Nat, counted : SUBSET Dimensions]
  <2>1. call' = [call EXCEPT ![r] = [call[r] EXCEPT !.counted = s]]
    BY <1>2 DEF Count
  <2>2. call \in [Requests -> Call] /\ call[r] \in Call
    BY <1>1 DEF Typed, AdmissionTypeOK
  <2> HIDE DEF s
  <2>3. call'[r] = [call[r] EXCEPT !.counted = s]
    BY <2>1, <2>2
  <2> QED BY <2>2, <2>3
<1>7. VerdictOf(r)'
  <2>1. key.redis /\ sharedMu'[home[r]] = r /\ Window(r)' = Window(r)
    BY <1>1, <1>2, <1>4, <1>6 DEF VerdictOf, Dimensions, CountMoves, Window
  <2>2. call'[r].counted = IF over THEN call[r].counted ELSE call[r].counted \cup {d}
    BY <1>4 DEF CountMoves
  <2>3. CASE d = "rpm"
    BY <1>2, <1>3, <1>5, <2>1, <2>2, <2>3 DEF VerdictOf
  <2>4. CASE d = "tpm"
    BY <1>1, <1>2, <1>3, <1>5, <2>1, <2>2, <2>4 DEF VerdictOf
  <2> QED BY <1>2, <2>3, <2>4 DEF Dimensions
<1>8. call'[r].at <= now /\ passed' = passed
  BY <1>1, <1>4, <1>6 DEF Past, CountMoves
<1> QED BY <1>2, <1>4, <1>5, <1>7, <1>8, AsideLocal

LEMMA UndoLocal ==
  ASSUME Shared, Local, NEW r \in Requests, NEW faulty \in BOOLEAN, UndoTpm(r, faulty) \/ UndoRpm(r, faulty)
  PROVE  Local'
<1>1. Typed /\ LifeOf(r) /\ VerdictOf(r) /\ Past /\ now \in Nat
  BY LocalTypes DEF Shared, Life, Local, Verdicts
<1> DEFINE d == IF UndoTpm(r, faulty) THEN "tpm" ELSE "rpm"
           last == d = "rpm" \/ "rpm" \notin call[r].counted
           l == IF ~last THEN "undoRpm" ELSE IF HasQuota THEN "done" ELSE "ended"
<1>2. /\ d \in Dimensions /\ pc[r] \in {"undoTpm", "undoRpm"} /\ RollBackCount(r, d, last, faulty)
      /\ UNCHANGED <<key, now, home>> /\ last \in BOOLEAN /\ (Fault \/ UNCHANGED faults) /\ Goto(r, l)
  BY DEF UndoTpm, UndoRpm, LeaveUnless, Leave, Dimensions
<1>3. l \in {"undoRpm", "done", "ended"}
  OBVIOUS
<1> HIDE DEF d, last, l
<1>4. UndoMoves(r, d, last, faulty) /\ local' = local /\ (call' = call \/ call' = [call EXCEPT ![r] = NoCall])
  <2>1. UndoMoves(r, d, last, faulty)
    BY <1>1, <1>2, UndoLocals
  <2>2. local' = local /\ (call' = call \/ call' = [call EXCEPT ![r] = NoCall])
    BY <1>2 DEF RollBackCount, Return
  <2> QED BY <2>1, <2>2
<1>5. Only(r) /\ pc'[r] = l
  <2>1. sharedMu[home[r]] \in {r, NoRequest} /\ \E m : sharedMu' = [sharedMu EXCEPT ![home[r]] = m]
    BY <1>1, <1>2, <1>4 DEF UndoMoves, LifeOf
  <2> QED BY <1>1, <1>2, <1>4, <2>1, OnlyWindow DEF UndoMoves
<1>6. VerdictOf(r)'
  BY <1>1, <1>2, <1>3, <1>5 DEF VerdictOf
<1>7. call'[r].at <= now /\ passed' = passed
  BY <1>1, <1>4 DEF Past, UndoMoves, NoCall, Typed, AdmissionTypeOK
<1> QED BY <1>2, <1>4, <1>5, <1>6, <1>7, AsideLocal

\* A counter that fails open leaves the verdict to the pruned local window.
LEMMA RpmFailsOpenLocal ==
  ASSUME Shared, Local, NEW r \in Requests, RpmFailsOpen(r)
  PROVE  Local'
<1>1. Typed /\ Life /\ LifeOf(r) /\ VerdictOf(r) /\ Placed /\ Past /\ Verdicts /\ Fitting /\ now \in Nat
  BY LocalTypes DEF Shared, Life, Local, Verdicts
<1> DEFINE over == OverLocally(r, "rpm")
           l == IF ~over THEN AfterRpm ELSE IF HasQuota THEN "done" ELSE "ended"
<1>2. /\ pc[r] = "rpm" /\ FailOpen(r, "rpm") /\ UNCHANGED <<key, now, home>> /\ Fault /\ Goto(r, l)
  BY DEF RpmFailsOpen, LeaveUnless, Leave
<1>3. /\ sharedMu[home[r]] \in {r, NoRequest} /\ sharedMu' = [sharedMu EXCEPT ![home[r]] = IF over THEN NoRequest ELSE r]
      /\ passed' = passed
      /\ call' = call \/ (over /\ call' = [call EXCEPT ![r] = NoCall])
      /\ joined' = joined \/ joined' = [joined EXCEPT !["rpm"] = joined["rpm"] \cup {r}]
      /\ local' = [local EXCEPT ![home[r]] = Pruned(r, call[r].at)]
  BY <1>2 DEF FailOpen, Joins, Return, Window, Pruned
<1>4. over <=> key.rpm # NoLimit /\ Len(Window(r)) >= key.rpm
  BY DEF OverLocally
<1>5. l \in {"tpm", "record", "done", "ended"} /\ (l \in {"tpm", "record"} => ~over)
  BY DEF AfterRpm
<1> HIDE DEF over, l
<1>6. Only(r) /\ pc'[r] = l
  <2>1. \A q \in Requests \ {r}, d \in Dimensions : q \in joined'[d] => q \in joined[d]
    <3>1. joined \in [Dimensions -> SUBSET Requests]
      BY <1>1 DEF Typed, AdmissionTypeOK
    <3>2. CASE joined' = joined
      BY <3>2
    <3>3. CASE joined' = [joined EXCEPT !["rpm"] = joined["rpm"] \cup {r}]
      BY <3>1, <3>3
    <3> QED BY <1>3, <3>2, <3>3
  <2>2. (\E m : sharedMu' = [sharedMu EXCEPT ![home[r]] = m]) /\ (call' = call \/ \E v : call' = [call EXCEPT ![r] = v])
    BY <1>3
  <2> QED BY <1>1, <1>2, <1>3, <2>1, <2>2, OnlyWindow
<1>7. call[r].at \in 0..now
  BY <1>1, LocalTypes DEF Past
<1>8. Slides(r)
  BY <1>3, <1>7 DEF Slides
<1>9. VerdictOf(r)'
  <2>1. CASE l \in {"done", "ended"}
    BY <1>6, <2>1 DEF VerdictOf
  <2>2. CASE l \in {"tpm", "record"}
    <3>1. ~over /\ call' = call /\ sharedMu'[home[r]] = r /\ key.redis
      BY <1>1, <1>2, <1>3, <1>5, <2>2 DEF Typed, RequestsTypeOK, AdmissionTypeOK, VerdictOf
    <3>2. key.rpm # NoLimit => Len(Window(r)') < key.rpm
      <4>1. home[r] \in Gateways /\ local[home[r]] \in Seq(Entry) /\ call[r].at \in Int /\ \A e \in Entry : e.at \in Int
        BY <1>1, LocalTypes
      <4>2. local'[home[r]] = Prune(local[home[r]], call[r].at)
        BY <1>1, <1>3, <4>1 DEF Pruned, Typed, AdmissionTypeOK
      <4>3. Window(r)' = Prune(Prune(local[home[r]], call[r].at), call[r].at) /\ Window(r) = Prune(local[home[r]], call[r].at)
        BY <1>2, <3>1, <4>2 DEF Window
      <4>4. Len(Window(r)') <= Len(Window(r))
        BY <4>1, <4>3, PruneTwice
      <4>5. Window(r) \in Seq(Entry) /\ Window(r)' \in Seq(Entry)
        <5>1. Prune(local[home[r]], call[r].at) \in Seq(Entry)
          BY <4>1, PruneType
        <5>2. Prune(Prune(local[home[r]], call[r].at), call[r].at) \in Seq(Entry)
          BY <4>1, <5>1, PruneType
        <5> QED BY <4>3, <5>1, <5>2
      <4>6. Len(Window(r)) \in Nat /\ Len(Window(r)') \in Nat
        BY <4>5, LenProperties
      <4>7. key.rpm \in Nat
        BY <1>1, LocalTypes DEF Dimensions
      <4> QED BY <1>4, <3>1, <4>4, <4>6, <4>7
    <3> QED BY <1>2, <1>6, <2>2, <3>1, <3>2 DEF VerdictOf
  <2> QED BY <1>5, <2>1, <2>2
<1>10. Verdicts'
  BY <1>1, <1>3, <1>6, <1>7, <1>9, VerdictOthers
<1>11. Placed' /\ Fitting'
  BY <1>1, <1>2, <1>3, <1>8, QuietFits
<1>12. Past'
  <2>1. \A q \in Requests : call'[q].at <= now /\ (passed'[q].prompt => passed'[q].at <= now)
    <3>1. call'[r] = call[r] \/ call'[r] = NoCall
      BY <1>1, <1>3 DEF Typed, AdmissionTypeOK
    <3> QED BY <1>1, <1>3, <1>6, <3>1 DEF Past, Only, NoCall
  <2> QED BY <1>1, <1>2, <2>1, PastStep
<1> QED BY <1>10, <1>11, <1>12 DEF Local

LEMMA TpmFailsOpenLocal ==
  ASSUME Shared, Local, NEW r \in Requests, TpmFailsOpen(r)
  PROVE  Local'
<1>1. Typed /\ LifeOf(r) /\ VerdictOf(r) /\ Past
  BY DEF Shared, Life, Local, Verdicts
<1>2. /\ pc[r] = "tpm" /\ FailOpen(r, "tpm") /\ UNCHANGED <<key, now, home>> /\ Fault /\ Goto(r, "record")
  BY DEF TpmFailsOpen
<1>3. /\ sharedMu[home[r]] \in {r, NoRequest} /\ sharedMu' = [sharedMu EXCEPT ![home[r]] = r]
      /\ passed' = passed /\ call' = call /\ local' = local
      /\ joined' = joined \/ joined' = [joined EXCEPT !["tpm"] = joined["tpm"] \cup {r}]
  BY <1>2 DEF FailOpen, Joins, Return
<1>4. Only(r) /\ pc'[r] = "record"
  <2>1. \A q \in Requests \ {r}, d \in Dimensions : q \in joined'[d] => q \in joined[d]
    <3>1. joined \in [Dimensions -> SUBSET Requests]
      BY <1>1 DEF Typed, AdmissionTypeOK
    <3>2. CASE joined' = joined
      BY <3>2
    <3>3. CASE joined' = [joined EXCEPT !["tpm"] = joined["tpm"] \cup {r}]
      BY <3>1, <3>3
    <3> QED BY <1>3, <3>2, <3>3
  <2>2. \E m : sharedMu' = [sharedMu EXCEPT ![home[r]] = m]
    BY <1>3
  <2> QED BY <1>1, <1>2, <1>3, <2>1, <2>2, OnlyWindow
<1>5. VerdictOf(r)'
  <2>1. Window(r)' = Window(r)
    BY <1>2, <1>3 DEF Window
  <2> QED BY <1>1, <1>2, <1>3, <1>4, <2>1 DEF VerdictOf
<1> QED BY <1>1, <1>2, <1>3, <1>4, <1>5, AsideLocal DEF Past

\* The steps of a request outside Allow.
LEMMA OutsideLocal ==
  ASSUME Shared, Local, NEW r \in Requests,
         \/ Authorize(r) \/ BeginReserve(r) \/ RefuseQuota(r) \/ ReserveFails(r)
         \/ \E n \in Estimates : Reserve(r, n) \/ ReserveUnacknowledged(r, n)
         \/ RefuseAddress(r) \/ Unlimited(r) \/ (\E b \in BOOLEAN : Disable(r, b))
         \/ Consume(r) \/ ConsumeFails(r) \/ (\E n \in Usages \cup {Unknown} : RecordUsage(r, n)) \/ RecordFails(r)
         \/ Finish(r) \/ Release(r) \/ ReleaseFails(r)
  PROVE  Local'
<1>1. Typed /\ Past
  BY DEF Shared, Local
<1> DEFINE Aside == /\ UNCHANGED <<key, now, home, admissionVars>> /\ faults <= faults'
                    /\ \E l \in Labels : Goto(r, l) /\ l \notin Within
<1>2. faults \in Nat /\ (Fault => faults <= faults') /\ (UNCHANGED faults => faults <= faults')
  BY <1>1 DEF Fault, Typed, RequestsTypeOK
<1>3. ASSUME Authorize(r) \/ BeginReserve(r) \/ RefuseQuota(r) \/ ReserveFails(r) PROVE Aside
  BY <1>2, <1>3 DEF Authorize, BeginReserve, RefuseQuota, ReserveFails, Goto, Labels, Within
<1>4. ASSUME NEW n \in Estimates, Reserve(r, n) \/ ReserveUnacknowledged(r, n) PROVE Aside
  BY <1>2, <1>4 DEF Reserve, ReserveUnacknowledged, Goto, Labels, Within
<1>5. ASSUME RefuseAddress(r) \/ Unlimited(r) \/ Finish(r) \/ Release(r) \/ ReleaseFails(r) PROVE Aside
  BY <1>2, <1>5 DEF RefuseAddress, Unlimited, Finish, Release, ReleaseFails, Leave, Goto, Labels, Within
<1>6. ASSUME NEW b \in BOOLEAN, Disable(r, b) PROVE Aside
  BY <1>2, <1>6 DEF Disable, Goto, Labels, Within
<1>7. ASSUME Consume(r) \/ ConsumeFails(r) \/ RecordFails(r) PROVE Aside
  BY <1>2, <1>7 DEF Consume, ConsumeFails, RecordFails, Leave, Goto, Labels, Within
<1>8. ASSUME NEW n \in Usages \cup {Unknown}, RecordUsage(r, n) PROVE Aside
  <2>1. Goto(r, "running") /\ UNCHANGED <<key, now, home, faults, admissionVars>>
    BY <1>1, <1>8 DEF RecordUsage, requestVars, Goto, Typed, RequestsTypeOK
  <2> QED BY <1>2, <2>1 DEF Labels, Within
<1>9. Aside
  BY <1>3, <1>4, <1>5, <1>6, <1>7, <1>8
<1>10. /\ UNCHANGED <<key, now, home, call, local, sharedMu, joined, passed>> /\ faults <= faults'
       /\ pc'[r] \notin Within /\ \A q \in Requests \ {r} : pc'[q] = pc[q]
  BY <1>1, <1>9 DEF admissionVars, Goto, Typed, RequestsTypeOK
<1>11. Only(r)
  BY <1>10 DEF Only
<1>12. VerdictOf(r)'
  BY <1>10 DEF VerdictOf, Within
<1> QED BY <1>1, <1>10, <1>11, <1>12, AsideLocal DEF Past

LEMMA NoneFits == ASSUME NEW P, NEW w PROVE FitsIn(P, {}, w)
<1> DEFINE f == [x \in {} |-> 1]
<1>1. f \in [{} -> 1..Len(w)]
  OBVIOUS
<1> HIDE DEF f
<1>2. Places(f, P, {}, w)
  BY <1>1 DEF Places
<1> QED BY <1>2 DEF FitsIn

\* A process that dies loses its window, and the verdicts it gave with it.
LEMMA CrashLocal ==
  ASSUME Shared, Local, NEW g \in Gateways, Crash(g)
  PROVE  Local'
<1>1. Typed /\ Placed /\ Past /\ Verdicts /\ Fitting /\ now \in Nat
  BY LocalTypes DEF Shared, Local
<1>2. /\ UNCHANGED <<key, home, now>>
      /\ pc' = [r \in Requests |-> IF home[r] = g /\ InProgress(r) THEN "crashed" ELSE pc[r]]
      /\ sharedMu' = [sharedMu EXCEPT ![g] = NoRequest]
      /\ local' = [local EXCEPT ![g] = <<>>]
      /\ call' = [r \in Requests |-> IF home[r] = g THEN NoCall ELSE call[r]]
      /\ passed' = [r \in Requests |-> IF home[r] = g THEN [passed[r] EXCEPT !.prompt = FALSE, !.at = 0] ELSE passed[r]]
  BY DEF Crash, Forget
<1>3. ASSUME NEW r \in Requests PROVE home[r] = g => ~passed'[r].prompt
  <2>1. passed[r] \in [done : BOOLEAN, shared : SUBSET Dimensions, tokens : Nat, prompt : BOOLEAN, at : 0..MaxTime[key]]
    BY <1>1 DEF Typed, AdmissionTypeOK
  <2>2. home[r] = g => passed'[r] = [passed[r] EXCEPT !.prompt = FALSE, !.at = 0]
    BY <1>2
  <2> QED BY <2>1, <2>2
<1>4. \A r \in Requests : home[r] # g => passed'[r] = passed[r] /\ call'[r] = call[r] /\ pc'[r] = pc[r]
  BY <1>2
<1>5. \A h \in Gateways : /\ h # g => local'[h] = local[h] /\ sharedMu'[h] = sharedMu[h]
                          /\ h = g => local'[h] = <<>>
  BY <1>1, <1>2 DEF Typed, AdmissionTypeOK
<1>6. \A r \in Requests : passed'[r].prompt => passed'[r] = passed[r]
  BY <1>3, <1>4
<1>7. Placed'
  <2>1. \A h \in Gateways : Fresh(h)' \subseteq Fresh(h)
    BY <1>2, <1>6 DEF Fresh
  <2>2. \A h \in Gateways, r \in Requests : r \in Fresh(h)' => passed'[r] = passed[r]
    BY <1>6 DEF Fresh
  <2>3. ASSUME NEW h \in Gateways PROVE FitsIn(passed, Fresh(h)', local'[h])
    <3>1. CASE h = g
      <4>1. Fresh(h)' = {}
        BY <1>2, <1>3, <3>1 DEF Fresh
      <4> QED BY <4>1, NoneFits
    <3>2. CASE h # g
      <4>1. FitsIn(passed, Fresh(h), local'[h])
        BY <1>1, <1>5, <3>2 DEF Placed
      <4> QED BY <2>1, <4>1, SubFits
    <3> QED BY <3>1, <3>2
  <2> QED BY <1>1, <2>1, <2>2, <2>3, PlacedLess
<1>8. Fitting'
  <2>1. ASSUME NEW h \in Gateways, NEW d \in Dimensions, NEW t \in 0..now'
        PROVE  \E s \in 0..now : InMinute(h, d, t)' \subseteq InMinute(h, d, s)
    <3>1. t \in 0..now /\ InMinute(h, d, t)' \subseteq InMinute(h, d, t)
      BY <1>2, <1>6 DEF InMinute
    <3> QED BY <3>1
  <2> QED BY <1>1, <1>2, <1>6, <2>1, FittingLess
<1>9. ASSUME NEW r \in Requests PROVE VerdictOf(r)'
  <2>1. VerdictOf(r)
    BY <1>1 DEF Verdicts
  <2>2. CASE home[r] = g
    <3>1. pc'[r] = "crashed" \/ (~InProgress(r) /\ pc'[r] = pc[r])
      BY <1>2, <2>2
    <3>2. pc'[r] \notin {"decide", "rpm", "tpm", "undoRpm", "undoTpm", "record"}
      BY <3>1 DEF InProgress, Over
    <3> QED BY <3>2 DEF VerdictOf
  <2>3. CASE home[r] # g
    <3>1. home[r] \in Gateways
      BY <1>1, LocalTypes
    <3>2. pc'[r] = pc[r] /\ call'[r] = call[r] /\ sharedMu'[home'[r]] = sharedMu[home[r]] /\ Window(r)' = Window(r)
      BY <1>2, <1>4, <1>5, <2>3, <3>1 DEF Window
    <3> QED BY <1>2, <2>1, <3>2 DEF VerdictOf
  <2> QED BY <2>2, <2>3
<1>10. Past'
  <2>1. ASSUME NEW r \in Requests PROVE call'[r].at <= now /\ (passed'[r].prompt => passed'[r].at <= now)
    <3>1. call'[r] = NoCall \/ call'[r] = call[r]
      BY <1>2
    <3>2. NoCall.at = 0
      BY DEF NoCall
    <3> QED BY <1>1, <1>6, <3>1, <3>2 DEF Past
  <2> QED BY <1>2, <2>1 DEF Past
<1> QED BY <1>7, <1>8, <1>9, <1>10 DEF Local, Verdicts

\* Steps that leave the windows alone; time may pass.
LEMMA IdleLocal ==
  ASSUME Shared, Local, UNCHANGED <<key, pc, home, call, local, sharedMu, passed>>, now' = now \/ now' = now + 1
  PROVE  Local'
<1>1. /\ Typed /\ Placed /\ Past /\ Verdicts /\ Fitting /\ now \in Nat
      /\ \A r \in Requests : call[r].at \in Nat /\ passed[r].at \in Nat
  BY LocalTypes DEF Shared, Local
<1>2. \A g \in Gateways : Fresh(g)' \subseteq Fresh(g)
  BY <1>1, AdmissionAssumption DEF Fresh
<1>3. Placed'
  <2>1. ASSUME NEW g \in Gateways PROVE FitsIn(passed, Fresh(g)', local'[g])
    <3>1. FitsIn(passed, Fresh(g), local'[g])
      BY <1>1 DEF Placed
    <3> QED BY <1>2, <3>1, SubFits
  <2> QED BY <1>1, <1>2, <2>1, PlacedLess
<1>4. ASSUME NEW g \in Gateways, NEW d \in Dimensions, NEW t \in 0..now'
      PROVE  \E s \in 0..now : InMinute(g, d, t)' \subseteq InMinute(g, d, s)
  <2>1. CASE t \in 0..now
    <3>1. InMinute(g, d, t)' \subseteq InMinute(g, d, t)
      BY DEF InMinute
    <3> QED BY <2>1, <3>1
  <2>2. CASE t \notin 0..now
    <3>1. t = now + 1 /\ now \in 0..now
      BY <1>1, <2>2
    <3>2. InMinute(g, d, t)' \subseteq InMinute(g, d, now)
      BY <1>1, <3>1, AdmissionAssumption DEF InMinute, Past
    <3> QED BY <3>1, <3>2
  <2> QED BY <2>1, <2>2
<1>5. Fitting'
  BY <1>1, <1>4, FittingLess
<1>6. \A r \in Requests : VerdictOf(r)' = VerdictOf(r)
  BY DEF VerdictOf, Window
<1>7. Past'
  BY <1>1 DEF Past
<1> QED BY <1>1, <1>3, <1>5, <1>6, <1>7 DEF Local, Verdicts

LEMMA LocalStep == Shared /\ Local /\ [Next]_vars => Local'
<1> SUFFICES ASSUME Shared, Local, [Next]_vars PROVE Local'
  OBVIOUS
<1>1. ASSUME NEW r \in Requests, RequestStep(r) PROVE Local'
  <2>1. ASSUME NEW n \in Estimates, Arrive(r, n) PROVE Local'
    BY <2>1, ArriveLocal
  <2>2. ASSUME RpmFailsOpen(r) \/ TpmFailsOpen(r) PROVE Local'
    BY <2>2, RpmFailsOpenLocal, TpmFailsOpenLocal
  <2>3. ASSUME NEW a \in BOOLEAN, NEW b \in BOOLEAN, IncrementRpm(r, a, b) \/ IncrementTpm(r, a, b) PROVE Local'
    BY <2>3, CountLocal
  <2>4. ASSUME NEW b \in BOOLEAN, Decide(r, b) \/ UndoTpm(r, b) \/ UndoRpm(r, b) \/ RecordAdmission(r, b) PROVE Local'
    BY <2>4, DecideLocal, UndoLocal, RecordLocal
  <2>5. ASSUME Authorize(r) \/ BeginReserve(r) \/ RefuseQuota(r) \/ ReserveFails(r) \/ RefuseAddress(r) \/ Unlimited(r)
        PROVE Local'
    BY <2>5, OutsideLocal
  <2>6. ASSUME NEW n \in Estimates, Reserve(r, n) \/ ReserveUnacknowledged(r, n) PROVE Local'
    BY <2>6, OutsideLocal
  <2>7. ASSUME NEW b \in BOOLEAN, Disable(r, b) PROVE Local'
    BY <2>7, OutsideLocal
  <2>8. ASSUME Consume(r) \/ ConsumeFails(r) \/ RecordFails(r) \/ Finish(r) \/ Release(r) \/ ReleaseFails(r) PROVE Local'
    BY <2>8, OutsideLocal
  <2>9. ASSUME NEW n \in Usages \cup {Unknown}, RecordUsage(r, n) PROVE Local'
    BY <2>9, OutsideLocal
  <2> QED BY <1>1, <2>1, <2>2, <2>3, <2>4, <2>5, <2>6, <2>7, <2>8, <2>9 DEF RequestStep
<1>2. ASSUME NEW g \in Gateways, Crash(g) PROVE Local'
  BY <1>2, CrashLocal
<1>3. ASSUME NEW d \in Dimensions, MinuteEnds(d) PROVE Local'
  BY <1>3, IdleLocal DEF MinuteEnds, Expire, requestVars
<1>4. ASSUME Tick \/ UNCHANGED vars PROVE Local'
  BY <1>4, IdleLocal DEF Tick, vars, requestVars, admissionVars
<1> QED BY <1>1, <1>2, <1>3, <1>4 DEF Next

LEMMA LocalInit == Init => Local
<1> SUFFICES ASSUME Init PROVE Local
  OBVIOUS
<1>1. Typed
  BY TypeInit DEF Typed
<1>2. /\ now \in Nat /\ \A d \in Dimensions : key[d] \in Nat
  BY <1>1, LocalTypes
<1>3. \A r \in Requests : pc[r] = "new" /\ ~passed[r].prompt /\ call[r].at = 0
  BY DEF Init, RequestsInit, AdmissionInit, NotPassed, NoCall
<1>4. Placed
  <2>1. ASSUME NEW g \in Gateways PROVE FitsIn(passed, Fresh(g), local[g])
    <3>1. Fresh(g) = {}
      BY <1>3 DEF Fresh
    <3> QED BY <3>1, NoneFits
  <2> QED BY <2>1 DEF Placed
<1>5. Past
  BY <1>2, <1>3 DEF Past
<1>6. Verdicts
  BY <1>3 DEF Verdicts, VerdictOf
<1>7. ASSUME NEW g \in Gateways, NEW d \in Dimensions, NEW t \in 0..now
      PROVE  SumOf(Load(passed, d), InMinute(g, d, t)) <= key[d]
  <2>1. InMinute(g, d, t) = {} /\ SumOf(Load(passed, d), {}) = 0
    BY <1>3, SumEmpty DEF InMinute
  <2> QED BY <1>2, <2>1
<1> QED BY <1>4, <1>5, <1>6, <1>7 DEF Local, Fitting

\* Within a process no sliding minute admits more requests or tokens than the limit on the
\* verdict of its own window ("exact under concurrency", key_admission.go 263-264), whatever
\* the counters answer and in whatever order requests that read the clock arrive at the
\* mutex: as long as its minute lasts, each such admission has an entry of its own in the
\* window, which no pruning as of an earlier time takes away.
THEOREM LocalHolds == Spec => []LocalWindowHolds
<1>1. Shared /\ Local => LocalWindowHolds
  <2> SUFFICES ASSUME Shared, Local, NEW g \in Gateways, NEW d \in Dimensions, NEW t \in 0..now, key[d] # NoLimit
               PROVE  MapThenSumSet(LAMBDA r : Weight(r, d), InMinute(g, d, t)) <= key[d]
    BY DEF LocalWindowHolds
  <2> DEFINE S == InMinute(g, d, t)
             F == [r \in S |-> Weight(r, d)]
  <2>1. SumOf(Load(passed, d), S) <= key[d]
    BY DEF Local, Fitting
  <2>2. S \in SUBSET Requests /\ IsFiniteSet(S)
    <3>1. S \in SUBSET Requests
      BY DEF InMinute
    <3> QED BY <3>1, FS_Subset
  <2>3. \A r \in S : F[r] = Load(passed, d)[r]
    BY <2>2 DEF Load, Weight
  <2> HIDE DEF F, S
  <2>4. SumOf(F, S) = SumOf(Load(passed, d), S)
    BY <2>2, <2>3, SumSame
  <2>5. MapThenSumSet(LAMBDA r : Weight(r, d), S) = SumOf(F, S)
    BY <2>2, PassedSum DEF F
  <2>6. MapThenSumSet(LAMBDA r : Weight(r, d), S) <= key[d]
    BY <2>1, <2>4, <2>5
  <2> QED BY <2>6 DEF S
<1> QED BY <1>1, SharedInit, SharedStep, LocalInit, LocalStep, PTL DEF Spec
=============================================================================
