---------------------------- MODULE DownstreamKey ----------------------------
(***************************************************************************)
(* A request under a downstream key, as auth/proxy.go admits it: the key   *)
(* is read, the quota reserved, the windows of requests and tokens passed, *)
(* the request consumed; then its attempts are recorded, and a deferred    *)
(* call releases what it did not settle.  Composes KeyQuota and            *)
(* KeyAdmission.                                                           *)
(***************************************************************************)
EXTENDS KeyQuota, KeyAdmission

VARIABLE used  \* used_requests of the key

vars == <<requestVars, quotaVars, admissionVars, used>>

-----------------------------------------------------------------------------
(* Admission *)

\* A request that reserved leaves through the deferred release.
Leave(r) == Goto(r, IF HasQuota THEN "done" ELSE "ended")
LeaveUnless(r, ok, l) == IF ok THEN Goto(r, l) ELSE Leave(r)

\* AuthorizeDownstreamToken reads the key: what it says may change before it is
\* acted upon.
Authorize(r) ==
  /\ pc[r] = "new" /\ Connected
  /\ Goto(r, IF ~enabled \/ (key.max # NoLimit /\ used >= key.max) THEN "ended"
             ELSE IF HasQuota THEN "read" ELSE "admit")
  /\ UNCHANGED <<key, now, home, faults, quotaVars, admissionVars, used>>

BeginReserve(r) ==
  /\ pc[r] = "read"
  /\ SumUsage(r)
  /\ Goto(r, "summing")
  /\ UNCHANGED <<key, now, home, faults, admissionVars, used>>

Reserve(r, n) ==
  /\ pc[r] = "summing"
  /\ InsertHold(r, n)
  /\ Goto(r, "admit")
  /\ UNCHANGED <<key, now, home, faults, admissionVars, used>>

\* The hold is committed, but not the answer: nobody will release it.
ReserveUnacknowledged(r, n) ==
  /\ pc[r] = "summing"
  /\ InsertHold(r, n)
  /\ Fault /\ Goto(r, "ended")
  /\ UNCHANGED <<key, now, home, admissionVars, used>>

RefuseQuota(r) ==
  /\ pc[r] = "summing" /\ ~Permits
  /\ RollBack(r)
  /\ Goto(r, "ended")
  /\ UNCHANGED <<key, now, home, faults, admissionVars, used>>

ReserveFails(r) ==
  /\ pc[r] = "summing"
  /\ RollBack(r)
  /\ Fault /\ Goto(r, "ended")
  /\ UNCHANGED <<key, now, home, admissionVars, used>>

\* The rules on addresses may refuse a request that holds a slot; one without
\* might as well not have come.
RefuseAddress(r) ==
  /\ pc[r] = "admit" /\ HasQuota
  /\ Leave(r)
  /\ UNCHANGED <<key, now, home, faults, quotaVars, admissionVars, used>>

Unlimited(r) ==
  /\ pc[r] = "admit" /\ key.rpm = NoLimit /\ key.tpm = NoLimit
  /\ Goto(r, "consume")
  /\ UNCHANGED <<key, now, home, faults, quotaVars, admissionVars, used>>

Arrive(r, n) ==
  /\ pc[r] = "admit" /\ (key.rpm # NoLimit \/ key.tpm # NoLimit)
  /\ ReadClock(r, n)
  /\ Goto(r, IF ~key.redis THEN "decide" ELSE IF key.rpm # NoLimit THEN "rpm" ELSE "tpm")
  /\ UNCHANGED <<key, now, home, faults, quotaVars, used>>

Decide(r, ok) ==
  /\ pc[r] = "decide"
  /\ DecideLocally(r, ok)
  /\ LeaveUnless(r, ok, "consume")
  /\ UNCHANGED <<key, now, home, faults, quotaVars, used>>

AfterRpm == IF key.tpm # NoLimit THEN "tpm" ELSE "record"
IncrementRpm(r, over, lost_) ==
  /\ pc[r] = "rpm"
  /\ Count(r, "rpm", over, lost_)
  /\ IF lost_ THEN Fault ELSE UNCHANGED faults
  /\ Goto(r, IF over THEN "undoRpm" ELSE AfterRpm)
  /\ UNCHANGED <<key, now, home, quotaVars, used>>

RpmFailsOpen(r) ==
  /\ pc[r] = "rpm"
  /\ FailOpen(r, "rpm")
  /\ Fault
  /\ LeaveUnless(r, ~OverLocally(r, "rpm"), AfterRpm)
  /\ UNCHANGED <<key, now, home, quotaVars, used>>

IncrementTpm(r, over, lost_) ==
  /\ pc[r] = "tpm"
  /\ Count(r, "tpm", over, lost_)
  /\ IF lost_ THEN Fault ELSE UNCHANGED faults
  /\ Goto(r, IF over THEN "undoTpm" ELSE "record")
  /\ UNCHANGED <<key, now, home, quotaVars, used>>

TpmFailsOpen(r) ==
  /\ pc[r] = "tpm"
  /\ FailOpen(r, "tpm")
  /\ Fault /\ Goto(r, "record")
  /\ UNCHANGED <<key, now, home, quotaVars, used>>

UndoTpm(r, faulty) ==
  /\ pc[r] = "undoTpm"
  /\ RollBackCount(r, "tpm", "rpm" \notin call[r].counted, faulty)
  /\ IF faulty THEN Fault ELSE UNCHANGED faults
  /\ LeaveUnless(r, "rpm" \in call[r].counted, "undoRpm")
  /\ UNCHANGED <<key, now, home, quotaVars, used>>

UndoRpm(r, faulty) ==
  /\ pc[r] = "undoRpm"
  /\ RollBackCount(r, "rpm", TRUE, faulty)
  /\ IF faulty THEN Fault ELSE UNCHANGED faults
  /\ Leave(r)
  /\ UNCHANGED <<key, now, home, quotaVars, used>>

\* A refusal by the local token window leaves a counted request where it is.
RecordAdmission(r, ok) ==
  /\ pc[r] = "record"
  /\ RecordShared(r, ok)
  /\ LeaveUnless(r, ok, "consume")
  /\ UNCHANGED <<key, now, home, faults, quotaVars, used>>

\* consumeManagedKeyRequest: one conditional UPDATE.
Consume_Bug(r) ==
  /\ pc[r] = "consume" /\ Connected
  /\ used' = used + 1 /\ Goto(r, "running")
  /\ UNCHANGED <<key, now, home, faults, quotaVars, admissionVars>>
Consume(r) ==
  /\ pc[r] = "consume" /\ Connected
  /\ IF key.max = NoLimit \/ used < key.max
     THEN used' = used + 1 /\ Goto(r, "running")
     ELSE UNCHANGED used /\ Leave(r)
  /\ UNCHANGED <<key, now, home, faults, quotaVars, admissionVars>>

\* An error refuses the request, whether or not it was counted.
ConsumeFails(r) ==
  /\ pc[r] = "consume" /\ Connected
  /\ used' = used \/ (used' = used + 1 /\ (key.max # NoLimit => used < key.max))
  /\ Fault /\ Leave(r)
  /\ UNCHANGED <<key, now, home, quotaVars, admissionVars>>

-----------------------------------------------------------------------------
(* The request runs *)

\* logProxy of a billable attempt.  Without a quota nobody reads the row.
RecordUsage(r, n) ==
  /\ pc[r] = "running" /\ HasQuota
  /\ InsertUsage(r, n)
  /\ UNCHANGED <<requestVars, admissionVars, used>>

RecordFails(r) ==
  /\ pc[r] = "running"
  /\ UsageLost(r)
  /\ Fault /\ Goto(r, "disabling")
  /\ UNCHANGED <<key, now, home, admissionVars, used>>

\* The key is disabled, or that fails too and its error is ignored.
Disable_Bug(r, ok) ==
  /\ pc[r] = "disabling"
  /\ DisableKey(FALSE)
  /\ IF ok THEN UNCHANGED faults ELSE Fault
  /\ Goto(r, "running")
  /\ UNCHANGED <<key, now, home, admissionVars, used>>
Disable(r, ok) ==
  /\ pc[r] = "disabling"
  /\ DisableKey(ok)
  /\ IF ok THEN UNCHANGED faults ELSE Fault
  /\ Goto(r, "running")
  /\ UNCHANGED <<key, now, home, admissionVars, used>>

Finish(r) ==
  /\ pc[r] = "running"
  /\ Leave(r)
  /\ UNCHANGED <<key, now, home, faults, quotaVars, admissionVars, used>>

Release(r) ==
  /\ pc[r] = "done"
  /\ DeleteHold(r)
  /\ Goto(r, "ended")
  /\ UNCHANGED <<key, now, home, faults, admissionVars, used>>

\* The hold stays for the sweep.
ReleaseFails(r) ==
  /\ pc[r] = "done" /\ holds[r].on
  /\ Fault /\ Goto(r, "ended")
  /\ UNCHANGED <<key, now, home, quotaVars, admissionVars, used>>

-----------------------------------------------------------------------------
Crash(g) ==
  /\ \E r \in Requests : home[r] = g /\ InProgress(r)
  /\ Fault
  /\ pc' = [r \in Requests |-> IF home[r] = g /\ InProgress(r) THEN "crashed" ELSE pc[r]]
  /\ IF locked # NoRequest /\ home[locked] = g THEN RollBack(locked) ELSE UNCHANGED quotaVars
  /\ Forget(g)
  /\ UNCHANGED <<key, now, home, used>>

Tick ==
  /\ now < MaxTime[key] /\ now' = now + 1
  /\ UNCHANGED <<key, pc, home, faults, quotaVars, admissionVars, used>>

MinuteEnds(d) == Expire(d) /\ UNCHANGED <<requestVars, quotaVars, used>>

Init == RequestsInit /\ QuotaInit /\ AdmissionInit /\ used = 0

RequestStep(r) ==
  \/ Authorize(r) \/ BeginReserve(r) \/ RefuseQuota(r) \/ ReserveFails(r)
  \/ \E n \in Estimates : Reserve(r, n) \/ ReserveUnacknowledged(r, n) \/ Arrive(r, n)
  \/ RefuseAddress(r) \/ Unlimited(r) \/ RpmFailsOpen(r) \/ TpmFailsOpen(r)
  \/ \E a, b \in BOOLEAN : IncrementRpm(r, a, b) \/ IncrementTpm(r, a, b)
  \/ \E b \in BOOLEAN : Decide(r, b) \/ UndoTpm(r, b) \/ UndoRpm(r, b) \/ RecordAdmission(r, b) \/ Disable(r, b)
  \/ Consume(r) \/ ConsumeFails(r) \/ (\E n \in Usages \cup {Unknown} : RecordUsage(r, n)) \/ RecordFails(r)
  \/ Finish(r) \/ Release(r) \/ ReleaseFails(r)

Next ==
  \/ \E r \in Requests : RequestStep(r)
  \/ \E g \in Gateways : Crash(g)
  \/ \E d \in Dimensions : MinuteEnds(d)
  \/ Tick

Spec == Init /\ [][Next]_vars

-----------------------------------------------------------------------------
(* Properties *)

\* Requests, quota, windows and the request count of the key are well formed, and
\* a key never has more requests consumed than its limit (downstream.go 344-373).
TypeOK ==
  /\ RequestsTypeOK /\ QuotaTypeOK /\ AdmissionTypeOK
  /\ used \in Nat /\ (key.max # NoLimit => used <= key.max)

\* After a usage row was lost no request is authorised any more, unless the
\* statement that disables the key failed as well ("losing a quota event must not
\* increase the available budget", downstream_quota.go 335-336).
LossClosesKey ==
  [][\A r \in Requests :
       pc[r] = "new" /\ pc'[r] \in {"read", "admit"} => faults > 1 \/ \A q \in lost : pc[q] = "disabling" \/ pc[q] = "crashed"]_vars
=============================================================================
