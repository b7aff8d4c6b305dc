------------------------------- MODULE KeyQuota -------------------------------
(***************************************************************************)
(* The quota window of a downstream key (auth/downstream_quota.go): usage  *)
(* rows of what completed and holds of what was admitted.  An admission    *)
(* sums both and inserts its hold in one transaction, a completed attempt  *)
(* replaces the hold by a usage row in another, and a hold that nobody     *)
(* settled is swept after its time to live.                                *)
(***************************************************************************)
EXTENDS KeyRequests

CONSTANTS
  Serial,     \* one connection (SQLite), or a row lock among admissions alone (Postgres)
  QuotaTTL,   \* quotaReservationTTL
  Estimates,  \* input estimates
  Usages,     \* tokens an attempt may report
  Unknown,    \* or none
  MaxRecords  \* bound on the attempts of a request that are recorded

ASSUME QuotaAssumption ==
  /\ Serial \in BOOLEAN /\ QuotaTTL \in Nat /\ MaxRecords \in Nat
  /\ Estimates \subseteq Nat \ {0} /\ Usages \subseteq Nat /\ Unknown \notin Usages

VARIABLES
  enabled,    \* the key may be used
  holds,      \* downstream_quota_reservations: the hold of a request
  usage,      \* downstream_quota_usage: the rows of a request
  locked,     \* the request whose admission holds the row lock of the key
  sums,       \* what it has read: the window's time and the usage in it
  admitted,   \* the time of an admission, or -1 (history)
  overlooked, \* requests an admission did not see although they ran or had used (history)
  lost        \* requests whose usage was not recorded (history)

quotaVars == <<enabled, holds, usage, locked, sums, admitted, overlooked, lost>>

NoHold == [on |-> FALSE, start |-> 0, stop |-> 0, tokens |-> 0, created |-> 0]
NoSums == [at |-> 0, requests |-> 0, tokens |-> 0, unknown |-> FALSE]

\* With one connection a transaction keeps every other statement waiting.
Connected == Serial => locked = NoRequest

-----------------------------------------------------------------------------
(* The window *)

HasQuota == key.period # "none"

Start(t) == CASE key.period = "past"     -> t - key.length
              [] key.period = "calendar" -> (t \div key.length) * key.length
              [] OTHER                   -> 0
Stop(t) == IF key.period = "calendar" THEN Start(t) + key.length ELSE t + 1
Inside(at, t) == Start(t) <= at /\ at < Stop(t)

RowsIn(t) == {x \in Requests \X (1..MaxRecords) :
                x[2] \in DOMAIN usage[x[1]] /\ Inside(usage[x[1]][x[2]].at, t)}
TokensOf(x) == usage[x[1]][x[2]].tokens
UsageSums(t) ==
  [at |-> t, requests |-> Cardinality(RowsIn(t)),
   tokens |-> MapThenSumSet(TokensOf, {x \in RowsIn(t) : TokensOf(x) # Unknown}),
   unknown |-> \E x \in RowsIn(t) : TokensOf(x) = Unknown]

Stale(q, t) == holds[q].on /\ holds[q].created < t - QuotaTTL
Counted(t) == {q \in Requests : holds[q].on /\ ~Stale(q, t) /\ holds[q].stop > Start(t) /\ holds[q].start < Stop(t)}

\* The verdict.  A cost limit is checked like a token limit, without holds.
Permits_Bug ==
  /\ key.tokens # NoLimit => ~sums.unknown /\ sums.tokens < key.tokens
  /\ key.requests # NoLimit => sums.requests < key.requests
Permits ==
  LET requests == sums.requests + Cardinality(Counted(sums.at))
      tokens == sums.tokens + MapThenSumSet(LAMBDA q : holds[q].tokens, Counted(sums.at))
  IN  /\ key.tokens # NoLimit => ~sums.unknown /\ tokens < key.tokens
      /\ key.requests # NoLimit => requests < key.requests

-----------------------------------------------------------------------------
(* reserveManagedKeyQuota *)

\* The row lock, the window and the first sum.
SumUsage(r) ==
  /\ locked = NoRequest
  /\ locked' = r /\ sums' = UsageSums(now)
  /\ UNCHANGED <<enabled, holds, usage, admitted, overlooked, lost>>

Unlock == locked' = NoRequest /\ sums' = NoSums

\* The second sum; stale holds go and the own one comes when the verdict is
\* positive, otherwise everything is rolled back.
InsertHold(r, n) ==
  LET t == sums.at
      stale == {q \in Requests : Stale(q, t)}
      hold == [on |-> TRUE, start |-> Start(t), stop |-> Stop(t), created |-> t,
               tokens |-> IF key.tokens = NoLimit THEN 0 ELSE n]
  IN  /\ locked = r /\ Permits
      /\ holds' = [q \in Requests |-> IF q = r THEN hold ELSE IF q \in stale THEN NoHold ELSE holds[q]]
      /\ admitted' = [admitted EXCEPT ![r] = t]
      /\ overlooked' = overlooked \cup {q \in stale : InProgress(q)}
      /\ Unlock
      /\ UNCHANGED <<enabled, usage, lost>>

RollBack(r) ==
  /\ locked = r
  /\ Unlock
  /\ UNCHANGED <<enabled, holds, usage, admitted, overlooked, lost>>

-----------------------------------------------------------------------------
(* The end of a hold *)

\* A hold that an open admission is about to sweep is locked by it.
Waits(r) == locked # NoRequest /\ Stale(r, sums.at)

\* An admission under way has summed the usage and will not see the hold either.
Missed(r) == IF locked # NoRequest /\ holds[r].on THEN {r} ELSE {}

\* settleManagedKeyQuotaUsage; without a hold the row is inserted all the same.
InsertUsage(r, n) ==
  /\ Connected /\ ~Waits(r) /\ Len(usage[r]) < MaxRecords
  /\ holds' = [holds EXCEPT ![r] = NoHold]
  /\ usage' = [usage EXCEPT ![r] = Append(@, [at |-> now, tokens |-> n])]
  /\ overlooked' = overlooked \cup Missed(r)
  /\ UNCHANGED <<enabled, locked, sums, admitted, lost>>

\* The transaction fails as a whole; disabling the key is a statement of its own.
UsageLost(r) ==
  /\ Len(usage[r]) < MaxRecords
  /\ lost' = lost \cup {r} /\ overlooked' = overlooked \cup {r}
  /\ UNCHANGED <<enabled, holds, usage, locked, sums, admitted>>

DisableKey(ok) ==
  /\ Connected
  /\ enabled' = (enabled /\ ~ok)
  /\ UNCHANGED <<holds, usage, locked, sums, admitted, overlooked, lost>>

\* ReleaseManagedKeyQuotaReservation, deferred by the caller of the admission.
DeleteHold(r) ==
  /\ Connected /\ ~Waits(r)
  /\ holds' = [holds EXCEPT ![r] = NoHold]
  /\ UNCHANGED <<enabled, usage, locked, sums, admitted, overlooked, lost>>

-----------------------------------------------------------------------------
QuotaInit ==
  /\ enabled = TRUE
  /\ holds = [r \in Requests |-> NoHold]
  /\ usage = [r \in Requests |-> <<>>]
  /\ locked = NoRequest /\ sums = NoSums
  /\ admitted = [r \in Requests |-> -1]
  /\ overlooked = {} /\ lost = {}

Hold == [on : BOOLEAN, start : Int, stop : Int, tokens : Nat, created : Int]
UsageRow == [at : 0..MaxTime[key], tokens : Usages \cup {Unknown}]

QuotaTypeOK ==
  /\ enabled \in BOOLEAN
  /\ holds \in [Requests -> Hold]
  /\ usage \in [Requests -> Seq(UsageRow)] /\ \A r \in Requests : Len(usage[r]) <= MaxRecords
  /\ locked \in Requests \cup {NoRequest}
  /\ sums.at \in 0..MaxTime[key] /\ sums.requests \in Nat
  /\ admitted \in [Requests -> -1..MaxTime[key]]
  /\ overlooked \subseteq Requests /\ lost \subseteq Requests

-----------------------------------------------------------------------------
(* Properties *)

\* Requests that ran or run under a quota: what the limit is about.
Charged == {r \in Requests : admitted[r] # -1 /\ (pc[r] \in {"running", "disabling"} \/ usage[r] # <<>> \/ r \in lost)}

\* No window ever holds more charged admissions than the limit, whichever
\* gateways race for the last slot, settle, crash or release, except for those an
\* admission could not see: swept while they ran, settled between the two sums of
\* a concurrent Postgres admission, or lost ("the admission sum never observes a
\* gap", downstream_quota.go 304-307).
WithinQuota ==
  HasQuota /\ key.requests # NoLimit =>
    \A t \in 0..now : Cardinality({r \in Charged \ overlooked : Inside(admitted[r], t)}) <= key.requests
=============================================================================
