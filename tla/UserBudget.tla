----------------------------- MODULE UserBudget -----------------------------
(***************************************************************************)
(* The token budget of one gateway user (store/user_budget.go) and the     *)
(* requests that draw on it (handler/proxy/user_budget.go).  A request     *)
(* reserves an estimate before its first attempt and settles once, when it *)
(* ends; an administrator settles what a crash or an unreported usage left *)
(* behind.  Every transaction of the store starts with a write of the      *)
(* user's row, so transactions are serial and each is one step.  A request *)
(* lives in one gateway process; the set of running requests that blocks a *)
(* manual settlement is the memory of a process.                           *)
(***************************************************************************)
EXTENDS Integers, FiniteSets, FiniteSetsExt, Sequences, SequencesExt

CONSTANTS
  Requests,     \* request identities, random and never reused
  Gateways,     \* gateway processes on one database
  Estimates,    \* token estimates of admission
  Multipliers,  \* group prices
  Usages,       \* tokens an upstream attempt consumes
  Limits,       \* limits an administrator may set
  Scale,        \* userBudgetScale
  MaxUnits,     \* maxUserBudgetUnits
  MaxAttempts,  \* bound on the attempts of a request
  MaxEdits      \* bound on the administrator's edits

ASSUME NumbersAssumption ==
  /\ Estimates \subseteq Nat \ {0} /\ Multipliers \subseteq Nat \ {0}
  /\ Usages \subseteq Nat /\ Limits \subseteq Nat
  /\ Scale \in Nat \ {0} /\ MaxUnits \in Nat /\ MaxAttempts \in Nat /\ MaxEdits \in Nat

\* The counters of the user's row are sums over the requests there ever are.
ASSUME RequestsAssumption == IsFiniteSet(Requests)

VARIABLES
  limit, unlimited, used, reserved,  \* the user's row of gateway_user_budgets
  ledger,    \* the rows of gateway_user_budget_ledger
  price,     \* gateway_user_group_pricing of the user's group
  enabled,   \* user and group are enabled and the group is the expected one
  edits,     \* administrator edits so far
  recharged, \* the limit was edited (history)
  guessed,   \* requests settled by hand against the documented procedure (history)
  active,    \* activeUserBudgetRequests of each process
  home,      \* the process of a request
  pc,        \* idle, reserving, running, settling, ended
  budget,    \* requestUserBudget: what the request observed of its usage
  usage,     \* what its attempts really consumed, in order
  final      \* what settleUserBudget decided under the lifecycle's mutex

account == <<limit, unlimited, used, reserved, ledger>>
admin == <<price, enabled, edits, recharged>>
history == <<admin, guessed>>
request == <<home, budget, usage, final>>
vars == <<account, history, active, pc, request>>

NoTokens == -1

\* userTokenCharge rounds up; a charge beyond MaxUnits is not valid.
Charge(tokens, multiplier) == (tokens * multiplier + Scale - 1) \div Scale
Chargeable_Bug(tokens, multiplier) == Charge(tokens, multiplier) <= MaxUnits
Chargeable(tokens, multiplier) == tokens >= 0 /\ Charge(tokens, multiplier) <= MaxUnits

NoRow == [state |-> "none", multiplier |-> 0, reserved |-> 0, charged |-> 0, tokens |-> NoTokens]
Fresh == [tokens |-> 0, usageFound |-> FALSE, usageUnknown |-> FALSE, seenAttempts |-> {}]

Init ==
  /\ limit \in Limits /\ unlimited = FALSE /\ used = 0 /\ reserved = 0
  /\ ledger = [r \in Requests |-> NoRow]
  /\ price \in Multipliers /\ enabled = TRUE /\ edits = 0 /\ recharged = FALSE /\ guessed = {}
  /\ active = [g \in Gateways |-> {}]
  /\ home \in [Requests -> Gateways]
  /\ pc = [r \in Requests |-> "idle"]
  /\ budget = [r \in Requests |-> Fresh]
  /\ usage = [r \in Requests |-> <<>>]
  /\ final = [r \in Requests |-> [tokens |-> NoTokens, dispatched |-> FALSE]]

Goto(r, l) == pc' = [pc EXCEPT ![r] = l]

-----------------------------------------------------------------------------
(* Admission *)

\* admitUserBudget tracks the request in its process, then reserves.
Track(r) ==
  /\ pc[r] = "idle"
  /\ active' = [active EXCEPT ![home[r]] = @ \cup {r}]
  /\ Goto(r, "reserving")
  /\ UNCHANGED <<account, history, request>>

\* releaseActive and the end of the request.
Leave(r) ==
  /\ active' = [active EXCEPT ![home[r]] = @ \ {r}]
  /\ Goto(r, "ended")

Unresolved == \E q \in Requests : ledger[q].state = "unknown"

Admits_Bug(hold) == unlimited \/ (used < limit /\ hold <= limit - used)
Admits(hold) ==
  /\ enabled /\ ~Unresolved /\ hold <= MaxUnits
  /\ unlimited \/ (used < limit /\ reserved <= limit - used /\ hold <= limit - used - reserved)
  /\ reserved <= MaxUnits - hold

\* ReserveUserBudget, committed.  When the acknowledgement of the commit is lost
\* the caller is refused like after any other error, and the hold stays.  (The branch
\* that finds a row of this identity is never taken: identities are random and a
\* request reserves once.)
Reserve(r, tokens) ==
  LET hold == Charge(tokens, price) IN
  /\ pc[r] = "reserving"
  /\ Admits(hold)
  /\ reserved' = reserved + hold
  /\ ledger' = [ledger EXCEPT ![r] =
       [state |-> "pending", multiplier |-> price, reserved |-> hold, charged |-> 0, tokens |-> NoTokens]]
  /\ \/ Goto(r, "running") /\ UNCHANGED active
     \/ Leave(r)
  /\ UNCHANGED <<limit, unlimited, used, history, request>>

\* Nothing was committed: frozen, exhausted, disabled, or the database failed.
Refuse_Bug(r) == pc[r] = "reserving" /\ Goto(r, "ended") /\ UNCHANGED <<account, history, active, request>>
Refuse(r) == pc[r] = "reserving" /\ Leave(r) /\ UNCHANGED <<account, history, request>>

-----------------------------------------------------------------------------
(* Attempts *)

\* beginGatewayAttempt: an upstream attempt that consumes n tokens, whether or not
\* the gateway ever learns the number.
BeginAttempt(r, n) ==
  /\ pc[r] = "running" /\ Len(usage[r]) < MaxAttempts
  /\ usage' = [usage EXCEPT ![r] = Append(@, n)]
  /\ UNCHANGED <<account, history, active, pc, home, budget, final>>

\* recordAttempt counts the first record of each attempt: its usage or none.
RecordAttempt(r, i, reported) ==
  LET b == budget[r] IN
  /\ pc[r] = "running" /\ i \in DOMAIN usage[r] /\ i \notin b.seenAttempts
  /\ budget' = [budget EXCEPT ![r] =
       [tokens |-> IF reported THEN b.tokens + usage[r][i] ELSE b.tokens,
        usageFound |-> b.usageFound \/ reported,
        usageUnknown |-> b.usageUnknown \/ ~reported,
        seenAttempts |-> b.seenAttempts \cup {i}]]
  /\ UNCHANGED <<account, history, active, pc, home, usage, final>>

\* observeUserBudgetUsageValidity: malformed usage in a body or an event.
ObserveInvalid(r) ==
  /\ pc[r] = "running" /\ usage[r] # <<>>
  /\ budget' = [budget EXCEPT ![r].usageUnknown = TRUE]
  /\ UNCHANGED <<account, history, active, pc, home, usage, final>>

Total(r) == FoldSeq(+, 0, usage[r])

-----------------------------------------------------------------------------
(* Settlement *)

\* The usage counts only when every attempt reported and none was malformed.
Observed_Bug(r) == budget[r].usageFound /\ ~budget[r].usageUnknown
Observed(r) == /\ budget[r].usageFound /\ ~budget[r].usageUnknown
               /\ Cardinality(budget[r].seenAttempts) >= Len(usage[r])

\* The end of a request, once: settleUserBudget up to its unlock.
Finish(r) ==
  /\ pc[r] = "running"
  /\ final' = [final EXCEPT ![r] =
       [tokens |-> IF Observed(r) THEN budget[r].tokens ELSE NoTokens,
        dispatched |-> usage[r] # <<>>]]
  /\ Goto(r, "settling")
  /\ UNCHANGED <<account, history, active, home, budget, usage>>

Settleable_Bug(r, manual) == ledger[r].state \in {"pending", "unknown", "settled"}
Settleable(r, manual) == ledger[r].state = "pending" \/ (manual /\ ledger[r].state = "unknown")

\* The money of one request: its hold is freed and its charge is used.
Pay_Bug(r, state, charge, tokens) ==
  /\ used' = used + charge /\ UNCHANGED reserved
  /\ ledger' = [ledger EXCEPT ![r] = [@ EXCEPT !.state = state, !.charged = charge, !.tokens = tokens]]
Pay(r, state, charge, tokens) ==
  /\ used <= MaxUnits - charge
  /\ used' = used + charge
  /\ reserved' = reserved - ledger[r].reserved
  /\ ledger' = [ledger EXCEPT ![r] = [@ EXCEPT !.state = state, !.charged = charge, !.tokens = tokens]]

\* The transaction of settleUserBudget, committed.
SettleTx(r, tokens, dispatched, manual) ==
  LET m == ledger[r].multiplier IN
  /\ Settleable(r, manual)
  /\ UNCHANGED <<limit, unlimited>>
  /\ \/ ~dispatched /\ Pay(r, "released", 0, NoTokens)
     \/ dispatched /\ Chargeable(tokens, m) /\ Pay(r, "settled", Charge(tokens, m), tokens)
     \/ /\ dispatched /\ ~Chargeable(tokens, m) /\ ~manual
        /\ ledger' = [ledger EXCEPT ![r].state = "unknown"]
        /\ UNCHANGED <<used, reserved>>

\* SettleUserBudget: it commits, or it finds the row already settled, or it fails
\* within its second; nobody tries again.
Settle(r) ==
  /\ pc[r] = "settling"
  /\ SettleTx(r, final[r].tokens, final[r].dispatched, FALSE) \/ UNCHANGED account
  /\ Leave(r)
  /\ UNCHANGED <<history, request>>

\* Before a manual settlement the administrator must verify that the request ended
\* on every instance, and its total (user_budget.go 15-17 and 246-248).
ByProcedure(r, tokens) == (\A h \in Gateways : r \notin active[h]) /\ tokens = Total(r)

\* ReconcileUserBudget at process g, blocked by the requests running in g alone.
Reconcile(g, r, tokens) ==
  /\ tokens \in Nat /\ r \notin active[g]
  /\ SettleTx(r, tokens, TRUE, TRUE)
  /\ guessed' = IF ByProcedure(r, tokens) THEN guessed ELSE guessed \cup {r}
  /\ UNCHANGED <<admin, active, pc, request>>

-----------------------------------------------------------------------------
(* Crashes and edits *)

Running(r) == pc[r] \in {"reserving", "running", "settling"}

\* A process dies: its requests end where they are and its memory is gone.
Crash(g) ==
  /\ \E r \in Requests : home[r] = g /\ Running(r)
  /\ pc' = [r \in Requests |-> IF home[r] = g /\ Running(r) THEN "ended" ELSE pc[r]]
  /\ active' = [active EXCEPT ![g] = {}]
  /\ UNCHANGED <<account, history, request>>

Edit == edits < MaxEdits /\ edits' = edits + 1

\* Used credit and holds survive a new limit.
SetUserBudget(l, free) ==
  /\ Edit /\ <<l, free>> # <<limit, unlimited>>
  /\ limit' = l /\ unlimited' = free /\ recharged' = TRUE
  /\ UNCHANGED <<used, reserved, ledger, price, enabled, guessed, active, pc, request>>

SetUserGroupPricing(m) ==
  /\ Edit /\ m # price /\ price' = m
  /\ UNCHANGED <<account, enabled, recharged, guessed, active, pc, request>>

ToggleUser ==
  /\ Edit /\ enabled' = ~enabled
  /\ UNCHANGED <<account, price, recharged, guessed, active, pc, request>>

-----------------------------------------------------------------------------
RequestStep(r) ==
  \/ Track(r) \/ (\E n \in Estimates : Reserve(r, n)) \/ Refuse(r)
  \/ (\E n \in Usages : BeginAttempt(r, n))
  \/ (\E i \in 1..MaxAttempts, b \in BOOLEAN : RecordAttempt(r, i, b))
  \/ ObserveInvalid(r) \/ Finish(r) \/ Settle(r)

\* The totals an administrator may enter.
Entries == Usages \cup {Total(r) : r \in Requests}

Next ==
  \/ \E r \in Requests : RequestStep(r)
  \/ \E g \in Gateways, r \in Requests, n \in Entries : Reconcile(g, r, n)
  \/ \E g \in Gateways : Crash(g)
  \/ \E l \in Limits, free \in BOOLEAN : SetUserBudget(l, free)
  \/ \E m \in Multipliers : SetUserGroupPricing(m)
  \/ ToggleUser

Spec == Init /\ [][Next]_vars

-----------------------------------------------------------------------------
(* Properties *)

Row == [state : {"none", "pending", "unknown", "settled", "released"},
        multiplier : Multipliers \cup {0}, reserved : Nat, charged : Nat, tokens : Nat \cup {NoTokens}]

\* Rows and local values keep their shape; amounts are integers whose sign the other
\* invariants settle.
TypeOK ==
  /\ limit \in Limits /\ unlimited \in BOOLEAN /\ used \in Nat /\ reserved \in Int
  /\ ledger \in [Requests -> Row]
  /\ price \in Multipliers /\ enabled \in BOOLEAN /\ edits \in Nat /\ recharged \in BOOLEAN /\ guessed \subseteq Requests
  /\ active \in [Gateways -> SUBSET Requests] /\ home \in [Requests -> Gateways]
  /\ pc \in [Requests -> {"idle", "reserving", "running", "settling", "ended"}]
  /\ budget \in [Requests -> [tokens : Nat, usageFound : BOOLEAN, usageUnknown : BOOLEAN,
                              seenAttempts : SUBSET (1..MaxAttempts)]]
  /\ usage \in [Requests -> Seq(Usages)]
  /\ final \in [Requests -> [tokens : Nat \cup {NoTokens}, dispatched : BOOLEAN]]

Held == {r \in Requests : ledger[r].state \in {"pending", "unknown"}}
HeldUnits(r) == IF r \in Held THEN ledger[r].reserved ELSE 0

\* The two counters of the user's row say what the ledger says: holds of unresolved
\* requests and charges of resolved ones, whoever settled them and whatever crashed
\* (user_budget.go 229-235 and 311-319).  So neither turns negative.
CountersMatchLedger ==
  /\ reserved = MapThenSumSet(HeldUnits, Requests)
  /\ used = MapThenSumSet(LAMBDA r : ledger[r].charged, Requests)

\* Requests of two gateways together never reserve and use more than the limit, as
\* long as it is not edited and no charge exceeds its hold (user_budget.go 223-228).
WithinLimit ==
  ~recharged /\ (\A r \in Requests : ledger[r].charged <= ledger[r].reserved)
    => used + reserved <= limit

\* A resolved request stays as it is, whatever arrives later, and no row changes the
\* price and the hold it was admitted with (user_budget.go 282-288).
RowsResolveOnce == [][\A r \in Requests :
  /\ ledger[r].state \in {"settled", "released"} => ledger'[r] = ledger[r]
  /\ ledger[r].state # "none" => /\ ledger'[r].multiplier = ledger[r].multiplier
                                 /\ ledger'[r].reserved = ledger[r].reserved
                                 /\ ledger'[r].state # "none"]_vars

\* Usage is neither lost nor free: a settled request is charged for what all its
\* attempts consumed, and a released one made none, unless an administrator settled it
\* against the documented procedure (handler/proxy/user_budget.go 270-275, request_lifecycle.go 421-432).
TruthfulCharge == \A r \in Requests \ guessed :
  /\ ledger[r].state = "settled" => /\ ledger[r].tokens = Total(r)
                                    /\ ledger[r].charged * Scale >= Total(r) * ledger[r].multiplier
  /\ ledger[r].state = "released" => usage[r] = <<>>

\* The requests that block a manual settlement are those that run: refused, failed and
\* crashed ones do not (handler/proxy/user_budget.go 226-228 and 278-282).
ActiveIsRunning == \A g \in Gateways : active[g] = {r \in Requests : home[r] = g /\ Running(r)}
=============================================================================
