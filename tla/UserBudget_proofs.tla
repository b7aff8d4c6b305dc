------------------------- MODULE UserBudget_proofs -------------------------
(***************************************************************************)
(* Rows of the ledger resolve once and, as long as the limit stands and no *)
(* charge exceeds its hold, a user never holds and uses more than it: for  *)
(* all requests, gateways, prices, scales and bounds.                      *)
(***************************************************************************)
EXTENDS UserBudget, DataLemmas

\* A request that has not been admitted has no row, and an unresolved row no charge.
RowsFresh == \A r \in Requests :
  /\ pc[r] \in {"idle", "reserving"} => ledger[r].state = "none"
  /\ ledger[r].state \in {"none", "pending", "unknown"} => ledger[r].charged = 0

\* Only an edit lifts the limit.
Limited == ~recharged => ~unlimited

Inv == TypeOK /\ RowsFresh /\ Limited /\ WithinLimit

\* The row of r once it is resolved.
Resolved(r, s, c, n) == [ledger[r] EXCEPT !.state = s, !.charged = c, !.tokens = n]

USE DEF account, admin, history, request

\* A charge is a natural number.
LEMMA ChargeNat ==
  ASSUME NEW t \in Nat, NEW m \in Nat
  PROVE  Charge(t, m) \in Nat
<1>1. t * m \in Nat
  OBVIOUS
<1>2. Scale \in Nat \ {0}
  BY NumbersAssumption
<1> DEFINE p == t * m + Scale - 1
<1>3. p \in Nat
  BY <1>1, <1>2
<1> HIDE DEF p
<1>4. p \div Scale \in Nat
  BY <1>2, <1>3
<1> QED
  BY <1>4 DEF Charge, p

LEMMA InitInv == Init => Inv
<1> SUFFICES ASSUME Init PROVE Inv
  OBVIOUS
<1>1. ledger \in [Requests -> Row]
  BY DEF Init, NoRow, Row, NoTokens
<1>2. /\ budget \in [Requests -> [tokens : Nat, usageFound : BOOLEAN, usageUnknown : BOOLEAN,
                                  seenAttempts : SUBSET (1..MaxAttempts)]]
      /\ final \in [Requests -> [tokens : Nat \cup {NoTokens}, dispatched : BOOLEAN]]
      /\ usage \in [Requests -> Seq(Usages)]
  BY DEF Init, Fresh, NoTokens
<1>3. TypeOK
  <2>1. limit \in Limits /\ used \in Nat /\ reserved \in Int /\ price \in Multipliers /\ edits \in Nat
    BY DEF Init
  <2>2. unlimited \in BOOLEAN /\ enabled \in BOOLEAN /\ recharged \in BOOLEAN /\ guessed \subseteq Requests
    BY Zenon DEF Init
  <2>3. /\ active \in [Gateways -> SUBSET Requests] /\ home \in [Requests -> Gateways]
        /\ pc \in [Requests -> {"idle", "reserving", "running", "settling", "ended"}]
    BY DEF Init
  <2> QED
    BY <1>1, <1>2, <2>1, <2>2, <2>3 DEF TypeOK
<1>4. RowsFresh
  BY DEF Init, RowsFresh, NoRow
<1>5. Limited /\ WithinLimit
  BY NumbersAssumption DEF Init, Limited, WithinLimit
<1> QED
  BY <1>3, <1>4, <1>5 DEF Inv

\* The end of a call touches the process and the label alone.
LEMMA LeaveType ==
  ASSUME TypeOK, NEW r \in Requests, Leave(r)
  PROVE  /\ active' \in [Gateways -> SUBSET Requests]
         /\ pc' \in [Requests -> {"idle", "reserving", "running", "settling", "ended"}]
         /\ \A q \in Requests : pc'[q] \in {"idle", "reserving"} => pc[q] = pc'[q]
  BY DEF TypeOK, Leave, Goto

\* One settlement: the row resolves or turns unknown, the counters stay in range and
\* what is held and used grows by no more than the charge exceeds the hold.
LEMMA SettleRow ==
  ASSUME Inv, NEW r \in Requests, NEW t \in Nat \cup {NoTokens}, NEW d \in BOOLEAN, NEW m \in BOOLEAN,
         SettleTx(r, t, d, m)
  PROVE  /\ ledger[r].state \in {"pending", "unknown"}
         /\ UNCHANGED <<limit, unlimited>>
         /\ used' \in Nat /\ reserved' \in Int
         /\ ledger' \in [Requests -> Row]
         /\ \A q \in Requests \ {r} : ledger'[q] = ledger[q]
         /\ ledger'[r].state \in {"unknown", "settled", "released"}
         /\ ledger'[r].state = "unknown" => ledger'[r].charged = 0
         /\ ledger'[r].multiplier = ledger[r].multiplier /\ ledger'[r].reserved = ledger[r].reserved
         /\ \/ UNCHANGED <<used, reserved>> /\ ledger'[r].charged = 0
            \/ /\ used' = used + ledger'[r].charged
               /\ reserved' = reserved - ledger[r].reserved
<1> USE DEF Inv, TypeOK
<1>1. ledger[r].state \in {"pending", "unknown"} /\ UNCHANGED <<limit, unlimited>>
  BY DEF SettleTx, Settleable
<1>2. ledger[r] \in Row /\ ledger[r].charged = 0
  BY <1>1 DEF RowsFresh
<1>3. ASSUME NEW s \in {"settled", "released"}, NEW c \in Nat, NEW n \in Nat \cup {NoTokens}, Pay(r, s, c, n)
      PROVE  /\ used' = used + c /\ reserved' = reserved - ledger[r].reserved
             /\ used' \in Nat /\ reserved' \in Int
             /\ ledger' = [ledger EXCEPT ![r] = Resolved(r, s, c, n)]
             /\ Resolved(r, s, c, n) \in Row
  <2>1. Resolved(r, s, c, n) \in Row
    BY <1>2 DEF Row, Resolved
  <2> DEFINE h == ledger[r].reserved
  <2>2. h \in Int
    BY <1>2 DEF Row
  <2>3. used' = used + c /\ reserved' = reserved - h /\ ledger' = [ledger EXCEPT ![r] = Resolved(r, s, c, n)]
    BY <1>3 DEF Pay, Resolved
  <2> HIDE DEF h
  <2>4. used' \in Nat /\ reserved' \in Int
    BY <2>2, <2>3
  <2> QED
    BY <2>1, <2>3, <2>4 DEF h
<1>4. CASE \E s \in {"settled", "released"}, c \in Nat, n \in Nat \cup {NoTokens} : Pay(r, s, c, n)
  <2>1. PICK s \in {"settled", "released"}, c \in Nat, n \in Nat \cup {NoTokens} : Pay(r, s, c, n)
    BY <1>4
  <2> DEFINE row == Resolved(r, s, c, n)
  <2>2. /\ row \in Row /\ ledger' = [ledger EXCEPT ![r] = row]
        /\ used' = used + c /\ reserved' = reserved - ledger[r].reserved
        /\ used' \in Nat /\ reserved' \in Int
    BY <1>3, <2>1
  <2>3. /\ row.state = s /\ row.charged = c
        /\ row.multiplier = ledger[r].multiplier /\ row.reserved = ledger[r].reserved
    BY <1>2 DEF Row, Resolved
  <2> HIDE DEF row
  <2>4. ledger' \in [Requests -> Row] /\ ledger'[r] = row /\ \A q \in Requests \ {r} : ledger'[q] = ledger[q]
    BY <2>2
  <2> QED
    BY <1>1, <2>2, <2>3, <2>4
<1>5. CASE ledger' = [ledger EXCEPT ![r].state = "unknown"] /\ UNCHANGED <<used, reserved>>
  <2> DEFINE row == [ledger[r] EXCEPT !.state = "unknown"]
  <2>1. /\ row \in Row /\ ledger' = [ledger EXCEPT ![r] = row]
        /\ row.state = "unknown" /\ row.charged = 0
        /\ row.multiplier = ledger[r].multiplier /\ row.reserved = ledger[r].reserved
    BY <1>2, <1>5 DEF Row
  <2> HIDE DEF row
  <2>2. ledger' \in [Requests -> Row] /\ ledger'[r] = row /\ \A q \in Requests \ {r} : ledger'[q] = ledger[q]
    BY <2>1
  <2> QED
    BY <1>1, <1>5, <2>1, <2>2
<1>6. Chargeable(t, ledger[r].multiplier) => t \in Nat /\ Charge(t, ledger[r].multiplier) \in Nat
  <2>1. ledger[r].multiplier \in Nat
    BY <1>2, NumbersAssumption DEF Row
  <2>2. Chargeable(t, ledger[r].multiplier) => t \in Nat
    BY DEF Chargeable, NoTokens
  <2> QED
    BY <2>1, <2>2, ChargeNat
<1> QED
  BY <1>4, <1>5, <1>6 DEF SettleTx, NoTokens

\* A settlement keeps the rows fresh and the user within the limit.
LEMMA SettleInv ==
  ASSUME Inv, NEW r \in Requests, NEW t \in Nat \cup {NoTokens}, NEW d \in BOOLEAN, NEW m \in BOOLEAN,
         SettleTx(r, t, d, m), recharged' = recharged,
         \A q \in Requests : pc'[q] \in {"idle", "reserving"} => pc[q] = pc'[q]
  PROVE  /\ limit' \in Limits /\ unlimited' \in BOOLEAN /\ used' \in Nat /\ reserved' \in Int
         /\ ledger' \in [Requests -> Row]
         /\ RowsFresh' /\ Limited' /\ WithinLimit'
<1>1. /\ ledger[r].state \in {"pending", "unknown"}
      /\ UNCHANGED <<limit, unlimited>>
      /\ used' \in Nat /\ reserved' \in Int
      /\ ledger' \in [Requests -> Row]
      /\ \A q \in Requests \ {r} : ledger'[q] = ledger[q]
      /\ ledger'[r].state \in {"unknown", "settled", "released"}
      /\ ledger'[r].state = "unknown" => ledger'[r].charged = 0
      /\ ledger'[r].reserved = ledger[r].reserved
      /\ \/ UNCHANGED <<used, reserved>> /\ ledger'[r].charged = 0
         \/ /\ used' = used + ledger'[r].charged
            /\ reserved' = reserved - ledger[r].reserved
  BY SettleRow
<1>2. RowsFresh'
  BY <1>1 DEF Inv, RowsFresh
<1>3. ASSUME ~recharged', \A q \in Requests : ledger'[q].charged <= ledger'[q].reserved
      PROVE  used' + reserved' <= limit'
  <2>1. ledger[r].charged = 0 /\ ledger[r].reserved \in Nat /\ ledger'[r].charged \in Nat
    BY <1>1 DEF Inv, RowsFresh, TypeOK, Row
  <2>2. \A q \in Requests : ledger[q].charged <= ledger[q].reserved
    BY <1>1, <1>3, <2>1
  <2>3. used + reserved <= limit
    BY <1>3, <2>2 DEF Inv, WithinLimit
  <2>4. used \in Nat /\ reserved \in Int /\ limit \in Nat
    BY NumbersAssumption DEF Inv, TypeOK
  <2>5. ledger'[r].charged <= ledger[r].reserved /\ limit' = limit
    BY <1>1, <1>3
  <2>6. CASE UNCHANGED <<used, reserved>>
    BY <2>3, <2>5, <2>6
  <2>7. CASE used' = used + ledger'[r].charged /\ reserved' = reserved - ledger[r].reserved
    <3> DEFINE c == ledger'[r].charged
               h == ledger[r].reserved
    <3>1. c \in Nat /\ h \in Nat /\ c <= h /\ used' = used + c /\ reserved' = reserved - h
      BY <2>1, <2>5, <2>7
    <3> HIDE DEF c, h
    <3> QED
      BY <2>3, <2>4, <2>5, <3>1
  <2> QED
    BY <1>1, <2>6, <2>7
<1> QED
  BY <1>1, <1>2, <1>3 DEF Inv, TypeOK, Limited, WithinLimit

\* Steps that leave account and limit history alone and admit nobody.
LEMMA Quiet ==
  ASSUME Inv, UNCHANGED <<account, recharged>>,
         \A q \in Requests : pc'[q] \in {"idle", "reserving"} => pc[q] \in {"idle", "reserving"}
  PROVE  RowsFresh' /\ Limited' /\ WithinLimit'
  BY DEF Inv, RowsFresh, Limited, WithinLimit

\* What an admission writes: one fresh row, and a hold that fits under the limit.
LEMMA ReserveRow ==
  ASSUME Inv, NEW r \in Requests, NEW n \in Estimates, Reserve(r, n)
  PROVE  /\ limit' \in Limits /\ unlimited' \in BOOLEAN /\ used' \in Nat /\ reserved' \in Int
         /\ ledger' \in [Requests -> Row]
         /\ RowsFresh' /\ Limited' /\ WithinLimit'
<1> DEFINE hold == Charge(n, price)
           row == [state |-> "pending", multiplier |-> price, reserved |-> hold, charged |-> 0, tokens |-> NoTokens]
<1>1. hold \in Nat
  BY ChargeNat, NumbersAssumption DEF Inv, TypeOK
<1>2. row \in Row /\ row.state = "pending" /\ row.charged = 0 /\ row.reserved = hold
  BY <1>1 DEF Row, Inv, TypeOK
<1>3. /\ Admits(hold) /\ reserved' = reserved + hold /\ ledger' = [ledger EXCEPT ![r] = row]
      /\ pc[r] = "reserving" /\ UNCHANGED <<limit, unlimited, used, recharged>>
      /\ Leave(r) \/ Goto(r, "running")
  BY DEF Reserve
<1> HIDE DEF hold, row
<1>4. used \in Nat /\ reserved \in Int /\ limit \in Nat /\ limit \in Limits /\ unlimited \in BOOLEAN
  BY NumbersAssumption DEF Inv, TypeOK
<1>5. ledger' \in [Requests -> Row] /\ ledger'[r] = row /\ \A q \in Requests \ {r} : ledger'[q] = ledger[q]
  BY <1>2, <1>3 DEF Inv, TypeOK
<1>6. pc'[r] \in {"running", "ended"} /\ \A q \in Requests \ {r} : pc'[q] = pc[q]
  BY <1>3 DEF Leave, Goto, Inv, TypeOK
<1>7. RowsFresh'
  BY <1>2, <1>5, <1>6 DEF RowsFresh, Inv
<1>8. ASSUME ~recharged' PROVE used' + reserved' <= limit'
  <2>1. ~unlimited
    BY <1>3, <1>8 DEF Inv, Limited
  <2> QED
    BY <1>1, <1>3, <1>4, <2>1 DEF Admits
<1>9. Limited'
  BY <1>3 DEF Inv, Limited
<1> QED
  BY <1>1, <1>3, <1>4, <1>5, <1>7, <1>8, <1>9 DEF WithinLimit

-----------------------------------------------------------------------------
\* The parts of the type invariant that the steps below do not touch.
LEMMA TypeStep ==
  ASSUME TypeOK, UNCHANGED <<account, history, home, usage, final>>,
         active' \in [Gateways -> SUBSET Requests],
         pc' \in [Requests -> {"idle", "reserving", "running", "settling", "ended"}],
         budget' \in [Requests -> [tokens : Nat, usageFound : BOOLEAN, usageUnknown : BOOLEAN,
                                   seenAttempts : SUBSET (1..MaxAttempts)]]
  PROVE  TypeOK'
  BY DEF TypeOK

LEMMA InvStep == Inv /\ [Next]_vars => Inv'
<1> SUFFICES ASSUME Inv, [Next]_vars PROVE Inv'
  OBVIOUS
<1>1. TypeOK
  BY DEF Inv
<1>2. ASSUME NEW r \in Requests, Track(r) PROVE Inv'
  <2>1. pc[r] = "idle" /\ pc' = [pc EXCEPT ![r] = "reserving"] /\ UNCHANGED <<account, history, request>>
    BY <1>2 DEF Track, Goto
  <2>2. RowsFresh' /\ Limited' /\ WithinLimit'
    BY <1>1, <2>1, Quiet DEF TypeOK
  <2>3. active' \in [Gateways -> SUBSET Requests]
    BY <1>1, <1>2 DEF Track, TypeOK
  <2>4. pc' \in [Requests -> {"idle", "reserving", "running", "settling", "ended"}]
    BY <1>1, <2>1 DEF TypeOK
  <2>5. TypeOK'
    BY <1>1, <2>1, <2>3, <2>4, TypeStep DEF TypeOK
  <2> QED
    BY <2>2, <2>5 DEF Inv
<1>3. ASSUME NEW r \in Requests, NEW n \in Estimates, Reserve(r, n) PROVE Inv'
  <2>1. /\ limit' \in Limits /\ unlimited' \in BOOLEAN /\ used' \in Nat /\ reserved' \in Int
        /\ ledger' \in [Requests -> Row] /\ RowsFresh' /\ Limited' /\ WithinLimit'
    BY <1>3, ReserveRow
  <2>2. UNCHANGED <<history, request>> /\ (Leave(r) \/ (Goto(r, "running") /\ UNCHANGED active))
    BY <1>3 DEF Reserve
  <2>3. active' \in [Gateways -> SUBSET Requests]
        /\ pc' \in [Requests -> {"idle", "reserving", "running", "settling", "ended"}]
    BY <1>1, <2>2, LeaveType DEF Goto, TypeOK
  <2> QED
    BY <1>1, <2>1, <2>2, <2>3 DEF Inv, TypeOK
<1>4. ASSUME NEW r \in Requests, Refuse(r) PROVE Inv'
  <2>1. UNCHANGED <<account, history, request>> /\ Leave(r)
    BY <1>4 DEF Refuse
  <2>2. active' \in [Gateways -> SUBSET Requests]
        /\ pc' \in [Requests -> {"idle", "reserving", "running", "settling", "ended"}]
        /\ \A q \in Requests : pc'[q] \in {"idle", "reserving"} => pc[q] = pc'[q]
    BY <1>1, <2>1, LeaveType
  <2>3. RowsFresh' /\ Limited' /\ WithinLimit'
    BY <2>1, <2>2, Quiet
  <2>4. TypeOK'
    BY <1>1, <2>1, <2>2, TypeStep DEF TypeOK
  <2> QED
    BY <2>3, <2>4 DEF Inv
<1>5. ASSUME NEW r \in Requests, NEW n \in Usages, BeginAttempt(r, n) PROVE Inv'
  <2>1. usage' \in [Requests -> Seq(Usages)]
    <3>1. Append(usage[r], n) \in Seq(Usages) /\ usage' = [usage EXCEPT ![r] = Append(usage[r], n)]
      BY <1>1, <1>5 DEF BeginAttempt, TypeOK
    <3> QED
      BY <1>1, <3>1 DEF TypeOK
  <2>2. UNCHANGED <<account, history, active, pc, home, budget, final>>
    BY <1>5 DEF BeginAttempt
  <2>3. RowsFresh' /\ Limited' /\ WithinLimit'
    BY <2>2, Quiet
  <2> QED
    BY <1>1, <2>1, <2>2, <2>3 DEF Inv, TypeOK
<1>6. ASSUME NEW r \in Requests, NEW i \in 1..MaxAttempts, NEW b \in BOOLEAN, RecordAttempt(r, i, b) PROVE Inv'
  <2> DEFINE o == budget[r]
             row == [tokens |-> IF b THEN o.tokens + usage[r][i] ELSE o.tokens,
                     usageFound |-> o.usageFound \/ b,
                     usageUnknown |-> o.usageUnknown \/ ~b,
                     seenAttempts |-> o.seenAttempts \cup {i}]
             Observations == [tokens : Nat, usageFound : BOOLEAN, usageUnknown : BOOLEAN,
                              seenAttempts : SUBSET (1..MaxAttempts)]
  <2>1. o \in Observations /\ usage[r] \in Seq(Usages)
    BY <1>1 DEF TypeOK
  <2>2. usage[r][i] \in Nat
    <3>1. i \in DOMAIN usage[r]
      BY <1>6 DEF RecordAttempt
    <3>2. usage[r][i] \in Usages
      BY <2>1, <3>1
    <3> QED
      BY <3>2, NumbersAssumption
  <2>3. row \in Observations
    BY <2>1, <2>2
  <2>4. budget' = [budget EXCEPT ![r] = row] /\ UNCHANGED <<account, history, active, pc, home, usage, final>>
    BY <1>6 DEF RecordAttempt
  <2> HIDE DEF row
  <2>5. budget' \in [Requests -> Observations]
    BY <1>1, <2>3, <2>4 DEF TypeOK
  <2>6. RowsFresh' /\ Limited' /\ WithinLimit'
    BY <2>4, Quiet
  <2>7. TypeOK'
    BY <1>1, <2>4, <2>5, TypeStep DEF TypeOK
  <2> QED
    BY <2>6, <2>7 DEF Inv
<1>7. ASSUME NEW r \in Requests, ObserveInvalid(r) PROVE Inv'
  <2> DEFINE row == [budget[r] EXCEPT !.usageUnknown = TRUE]
             Observations == [tokens : Nat, usageFound : BOOLEAN, usageUnknown : BOOLEAN,
                              seenAttempts : SUBSET (1..MaxAttempts)]
  <2>1. budget[r] \in Observations
    BY <1>1 DEF TypeOK
  <2>2. row \in Observations
    BY <2>1
  <2>3. budget' = [budget EXCEPT ![r] = row] /\ UNCHANGED <<account, history, active, pc, home, usage, final>>
    BY <1>7 DEF ObserveInvalid
  <2> HIDE DEF row
  <2>4. budget' \in [Requests -> Observations]
    BY <1>1, <2>2, <2>3 DEF TypeOK
  <2>5. RowsFresh' /\ Limited' /\ WithinLimit'
    BY <2>3, Quiet
  <2>6. TypeOK'
    BY <1>1, <2>3, <2>4, TypeStep DEF TypeOK
  <2> QED
    BY <2>5, <2>6 DEF Inv
<1>8. ASSUME NEW r \in Requests, Finish(r) PROVE Inv'
  <2> DEFINE row == [tokens |-> IF Observed(r) THEN budget[r].tokens ELSE NoTokens,
                     dispatched |-> usage[r] # <<>>]
  <2>1. row \in [tokens : Nat \cup {NoTokens}, dispatched : BOOLEAN]
    BY <1>1 DEF TypeOK
  <2>2. /\ final' = [final EXCEPT ![r] = row] /\ pc[r] = "running" /\ pc' = [pc EXCEPT ![r] = "settling"]
        /\ UNCHANGED <<account, history, active, home, budget, usage>>
    BY <1>8 DEF Finish, Goto
  <2> HIDE DEF row
  <2>3. /\ final' \in [Requests -> [tokens : Nat \cup {NoTokens}, dispatched : BOOLEAN]]
        /\ pc' \in [Requests -> {"idle", "reserving", "running", "settling", "ended"}]
    BY <1>1, <2>1, <2>2 DEF TypeOK
  <2>4. RowsFresh' /\ Limited' /\ WithinLimit'
    BY <1>1, <2>2, Quiet DEF TypeOK
  <2> QED
    BY <1>1, <2>2, <2>3, <2>4 DEF Inv, TypeOK
<1>9. ASSUME NEW r \in Requests, Settle(r) PROVE Inv'
  <2>1. /\ SettleTx(r, final[r].tokens, final[r].dispatched, FALSE) \/ UNCHANGED account
        /\ Leave(r) /\ UNCHANGED <<history, request>>
    BY <1>9 DEF Settle
  <2>2. active' \in [Gateways -> SUBSET Requests]
        /\ pc' \in [Requests -> {"idle", "reserving", "running", "settling", "ended"}]
        /\ \A q \in Requests : pc'[q] \in {"idle", "reserving"} => pc[q] = pc'[q]
    BY <1>1, <2>1, LeaveType
  <2>3. final[r].tokens \in Nat \cup {NoTokens} /\ final[r].dispatched \in BOOLEAN
    BY <1>1 DEF TypeOK
  <2>4. CASE SettleTx(r, final[r].tokens, final[r].dispatched, FALSE)
    <3>1. /\ limit' \in Limits /\ unlimited' \in BOOLEAN /\ used' \in Nat /\ reserved' \in Int
          /\ ledger' \in [Requests -> Row] /\ RowsFresh' /\ Limited' /\ WithinLimit'
      BY <2>1, <2>2, <2>3, <2>4, SettleInv
    <3> QED
      BY <1>1, <2>1, <2>2, <3>1 DEF Inv, TypeOK
  <2>5. CASE UNCHANGED account
    <3>1. RowsFresh' /\ Limited' /\ WithinLimit'
      BY <2>1, <2>2, <2>5, Quiet
    <3> QED
      BY <1>1, <2>1, <2>2, <2>5, <3>1 DEF Inv, TypeOK
  <2> QED
    BY <2>1, <2>4, <2>5
<1>10. ASSUME NEW g \in Gateways, NEW r \in Requests, NEW n \in Entries, Reconcile(g, r, n) PROVE Inv'
  <2>1. n \in Nat /\ SettleTx(r, n, TRUE, TRUE) /\ UNCHANGED <<admin, active, pc, request>>
        /\ (guessed' = guessed \/ guessed' = guessed \cup {r})
    BY <1>10 DEF Reconcile
  <2>2. /\ limit' \in Limits /\ unlimited' \in BOOLEAN /\ used' \in Nat /\ reserved' \in Int
        /\ ledger' \in [Requests -> Row] /\ RowsFresh' /\ Limited' /\ WithinLimit'
    BY <2>1, SettleInv
  <2> QED
    BY <1>1, <2>1, <2>2 DEF Inv, TypeOK
<1>11. ASSUME NEW g \in Gateways, Crash(g) PROVE Inv'
  <2>1. /\ pc' = [r \in Requests |-> IF home[r] = g /\ Running(r) THEN "ended" ELSE pc[r]]
        /\ active' = [active EXCEPT ![g] = {}] /\ UNCHANGED <<account, history, request>>
    BY <1>11 DEF Crash
  <2>2. /\ active' \in [Gateways -> SUBSET Requests]
        /\ pc' \in [Requests -> {"idle", "reserving", "running", "settling", "ended"}]
        /\ \A q \in Requests : pc'[q] \in {"idle", "reserving"} => pc[q] = pc'[q]
    BY <1>1, <2>1 DEF TypeOK
  <2>3. RowsFresh' /\ Limited' /\ WithinLimit'
    BY <2>1, <2>2, Quiet
  <2>4. TypeOK'
    BY <1>1, <2>1, <2>2, TypeStep DEF TypeOK
  <2> QED
    BY <2>3, <2>4 DEF Inv
<1>12. ASSUME NEW l \in Limits, NEW f \in BOOLEAN, SetUserBudget(l, f) PROVE Inv'
  <2>1. /\ limit' = l /\ unlimited' = f /\ recharged' = TRUE /\ edits' = edits + 1
        /\ UNCHANGED <<used, reserved, ledger, price, enabled, guessed, active, pc, request>>
    BY <1>12 DEF SetUserBudget, Edit
  <2>2. RowsFresh' /\ Limited' /\ WithinLimit'
    BY <2>1 DEF Inv, RowsFresh, Limited, WithinLimit
  <2>3. TypeOK'
    <3>1. recharged' \in BOOLEAN /\ unlimited' \in BOOLEAN /\ limit' \in Limits /\ edits' \in Nat
      BY <1>1, <2>1 DEF TypeOK
    <3> QED
      BY <1>1, <2>1, <3>1 DEF TypeOK
  <2> QED
    BY <2>2, <2>3 DEF Inv
<1>13. ASSUME NEW m \in Multipliers, SetUserGroupPricing(m) PROVE Inv'
  <2>1. price' = m /\ edits' = edits + 1 /\ UNCHANGED <<account, enabled, recharged, guessed, active, pc, request>>
    BY <1>13 DEF SetUserGroupPricing, Edit
  <2>2. RowsFresh' /\ Limited' /\ WithinLimit'
    BY <2>1, Quiet
  <2> QED
    BY <1>1, <2>1, <2>2 DEF Inv, TypeOK
<1>14. ASSUME ToggleUser PROVE Inv'
  <2>1. enabled' = ~enabled /\ edits' = edits + 1 /\ UNCHANGED <<account, price, recharged, guessed, active, pc, request>>
    BY <1>14 DEF ToggleUser, Edit
  <2>2. RowsFresh' /\ Limited' /\ WithinLimit'
    BY <2>1, Quiet
  <2>3. enabled' \in BOOLEAN
    BY <2>1, Zenon
  <2> QED
    BY <1>1, <2>1, <2>2, <2>3 DEF Inv, TypeOK
<1>15. ASSUME UNCHANGED vars PROVE Inv'
  <2>1. RowsFresh' /\ Limited' /\ WithinLimit'
    BY <1>15, Quiet DEF vars
  <2> QED
    BY <1>1, <1>15, <2>1 DEF Inv, TypeOK, vars
<1> QED
  BY <1>2, <1>3, <1>4, <1>5, <1>6, <1>7, <1>8, <1>9, <1>10, <1>11, <1>12, <1>13, <1>14, <1>15
     DEF Next, RequestStep

-----------------------------------------------------------------------------
\* Rows and counters keep their shape (user_budget.go), for every instance.
THEOREM TypeCorrect == Spec => []TypeOK
<1>1. Inv => TypeOK
  BY DEF Inv
<1> QED
  BY InitInv, InvStep, <1>1, PTL DEF Spec

\* Requests of all gateways together stay within the limit of the user
\* (ReserveUserBudget), as long as it stands and no charge exceeds its hold.
THEOREM LimitHolds == Spec => []WithinLimit
<1>1. Inv => WithinLimit
  BY DEF Inv
<1> QED
  BY InitInv, InvStep, <1>1, PTL DEF Spec

\* The rows of a step: they stay, or one is admitted, or one unresolved row resolves.
LEMMA RowStep ==
  ASSUME Inv, [Next]_vars, NEW q \in Requests
  PROVE  /\ ledger[q].state \in {"settled", "released"} => ledger'[q] = ledger[q]
         /\ ledger[q].state # "none" => /\ ledger'[q].multiplier = ledger[q].multiplier
                                        /\ ledger'[q].reserved = ledger[q].reserved
                                        /\ ledger'[q].state # "none"
<1>1. CASE UNCHANGED ledger
  BY <1>1
<1>2. ASSUME NEW r \in Requests, NEW n \in Estimates, Reserve(r, n)
      PROVE  ledger[r].state = "none" /\ \A p \in Requests \ {r} : ledger'[p] = ledger[p]
  BY <1>2 DEF Reserve, Inv, RowsFresh, TypeOK
<1>3. ASSUME NEW r \in Requests, NEW t \in Nat \cup {NoTokens}, NEW d \in BOOLEAN, NEW m \in BOOLEAN,
             SettleTx(r, t, d, m)
      PROVE  /\ ledger[r].state \in {"pending", "unknown"}
             /\ \A p \in Requests \ {r} : ledger'[p] = ledger[p]
             /\ ledger'[r].state \in {"unknown", "settled", "released"}
             /\ ledger'[r].multiplier = ledger[r].multiplier /\ ledger'[r].reserved = ledger[r].reserved
  BY <1>3, SettleRow
<1>4. CASE \E r \in Requests, n \in Estimates : Reserve(r, n)
  BY <1>2, <1>4
<1>5. CASE \E r \in Requests, t \in Nat \cup {NoTokens}, d \in BOOLEAN, m \in BOOLEAN : SettleTx(r, t, d, m)
  BY <1>3, <1>5
<1>6. ASSUME NEW r \in Requests, Settle(r)
      PROVE  UNCHANGED ledger \/ \E t \in Nat \cup {NoTokens}, d, m \in BOOLEAN : SettleTx(r, t, d, m)
  <2>1. final[r].tokens \in Nat \cup {NoTokens} /\ final[r].dispatched \in BOOLEAN
    BY DEF Inv, TypeOK
  <2> QED
    BY <1>6, <2>1 DEF Settle
<1>7. ASSUME NEW g \in Gateways, NEW r \in Requests, NEW n \in Entries, Reconcile(g, r, n)
      PROVE  \E t \in Nat \cup {NoTokens}, d, m \in BOOLEAN : SettleTx(r, t, d, m)
  BY <1>7 DEF Reconcile
<1>8. \/ UNCHANGED ledger
      \/ \E r \in Requests, n \in Estimates : Reserve(r, n)
      \/ \E r \in Requests : Settle(r)
      \/ \E g \in Gateways, r \in Requests, n \in Entries : Reconcile(g, r, n)
  BY DEF Next, RequestStep, Track, Refuse, BeginAttempt, RecordAttempt, ObserveInvalid, Finish,
         Crash, SetUserBudget, SetUserGroupPricing, ToggleUser, vars
<1> QED
  BY <1>1, <1>4, <1>5, <1>6, <1>7, <1>8

\* A resolved request stays as it is and no row changes its price or its hold
\* (settleUserBudget).
THEOREM RowsStay == Spec => RowsResolveOnce
<1>1. Inv /\ [Next]_vars =>
      [\A r \in Requests :
        /\ ledger[r].state \in {"settled", "released"} => ledger'[r] = ledger[r]
        /\ ledger[r].state # "none" => /\ ledger'[r].multiplier = ledger[r].multiplier
                                       /\ ledger'[r].reserved = ledger[r].reserved
                                       /\ ledger'[r].state # "none"]_vars
  BY RowStep
<1> QED
  BY InitInv, InvStep, <1>1, PTL DEF Spec, RowsResolveOnce

-----------------------------------------------------------------------------
\* Every step keeps the processes' sets of running requests exact.
LEMMA ActiveStep == Inv /\ ActiveIsRunning /\ [Next]_vars => ActiveIsRunning'
<1> SUFFICES ASSUME Inv, ActiveIsRunning, [Next]_vars PROVE ActiveIsRunning'
  OBVIOUS
<1> USE DEF ActiveIsRunning, Running
<1>1. /\ active \in [Gateways -> SUBSET Requests] /\ home \in [Requests -> Gateways]
      /\ pc \in [Requests -> {"idle", "reserving", "running", "settling", "ended"}]
  BY DEF Inv, TypeOK
<1>2. ASSUME NEW r \in Requests, Track(r) PROVE ActiveIsRunning'
  BY <1>1, <1>2 DEF Track, Goto
<1>3. ASSUME NEW r \in Requests, Leave(r), home' = home PROVE ActiveIsRunning'
  BY <1>1, <1>3 DEF Leave, Goto
<1>4. ASSUME NEW r \in Requests, NEW l \in {"running", "settling"},
             pc[r] \in {"reserving", "running"}, Goto(r, l), UNCHANGED <<active, home>>
      PROVE  ActiveIsRunning'
  BY <1>1, <1>4 DEF Goto
<1>5. ASSUME NEW g \in Gateways, Crash(g) PROVE ActiveIsRunning'
  <2>1. /\ pc' = [r \in Requests |-> IF home[r] = g /\ Running(r) THEN "ended" ELSE pc[r]]
        /\ active' = [active EXCEPT ![g] = {}] /\ home' = home
    BY <1>5 DEF Crash
  <2> QED
    BY <1>1, <2>1
<1>6. CASE UNCHANGED <<active, pc, home>>
  BY <1>6
<1> QED
  BY <1>2, <1>3, <1>4, <1>5, <1>6
     DEF Next, RequestStep, Reserve, Refuse, BeginAttempt, RecordAttempt, ObserveInvalid, Finish,
         Settle, Reconcile, SetUserBudget, SetUserGroupPricing, ToggleUser, vars

\* A manual settlement is blocked by the running requests of the process and by no
\* other: refused, failed and crashed ones are out (admitUserBudget, settleUserBudget).
THEOREM OnlyRunningBlock == Spec => []ActiveIsRunning
<1>1. Init => ActiveIsRunning
  BY DEF Init, ActiveIsRunning, Running
<1>2. Spec => []Inv
  BY InitInv, InvStep, PTL DEF Spec
<1> QED
  BY <1>1, <1>2, ActiveStep, PTL DEF Spec

-----------------------------------------------------------------------------
(* The counters of the row are sums over the ledger *)

Holds == [r \in Requests |-> HeldUnits(r)]
Charges == [r \in Requests |-> ledger[r].charged]
Sums == reserved = SumOf(Holds, Requests) /\ used = SumOf(Charges, Requests)

\* The folds of the invariant are sums.
LEMMA FoldsAreSums == CountersMatchLedger <=> Sums
<1> DEFINE h == CHOOSE i : i = [s \in SUBSET Requests |-> IF s = {} THEN 0 ELSE HeldUnits(Some(s)) + i[s \ {Some(s)}]]
           c == CHOOSE i : i = [s \in SUBSET Requests |-> IF s = {} THEN 0 ELSE ledger[Some(s)].charged + i[s \ {Some(s)}]]
<1>1. MapThenSumSet(HeldUnits, Requests) = h[Requests]
  BY DEF MapThenSumSet, MapThenFoldSet, Some
<1>2. MapThenSumSet(LAMBDA r : ledger[r].charged, Requests) = c[Requests]
  BY DEF MapThenSumSet, MapThenFoldSet, Some
<1>3. ASSUME NEW s \in SUBSET Requests, s # {}
      PROVE  Holds[Some(s)] = HeldUnits(Some(s)) /\ Charges[Some(s)] = ledger[Some(s)].charged
  BY <1>3, SomeMember DEF Holds, Charges
<1>4. ASSUME NEW i
      PROVE  /\ Adds(i, Holds, Requests)
                  <=> i = [s \in SUBSET Requests |-> IF s = {} THEN 0 ELSE HeldUnits(Some(s)) + i[s \ {Some(s)}]]
             /\ Adds(i, Charges, Requests)
                  <=> i = [s \in SUBSET Requests |-> IF s = {} THEN 0 ELSE ledger[Some(s)].charged + i[s \ {Some(s)}]]
  <2> DEFINE h1 == [s \in SUBSET Requests |-> IF s = {} THEN 0 ELSE HeldUnits(Some(s)) + i[s \ {Some(s)}]]
             h2 == [s \in SUBSET Requests |-> IF s = {} THEN 0 ELSE Holds[Some(s)] + i[s \ {Some(s)}]]
             c1 == [s \in SUBSET Requests |-> IF s = {} THEN 0 ELSE ledger[Some(s)].charged + i[s \ {Some(s)}]]
             c2 == [s \in SUBSET Requests |-> IF s = {} THEN 0 ELSE Charges[Some(s)] + i[s \ {Some(s)}]]
  <2>1. h1 = h2
    BY <1>3
  <2>2. c1 = c2
    BY <1>3
  <2> QED
    BY <2>1, <2>2 DEF Adds
<1>5. Adds(h, Holds, Requests) /\ Adds(c, Charges, Requests)
  <2>1. (\E i : Adds(i, Holds, Requests)) /\ \E i : Adds(i, Charges, Requests)
    BY RequestsAssumption, AddsExists
  <2>2. \E i : i = [s \in SUBSET Requests |-> IF s = {} THEN 0 ELSE HeldUnits(Some(s)) + i[s \ {Some(s)}]]
    BY <1>4, <2>1
  <2>3. \E i : i = [s \in SUBSET Requests |-> IF s = {} THEN 0 ELSE ledger[Some(s)].charged + i[s \ {Some(s)}]]
    BY <1>4, <2>1
  <2>4. h = [s \in SUBSET Requests |-> IF s = {} THEN 0 ELSE HeldUnits(Some(s)) + h[s \ {Some(s)}]]
    BY <2>2
  <2>5. c = [s \in SUBSET Requests |-> IF s = {} THEN 0 ELSE ledger[Some(s)].charged + c[s \ {Some(s)}]]
    BY <2>3
  <2> HIDE DEF h, c
  <2> QED
    BY <1>4, <2>4, <2>5
<1> HIDE DEF h, c
<1>6. h[Requests] = SumOf(Holds, Requests) /\ c[Requests] = SumOf(Charges, Requests)
  BY <1>5, RequestsAssumption, SumUnique
<1> QED
  BY <1>1, <1>2, <1>6 DEF CountersMatchLedger, Sums

LEMMA AmountsType ==
  ASSUME TypeOK, NEW r \in Requests
  PROVE  /\ Holds[r] = (IF ledger[r].state \in {"pending", "unknown"} THEN ledger[r].reserved ELSE 0)
         /\ Charges[r] = ledger[r].charged
         /\ Holds[r] \in Int /\ Charges[r] \in Int
  BY DEF TypeOK, Row, Holds, Charges, HeldUnits, Held

\* One row changes, and the counters follow its hold and its charge.
LEMMA RowMoves ==
  ASSUME Inv, Sums, TypeOK', NEW r \in Requests, \A q \in Requests \ {r} : ledger'[q] = ledger[q],
         reserved' = reserved - Holds[r] + Holds'[r], used' = used - Charges[r] + Charges'[r]
  PROVE  Sums'
<1>1. \A q \in Requests : Holds[q] \in Int /\ Charges[q] \in Int
  BY AmountsType DEF Inv
<1>2. \A q \in Requests : Holds'[q] \in Int /\ Charges'[q] \in Int
  BY DEF TypeOK, Row, Holds, Charges, HeldUnits, Held
<1>3. \A q \in Requests \ {r} : Holds'[q] = Holds[q] /\ Charges'[q] = Charges[q]
  BY DEF Holds, Charges, HeldUnits, Held
<1>4. SumOf(Holds', Requests) = SumOf(Holds, Requests) - Holds[r] + Holds'[r]
  BY <1>1, <1>2, <1>3, RequestsAssumption, SumChange
<1>5. SumOf(Charges', Requests) = SumOf(Charges, Requests) - Charges[r] + Charges'[r]
  BY <1>1, <1>2, <1>3, RequestsAssumption, SumChange
<1> QED
  BY <1>4, <1>5 DEF Sums

LEMMA SumsStep == Inv /\ Sums /\ [Next]_vars => Sums'
<1> SUFFICES ASSUME Inv, Sums, [Next]_vars PROVE Sums'
  OBVIOUS
<1>0. TypeOK /\ TypeOK'
  BY InvStep DEF Inv
<1>1. CASE UNCHANGED <<used, reserved, ledger>>
  BY <1>1 DEF Sums, Holds, Charges, HeldUnits, Held
<1>2. ASSUME NEW r \in Requests, NEW n \in Estimates, Reserve(r, n) PROVE Sums'
  <2> DEFINE hold == Charge(n, price)
             row == [state |-> "pending", multiplier |-> price, reserved |-> hold, charged |-> 0, tokens |-> NoTokens]
  <2>1. hold \in Nat /\ reserved \in Int /\ used \in Int
    BY <1>0, ChargeNat, NumbersAssumption DEF TypeOK
  <2>2. /\ reserved' = reserved + hold /\ used' = used /\ ledger' = [ledger EXCEPT ![r] = row]
        /\ ledger[r].state = "none" /\ ledger[r].charged = 0
    BY <1>2 DEF Reserve, Inv, RowsFresh
  <2>3. row.state = "pending" /\ row.charged = 0 /\ row.reserved = hold
    OBVIOUS
  <2> HIDE DEF hold, row
  <2>4. ledger'[r] = row /\ \A q \in Requests \ {r} : ledger'[q] = ledger[q]
    BY <1>0, <2>2 DEF TypeOK
  <2>5. Holds[r] = 0 /\ Charges[r] = 0
    BY <1>0, <2>2, AmountsType
  <2>6. Holds'[r] = hold /\ Charges'[r] = 0
    BY <2>3, <2>4 DEF Holds, Charges, HeldUnits, Held
  <2> QED
    BY <1>0, <2>1, <2>2, <2>4, <2>5, <2>6, RowMoves
<1>3. ASSUME NEW r \in Requests, NEW t \in Nat \cup {NoTokens}, NEW d \in BOOLEAN, NEW m \in BOOLEAN,
             SettleTx(r, t, d, m)
      PROVE  Sums'
  <2>1. /\ ledger[r].state \in {"pending", "unknown"}
        /\ \A q \in Requests \ {r} : ledger'[q] = ledger[q]
        /\ ledger'[r].reserved = ledger[r].reserved
    BY <1>3, SettleRow
  <2>2. /\ ledger[r].charged = 0 /\ ledger[r].reserved \in Int /\ ledger'[r].charged \in Int
        /\ used \in Int /\ reserved \in Int
    BY <1>0, <2>1 DEF Inv, RowsFresh, TypeOK, Row
  <2>3. \/ UNCHANGED <<used, reserved>> /\ ledger'[r].charged = 0 /\ ledger'[r].state = "unknown"
        \/ /\ used' = used + ledger'[r].charged
           /\ reserved' = reserved - ledger[r].reserved
           /\ ledger'[r].state \in {"settled", "released"}
    <3>1. CASE ledger' = [ledger EXCEPT ![r].state = "unknown"] /\ UNCHANGED <<used, reserved>>
      BY <1>0, <2>2, <3>1 DEF TypeOK, Row
    <3>2. ASSUME NEW s \in {"settled", "released"}, NEW c, NEW n, Pay(r, s, c, n)
          PROVE  /\ used' = used + ledger'[r].charged
                 /\ reserved' = reserved - ledger[r].reserved
                 /\ ledger'[r].state \in {"settled", "released"}
      <4>1. ledger'[r] = [ledger[r] EXCEPT !.state = s, !.charged = c, !.tokens = n]
        BY <1>0, <3>2 DEF Pay, TypeOK
      <4>2. ledger'[r].state = s /\ ledger'[r].charged = c
        BY <1>0, <4>1 DEF TypeOK, Row
      <4> QED
        BY <3>2, <4>2 DEF Pay
    <3> QED
      BY <1>3, <3>1, <3>2 DEF SettleTx
  <2>4. Holds[r] = ledger[r].reserved /\ Charges[r] = 0
    BY <1>0, <2>1, <2>2, AmountsType
  <2>5. /\ Holds'[r] = (IF ledger'[r].state \in {"pending", "unknown"} THEN ledger[r].reserved ELSE 0)
        /\ Charges'[r] = ledger'[r].charged
    BY <2>1 DEF Holds, Charges, HeldUnits, Held
  <2>6. /\ reserved' = reserved - Holds[r] + Holds'[r]
        /\ used' = used - Charges[r] + Charges'[r]
    BY <2>2, <2>3, <2>4, <2>5
  <2> QED
    BY <1>0, <2>1, <2>6, RowMoves
<1>4. ASSUME NEW r \in Requests, Settle(r) PROVE Sums'
  <2>1. final[r].tokens \in Nat \cup {NoTokens} /\ final[r].dispatched \in BOOLEAN
    BY <1>0 DEF TypeOK
  <2> QED
    BY <1>1, <1>3, <1>4, <2>1 DEF Settle
<1>5. ASSUME NEW g \in Gateways, NEW r \in Requests, NEW n \in Entries, Reconcile(g, r, n) PROVE Sums'
  BY <1>3, <1>5 DEF Reconcile
<1>6. \/ UNCHANGED <<used, reserved, ledger>>
      \/ \E r \in Requests, n \in Estimates : Reserve(r, n)
      \/ \E r \in Requests : Settle(r)
      \/ \E g \in Gateways, r \in Requests, n \in Entries : Reconcile(g, r, n)
  BY DEF Next, RequestStep, Track, Refuse, BeginAttempt, RecordAttempt, ObserveInvalid, Finish,
         Crash, SetUserBudget, SetUserGroupPricing, ToggleUser, vars
<1> QED
  BY <1>1, <1>2, <1>4, <1>5, <1>6

LEMMA SumsInit == Init => Sums
<1> SUFFICES ASSUME Init PROVE Sums
  OBVIOUS
<1>1. \A r \in Requests : Holds[r] = 0 /\ Charges[r] = 0
  BY DEF Init, Holds, Charges, HeldUnits, Held, NoRow
<1> QED
  BY <1>1, RequestsAssumption, SumZero DEF Init, Sums

\* Whoever settles, whatever fails and whatever crashes, the two counters of the row
\* are the holds of the unresolved requests and the charges of the resolved ones
\* (user_budget.go 229-235 and 311-319).
THEOREM CountersExact == Spec => []CountersMatchLedger
<1>1. Spec => [](Inv /\ Sums)
  BY InitInv, InvStep, SumsInit, SumsStep, PTL DEF Spec
<1> QED
  BY <1>1, FoldsAreSums, PTL

-----------------------------------------------------------------------------
(* What a request knows of its usage *)

\* The usage a request counts is that of the attempts it has seen, what it settles with
\* is nothing or the total, and a row resolved by the request itself has ended it.
Knows(r) ==
  LET b == budget[r] IN
  /\ b.seenAttempts \subseteq DOMAIN usage[r]
  /\ ~b.usageUnknown => b.tokens = SumOf(usage[r], b.seenAttempts)
  /\ pc[r] \in {"idle", "reserving"} => usage[r] = <<>>
  /\ pc[r] = "settling" => /\ final[r].dispatched = (usage[r] # <<>>)
                           /\ final[r].tokens \in {NoTokens, Total(r)}
  /\ r \notin guessed /\ ledger[r].state \in {"settled", "released"} => pc[r] = "ended"
Observing == \A r \in Requests : Knows(r)

\* TruthfulCharge, request by request.
Charged(r) == r \notin guessed =>
  /\ ledger[r].state = "settled" => /\ ledger[r].tokens = Total(r)
                                    /\ ledger[r].charged * Scale >= Total(r) * ledger[r].multiplier
  /\ ledger[r].state = "released" => usage[r] = <<>>

Truthful == Inv /\ ActiveIsRunning /\ Observing /\ TruthfulCharge

LEMMA AmountsNat == Usages \subseteq Nat /\ Multipliers \cup {0} \subseteq Nat
<1>1. Usages \subseteq Nat /\ Multipliers \subseteq Nat
  BY NumbersAssumption
<1> QED
  BY <1>1

LEMMA TotalKept == ASSUME NEW q, usage'[q] = usage[q] PROVE Total(q)' = Total(q)
BY DEF Total, FoldSeq, FoldFunction, FoldFunctionOnSet, MapThenFoldSet

\* The total is a sum over the attempts, a natural number.
LEMMA TotalIsSum ==
  ASSUME NEW r, usage[r] \in Seq(Usages)
  PROVE  /\ Total(r) = SumOf(usage[r], DOMAIN usage[r]) /\ Total(r) \in Int
         /\ IsFiniteSet(DOMAIN usage[r]) /\ Cardinality(DOMAIN usage[r]) = Len(usage[r])
         /\ \A i \in DOMAIN usage[r] : usage[r][i] \in Int
<1> DEFINE u == usage[r]
           it == CHOOSE i : Adds(i, u, DOMAIN u)
<1>1. /\ DOMAIN u = 1..Len(u) /\ Len(u) \in Nat /\ IsFiniteSet(DOMAIN u) /\ Cardinality(DOMAIN u) = Len(u)
      /\ \A i \in DOMAIN u : u[i] \in Int
  <2>1. DOMAIN u = 1..Len(u) /\ Len(u) \in Nat
    BY LenProperties
  <2>2. \A i \in 1..Len(u) : u[i] \in Usages
    BY ElementOfSeq
  <2>3. IsFiniteSet(1..Len(u)) /\ Cardinality(1..Len(u)) = Len(u)
    BY <2>1, FS_Interval
  <2>5. \A x \in Usages : x \in Int
    BY AmountsNat
  <2> HIDE DEF u
  <2>4. \A i \in 1..Len(u) : u[i] \in Int
    BY <2>2, <2>5
  <2> QED
    BY <2>1, <2>3, <2>4
<1>2. Total(r) = it[DOMAIN u]
  BY DEF Total, FoldSeq, FoldFunction, FoldFunctionOnSet, MapThenFoldSet, Adds, Some
<1>3. Adds(it, u, DOMAIN u)
  BY <1>1, AddsExists
<1> HIDE DEF it
<1>4. it[DOMAIN u] = SumOf(u, DOMAIN u)
  BY <1>1, <1>3, SumUnique
<1>5. SumOf(u, DOMAIN u) \in Int
  BY <1>1, SumType
<1> QED
  BY <1>1, <1>2, <1>4, <1>5

\* A complete observation is the total: every attempt was seen, each once
\* (request_lifecycle.go 421-432).
LEMMA ObservedIsTotal ==
  ASSUME Inv, Observing, NEW r \in Requests, Observed(r)
  PROVE  budget[r].tokens = Total(r)
<1> DEFINE seen == budget[r].seenAttempts
           all == DOMAIN usage[r]
<1>1. usage[r] \in Seq(Usages)
  BY DEF Inv, TypeOK
<1>2. /\ Total(r) = SumOf(usage[r], all) /\ IsFiniteSet(all) /\ Cardinality(all) = Len(usage[r])
      /\ Len(usage[r]) \in Nat
  BY <1>1, TotalIsSum, LenProperties
<1>3. seen \subseteq all /\ budget[r].tokens = SumOf(usage[r], seen) /\ Cardinality(seen) >= Len(usage[r])
  BY DEF Observing, Knows, Observed
<1> HIDE DEF seen, all
<1>4. seen = all
  <2>1. IsFiniteSet(seen) /\ Cardinality(seen) <= Cardinality(all) /\ (Cardinality(seen) = Cardinality(all) => seen = all)
    BY <1>2, <1>3, FS_Subset
  <2>2. Cardinality(seen) \in Nat
    BY <2>1, FS_CardinalityType
  <2> QED
    BY <1>2, <1>3, <2>1, <2>2
<1> QED
  BY <1>2, <1>3, <1>4

\* A charge covers what it is for, rounding up (userTokenCharge).
LEMMA ChargeCovers ==
  ASSUME NEW t \in Nat, NEW m \in Nat
  PROVE  Charge(t, m) * Scale >= t * m
<1> DEFINE p == t * m
<1>1. p \in Nat
  OBVIOUS
<1>2. Scale \in Nat \ {0}
  BY NumbersAssumption
<1> HIDE DEF p
<1>3. ASSUME NEW n \in Nat, NEW s \in Nat \ {0} PROVE ((n + s - 1) \div s) * s >= n
  <2> DEFINE x == n + s - 1
             q == x \div s
  <2>1. x \in Nat /\ s \in Nat /\ s > 0
    OBVIOUS
  <2> HIDE DEF x
  <2>2. x = s * q + (x % s) /\ (x % s) \in 0..(s - 1) /\ q \in Nat
    BY <2>1
  <2> HIDE DEF q
  <2>3. s * q = q * s /\ s * q \in Nat
    BY <2>1, <2>2
  <2>4. q * s >= x - (s - 1)
    BY <2>1, <2>2, <2>3
  <2> QED
    BY <2>1, <2>3, <2>4 DEF x, q
<1> QED
  BY <1>1, <1>2, <1>3 DEF Charge, p

\* What one settlement writes into its row.
LEMMA SettledRow ==
  ASSUME Inv, NEW r \in Requests, NEW t \in Nat \cup {NoTokens}, NEW d \in BOOLEAN, NEW m \in BOOLEAN,
         SettleTx(r, t, d, m)
  PROVE  /\ ledger'[r].state = "released" => ~d
         /\ ledger'[r].state = "settled" =>
              /\ d /\ t \in Nat /\ ledger'[r].tokens = t
              /\ ledger'[r].charged * Scale >= t * ledger'[r].multiplier
<1>1. TypeOK /\ ledger[r] \in Row /\ ledger[r].multiplier \in Nat
  <2>1. TypeOK /\ ledger[r] \in Row
    BY DEF Inv, TypeOK
  <2>2. ledger[r].multiplier \in Multipliers \cup {0}
    BY <2>1 DEF Row
  <2> QED
    BY <2>1, <2>2, AmountsNat
<1>2. ASSUME NEW s, NEW c, NEW n, Pay(r, s, c, n)
      PROVE  /\ ledger'[r].state = s /\ ledger'[r].charged = c /\ ledger'[r].tokens = n
             /\ ledger'[r].multiplier = ledger[r].multiplier
  <2>1. ledger'[r] = [ledger[r] EXCEPT !.state = s, !.charged = c, !.tokens = n]
    BY <1>1, <1>2 DEF Pay, TypeOK
  <2> QED
    BY <1>1, <2>1 DEF Row
<1>3. CASE ~d /\ Pay(r, "released", 0, NoTokens)
  BY <1>2, <1>3
<1>4. CASE d /\ Chargeable(t, ledger[r].multiplier) /\ Pay(r, "settled", Charge(t, ledger[r].multiplier), t)
  <2>1. t \in Nat
    BY <1>4 DEF Chargeable, NoTokens
  <2>2. Charge(t, ledger[r].multiplier) * Scale >= t * ledger[r].multiplier
    BY <1>1, <2>1, ChargeCovers
  <2> QED
    BY <1>2, <1>4, <2>1, <2>2
<1>5. CASE ledger' = [ledger EXCEPT ![r].state = "unknown"]
  BY <1>1, <1>5 DEF TypeOK, Row
<1> QED
  BY <1>3, <1>4, <1>5 DEF SettleTx

\* Steps that change neither rows nor what a request knows keep Observing if they start
\* and end no request out of turn.
LEMMA StillTruthful ==
  ASSUME Truthful, UNCHANGED <<ledger, guessed, budget, usage, final>>,
         \A q \in Requests : /\ pc'[q] \in {"idle", "reserving"} => pc[q] \in {"idle", "reserving"}
                             /\ pc'[q] = "settling" => pc[q] = "settling"
                             /\ pc[q] = "ended" => pc'[q] = "ended"
  PROVE  Observing' /\ TruthfulCharge'
<1>1. \A q \in Requests : Total(q)' = Total(q)
  BY TotalKept
<1>2. Observing'
  BY <1>1 DEF Truthful, Observing, Knows, Inv, TypeOK
<1>3. TruthfulCharge'
  BY <1>1 DEF Truthful, TruthfulCharge
<1> QED
  BY <1>2, <1>3

\* A request that no step touches knows and is charged what it was.
LEMMA OnlyOne ==
  ASSUME Truthful, NEW r \in Requests, guessed \subseteq guessed',
         \A q \in Requests \ {r} : /\ ledger'[q] = ledger[q] /\ budget'[q] = budget[q] /\ usage'[q] = usage[q]
                                 /\ final'[q] = final[q] /\ pc'[q] = pc[q],
         Knows(r)', Charged(r)'
  PROVE  Observing' /\ TruthfulCharge'
<1>1. ASSUME NEW q \in Requests \ {r} PROVE Knows(q)' /\ Charged(q)'
  <2>1. Knows(q) /\ Charged(q)
    BY DEF Truthful, Observing, TruthfulCharge, Charged
  <2>2. Total(q)' = Total(q)
    BY TotalKept
  <2>3. Knows(q)'
    BY <2>1, <2>2 DEF Knows
  <2>4. Charged(q)'
    BY <2>1, <2>2 DEF Charged
  <2> QED
    BY <2>3, <2>4
<1>2. \A q \in Requests : Knows(q)' /\ Charged(q)'
  BY <1>1
<1> QED
  BY <1>2 DEF Observing, TruthfulCharge, Charged

\* While a request runs, only a guess of the administrator can have resolved its row.
LEMMA RunningUnresolved ==
  ASSUME Truthful, NEW r \in Requests, pc[r] # "ended"
  PROVE  Knows(r) /\ (r \in guessed \/ ledger[r].state \notin {"settled", "released"})
BY DEF Truthful, Observing, Knows

LEMMA ReserveTruthful ==
  ASSUME Truthful, NEW r \in Requests, NEW n \in Estimates, Reserve(r, n)
  PROVE  Observing' /\ TruthfulCharge'
<1> DEFINE hold == Charge(n, price)
           row == [state |-> "pending", multiplier |-> price, reserved |-> hold, charged |-> 0, tokens |-> NoTokens]
<1>1. TypeOK /\ Knows(r)
  BY DEF Truthful, Inv, Observing
<1>2. /\ ledger' = [ledger EXCEPT ![r] = row] /\ row.state = "pending" /\ pc[r] = "reserving"
      /\ UNCHANGED <<guessed, budget, usage, final>> /\ (Leave(r) \/ Goto(r, "running"))
  BY DEF Reserve
<1> HIDE DEF row, hold
<1>3. ledger'[r].state = "pending" /\ \A q \in Requests \ {r} : ledger'[q] = ledger[q]
  BY <1>1, <1>2 DEF TypeOK
<1>4. pc'[r] \in {"running", "ended"} /\ \A q \in Requests \ {r} : pc'[q] = pc[q]
  BY <1>1, <1>2 DEF TypeOK, Leave, Goto
<1>5. Knows(r)' /\ Charged(r)'
  BY <1>1, <1>2, <1>3, <1>4 DEF Knows, Charged
<1> QED
  BY <1>2, <1>3, <1>4, <1>5, OnlyOne

LEMMA BeginTruthful ==
  ASSUME Truthful, NEW r \in Requests, NEW n \in Usages, BeginAttempt(r, n)
  PROVE  Observing' /\ TruthfulCharge'
<1> DEFINE u == usage[r]
           w == Append(u, n)
           seen == budget[r].seenAttempts
<1>1. TypeOK /\ Knows(r) /\ (r \in guessed \/ ledger[r].state \notin {"settled", "released"})
  BY RunningUnresolved DEF Truthful, Inv, BeginAttempt
<1>2. /\ usage' = [usage EXCEPT ![r] = w] /\ pc[r] = "running" /\ UNCHANGED <<guessed, ledger, budget, pc, final>>
      /\ u \in Seq(Usages) /\ seen \subseteq DOMAIN u
  BY <1>1 DEF BeginAttempt, TypeOK, Knows
<1>3. /\ DOMAIN u \subseteq DOMAIN w /\ \A i \in DOMAIN u : w[i] = u[i]
  <2>1. DOMAIN u = 1..Len(u) /\ Len(u) \in Nat /\ DOMAIN w = 1..(Len(u) + 1) /\ \A i \in 1..Len(u) : w[i] = u[i]
    BY <1>2, AppendProperties, LenProperties
  <2> HIDE DEF u, w
  <2> QED
    BY <2>1
<1>4. IsFiniteSet(seen)
  BY <1>2, TotalIsSum, FS_Subset
<1>5. usage'[r] = w /\ \A q \in Requests \ {r} : usage'[q] = usage[q]
  BY <1>1, <1>2 DEF TypeOK
<1> HIDE DEF w
<1>6. SumOf(w, seen) = SumOf(u, seen)
  <2>1. \A i \in seen : w[i] = u[i]
    BY <1>2, <1>3
  <2> HIDE DEF seen, u
  <2> QED
    BY <1>4, <2>1, SumSame
<1>7. Knows(r)'
  BY <1>1, <1>2, <1>3, <1>5, <1>6 DEF Knows
<1>8. Charged(r)'
  BY <1>1, <1>2 DEF Charged
<1> QED
  BY <1>2, <1>5, <1>7, <1>8, OnlyOne

LEMMA RecordTruthful ==
  ASSUME Truthful, NEW r \in Requests, NEW i \in 1..MaxAttempts, NEW b \in BOOLEAN, RecordAttempt(r, i, b)
  PROVE  Observing' /\ TruthfulCharge'
<1> DEFINE o == budget[r]
           u == usage[r]
           seen == o.seenAttempts
           row == [tokens |-> IF b THEN o.tokens + u[i] ELSE o.tokens,
                   usageFound |-> o.usageFound \/ b,
                   usageUnknown |-> o.usageUnknown \/ ~b,
                   seenAttempts |-> seen \cup {i}]
<1>1. TypeOK /\ Knows(r) /\ (r \in guessed \/ ledger[r].state \notin {"settled", "released"})
  BY RunningUnresolved DEF Truthful, Inv, RecordAttempt
<1>2. /\ budget' = [budget EXCEPT ![r] = row] /\ pc[r] = "running" /\ i \in DOMAIN u /\ i \notin seen
      /\ UNCHANGED <<guessed, ledger, usage, pc, final>>
      /\ u \in Seq(Usages) /\ seen \subseteq DOMAIN u /\ (~o.usageUnknown => o.tokens = SumOf(u, seen))
  BY <1>1 DEF RecordAttempt, TypeOK, Knows
<1>3. /\ row.seenAttempts = seen \cup {i} /\ (~row.usageUnknown => b /\ ~o.usageUnknown)
      /\ (b => row.tokens = o.tokens + u[i])
  OBVIOUS
<1> HIDE DEF row
<1>4. budget'[r] = row /\ \A q \in Requests \ {r} : budget'[q] = budget[q]
  BY <1>1, <1>2 DEF TypeOK
<1>5. IsFiniteSet(seen) /\ (\A k \in DOMAIN u : u[k] \in Int)
  BY <1>2, TotalIsSum, FS_Subset
<1>6. SumOf(u, seen \cup {i}) = u[i] + SumOf(u, seen) /\ SumOf(u, seen) \in Int /\ u[i] \in Int
  <2>1. \A k \in seen \cup {i} : u[k] \in Int
    BY <1>2, <1>5
  <2> HIDE DEF seen, u
  <2>2. SumOf(u, seen \cup {i}) = u[i] + SumOf(u, seen)
    BY <1>2, <1>5, <2>1, SumAdd
  <2>3. SumOf(u, seen) \in Int
    BY <1>5, <2>1, SumType
  <2> QED
    BY <2>1, <2>2, <2>3
<1>7. ~row.usageUnknown => row.tokens = SumOf(u, row.seenAttempts)
  <2> HIDE DEF seen, u, o
  <2> QED
    BY <1>2, <1>3, <1>6
<1>8. Knows(r)'
  BY <1>1, <1>2, <1>3, <1>4, <1>7 DEF Knows
<1>9. Charged(r)'
  BY <1>1, <1>2 DEF Charged
<1> QED
  BY <1>2, <1>4, <1>8, <1>9, OnlyOne

LEMMA InvalidTruthful ==
  ASSUME Truthful, NEW r \in Requests, ObserveInvalid(r)
  PROVE  Observing' /\ TruthfulCharge'
<1>1. TypeOK /\ Knows(r) /\ (r \in guessed \/ ledger[r].state \notin {"settled", "released"})
  BY RunningUnresolved DEF Truthful, Inv, ObserveInvalid
<1>2. /\ budget' = [budget EXCEPT ![r].usageUnknown = TRUE] /\ pc[r] = "running"
      /\ UNCHANGED <<guessed, ledger, usage, pc, final>>
  BY DEF ObserveInvalid
<1>3. /\ budget'[r].usageUnknown /\ budget'[r].seenAttempts = budget[r].seenAttempts
      /\ \A q \in Requests \ {r} : budget'[q] = budget[q]
  BY <1>1, <1>2 DEF TypeOK
<1>4. Knows(r)' /\ Charged(r)'
  BY <1>1, <1>2, <1>3 DEF Knows, Charged
<1> QED
  BY <1>2, <1>3, <1>4, OnlyOne

LEMMA FinishTruthful ==
  ASSUME Truthful, NEW r \in Requests, Finish(r)
  PROVE  Observing' /\ TruthfulCharge'
<1> DEFINE row == [tokens |-> IF Observed(r) THEN budget[r].tokens ELSE NoTokens, dispatched |-> usage[r] # <<>>]
<1>1. TypeOK /\ Knows(r) /\ (r \in guessed \/ ledger[r].state \notin {"settled", "released"})
  BY RunningUnresolved DEF Truthful, Inv, Finish
<1>2. /\ final' = [final EXCEPT ![r] = row] /\ pc' = [pc EXCEPT ![r] = "settling"]
      /\ UNCHANGED <<guessed, ledger, usage, budget>>
  BY DEF Finish, Goto
<1>3. row.tokens \in {NoTokens, Total(r)} /\ row.dispatched = (usage[r] # <<>>)
  BY ObservedIsTotal DEF Truthful
<1> HIDE DEF row
<1>4. /\ final'[r] = row /\ pc'[r] = "settling"
      /\ \A q \in Requests \ {r} : final'[q] = final[q] /\ pc'[q] = pc[q]
  BY <1>1, <1>2 DEF TypeOK
<1>5. Total(r)' = Total(r)
  BY <1>2, TotalKept
<1>6. Knows(r)' /\ Charged(r)'
  BY <1>1, <1>2, <1>3, <1>4, <1>5 DEF Knows, Charged
<1> QED
  BY <1>2, <1>4, <1>6, OnlyOne

LEMMA SettleTruthful ==
  ASSUME Truthful, NEW r \in Requests, Settle(r)
  PROVE  Observing' /\ TruthfulCharge'
<1>1. TypeOK /\ Inv /\ Knows(r) /\ (r \in guessed \/ ledger[r].state \notin {"settled", "released"})
  BY RunningUnresolved DEF Truthful, Inv, Settle
<1>2. /\ pc[r] = "settling" /\ UNCHANGED <<guessed, usage, budget, final>>
      /\ Leave(r) /\ (UNCHANGED ledger \/ SettleTx(r, final[r].tokens, final[r].dispatched, FALSE))
  BY DEF Settle
<1>3. pc'[r] = "ended" /\ \A q \in Requests \ {r} : pc'[q] = pc[q]
  BY <1>1, <1>2 DEF TypeOK, Leave, Goto
<1>4. Total(r)' = Total(r)
  BY <1>2, TotalKept
<1>5. Knows(r)'
  BY <1>1, <1>2, <1>3 DEF Knows
<1>6. CASE UNCHANGED ledger
  <2>1. Charged(r)'
    BY <1>1, <1>2, <1>6 DEF Charged
  <2> QED
    BY <1>2, <1>3, <1>5, <1>6, <2>1, OnlyOne
<1>7. CASE SettleTx(r, final[r].tokens, final[r].dispatched, FALSE)
  <2> DEFINE t == final[r].tokens
             d == final[r].dispatched
  <2>1. /\ t \in Nat \cup {NoTokens} /\ d \in BOOLEAN
        /\ d = (usage[r] # <<>>) /\ t \in {NoTokens, Total(r)} /\ NoTokens \notin Nat
    BY <1>1, <1>2 DEF TypeOK, Knows, NoTokens
  <2>2. \A q \in Requests \ {r} : ledger'[q] = ledger[q]
    BY <1>1, <1>7, <2>1, SettleRow
  <2>3. /\ ledger'[r].state = "released" => ~d
        /\ ledger'[r].state = "settled" =>
             /\ d /\ t \in Nat /\ ledger'[r].tokens = t
             /\ ledger'[r].charged * Scale >= t * ledger'[r].multiplier
    BY <1>1, <1>7, <2>1, SettledRow
  <2> HIDE DEF t, d
  <2>4. Charged(r)'
    BY <1>2, <1>4, <2>1, <2>3 DEF Charged
  <2> QED
    BY <1>2, <1>3, <1>5, <2>2, <2>4, OnlyOne
<1> QED
  BY <1>2, <1>6, <1>7

\* By the procedure the request has ended everywhere and the total is what it consumed.
LEMMA ReconcileTruthful ==
  ASSUME Truthful, NEW g \in Gateways, NEW r \in Requests, NEW n \in Entries, Reconcile(g, r, n)
  PROVE  Observing' /\ TruthfulCharge'
<1>1. TypeOK /\ Inv /\ Knows(r) /\ ActiveIsRunning
  BY DEF Truthful, Inv, Observing
<1>2. /\ n \in Nat /\ SettleTx(r, n, TRUE, TRUE) /\ UNCHANGED <<usage, budget, final, pc>>
      /\ guessed' = IF ByProcedure(r, n) THEN guessed ELSE guessed \cup {r}
  BY DEF Reconcile
<1>3. /\ ledger[r].state \in {"pending", "unknown"} /\ \A q \in Requests \ {r} : ledger'[q] = ledger[q]
  BY <1>1, <1>2, SettleRow
<1>4. /\ ledger'[r].state # "released"
      /\ ledger'[r].state = "settled" =>
           ledger'[r].tokens = n /\ ledger'[r].charged * Scale >= n * ledger'[r].multiplier
  BY <1>1, <1>2, SettledRow
<1>5. Total(r)' = Total(r)
  BY <1>2, TotalKept
<1>6. r \notin guessed' => ByProcedure(r, n) /\ r \notin guessed
  BY <1>2
<1>7. r \notin guessed' => n = Total(r) /\ pc[r] = "ended"
  <2> SUFFICES ASSUME r \notin guessed' PROVE n = Total(r) /\ pc[r] = "ended"
    OBVIOUS
  <2>1. n = Total(r) /\ home[r] \in Gateways /\ r \notin active[home[r]]
    BY <1>1, <1>6 DEF ByProcedure, TypeOK
  <2>2. ~Running(r)
    BY <1>1, <2>1 DEF ActiveIsRunning
  <2>3. pc[r] # "idle"
    BY <1>1, <1>3 DEF Inv, RowsFresh
  <2> QED
    BY <1>1, <2>1, <2>2, <2>3 DEF Running, TypeOK
<1>8. Knows(r)'
  BY <1>1, <1>2, <1>5, <1>7 DEF Knows
<1>9. Charged(r)'
  BY <1>4, <1>5, <1>7 DEF Charged
<1>10. guessed \subseteq guessed'
  BY <1>2
<1> QED
  BY <1>2, <1>3, <1>8, <1>9, <1>10, OnlyOne

LEMMA TruthfulStep == Truthful /\ [Next]_vars => Truthful'
<1> SUFFICES ASSUME Truthful, [Next]_vars PROVE Truthful'
  OBVIOUS
<1>0. TypeOK /\ Inv /\ ActiveIsRunning /\ Inv' /\ ActiveIsRunning'
  BY InvStep, ActiveStep DEF Truthful, Inv
<1>1. ASSUME NEW r \in Requests, Track(r) \/ Refuse(r) PROVE Observing' /\ TruthfulCharge'
  <2>1. /\ UNCHANGED <<ledger, guessed, budget, usage, final>> /\ pc[r] \in {"idle", "reserving"}
        /\ pc' = [pc EXCEPT ![r] = "reserving"] \/ pc' = [pc EXCEPT ![r] = "ended"]
    BY <1>1 DEF Track, Refuse, Leave, Goto
  <2>2. pc'[r] \in {"reserving", "ended"} /\ \A q \in Requests \ {r} : pc'[q] = pc[q]
    BY <1>0, <2>1 DEF TypeOK
  <2> QED
    BY <2>1, <2>2, StillTruthful
<1>2. ASSUME NEW g \in Gateways, Crash(g) PROVE Observing' /\ TruthfulCharge'
  <2>1. /\ UNCHANGED <<ledger, guessed, budget, usage, final>>
        /\ \A q \in Requests : pc'[q] = IF home[q] = g /\ Running(q) THEN "ended" ELSE pc[q]
    BY <1>2 DEF Crash
  <2> QED
    BY <2>1, StillTruthful
<1>3. ASSUME UNCHANGED <<ledger, guessed, budget, usage, final, pc>> PROVE Observing' /\ TruthfulCharge'
  BY <1>3, StillTruthful
<1>4. ASSUME \/ \E l \in Limits, free \in BOOLEAN : SetUserBudget(l, free)
             \/ \E m \in Multipliers : SetUserGroupPricing(m)
             \/ ToggleUser
             \/ UNCHANGED vars
      PROVE  Observing' /\ TruthfulCharge'
  <2>1. UNCHANGED <<ledger, guessed, budget, usage, final, pc>>
    BY <1>4 DEF SetUserBudget, SetUserGroupPricing, ToggleUser, vars
  <2> QED
    BY <1>3, <2>1
<1>5. ASSUME NEW r \in Requests, RequestStep(r) PROVE Observing' /\ TruthfulCharge'
  BY <1>1, <1>5, ReserveTruthful, BeginTruthful, RecordTruthful, InvalidTruthful, FinishTruthful, SettleTruthful
     DEF RequestStep
<1>6. Observing' /\ TruthfulCharge'
  BY <1>2, <1>4, <1>5, ReconcileTruthful DEF Next
<1> QED
  BY <1>0, <1>6 DEF Truthful

LEMMA TruthfulInit == Init => Observing /\ TruthfulCharge
<1> SUFFICES ASSUME Init PROVE Observing /\ TruthfulCharge
  OBVIOUS
<1>1. ASSUME NEW r \in Requests PROVE Knows(r)
  <2>1. /\ budget[r] = Fresh /\ usage[r] = <<>> /\ pc[r] = "idle" /\ ledger[r].state = "none"
    BY DEF Init, NoRow
  <2>2. SumOf(usage[r], {}) = 0
    BY SumEmpty
  <2> QED
    BY <2>1, <2>2 DEF Knows, Fresh
<1>2. TruthfulCharge
  BY DEF Init, TruthfulCharge, NoRow
<1> QED
  BY <1>1, <1>2 DEF Observing

\* Whatever the attempts report, in whatever order, and whichever process dies, a request
\* that nobody guessed for is charged for everything its attempts consumed, and one that
\* was released made none (handler/proxy/user_budget.go 270-275).
THEOREM ChargeTruthful == Spec => []TruthfulCharge
<1>1. Init => ActiveIsRunning
  BY DEF Init, ActiveIsRunning, Running
<1>2. Init => Truthful
  BY <1>1, InitInv, TruthfulInit DEF Truthful
<1>3. Truthful => TruthfulCharge
  BY DEF Truthful
<1> QED
  BY <1>2, <1>3, TruthfulStep, PTL DEF Spec
=============================================================================
