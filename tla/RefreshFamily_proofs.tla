------------------------ MODULE RefreshFamily_proofs ------------------------
(***************************************************************************)
(* Proofs about RefreshFamily, for any attempts, records and tokens. The   *)
(* argument does not use the leases: the compare-and-set of currentTx on   *)
(* state and attempt is enough, because an intent carries the nonce of the *)
(* one attempt that may end it.                                            *)
(***************************************************************************)
EXTENDS RefreshFamily, TLAPS

\* The intent of the attempt is the one its family records.
Open(a) == /\ fam[loc[a].id].state = "refreshing" /\ fam[loc[a].id].attempt = a
           /\ fam[loc[a].id].current = loc[a].current

\* A family has one token that is not retired, its current one. A token without
\* an alias row is the root of a family that nothing has happened to.
Chains ==
  /\ retired \subseteq known /\ consumed \subseteq known
  /\ \A t \in known : alias[t] \in known
  /\ \A t \in Tokens \ known : alias[t] = t /\ fam[t].state = "active"
  /\ \A t \in Tokens : t \in retired <=> fam[alias[t]].current # t

Sent == {"exchange", "refused", "doubt"}
Publishing == {"publish", "lookup"}
InFamily == {"load", "winner", "begin", "cleanup"} \cup Sent \cup Publishing

\* What an attempt knows at each label.
Knows(a) ==
  /\ pc[a] # "resume"
  /\ pc[a] \in InFamily \cup {"famLease"} => snap[a].rt \in known
  /\ pc[a] \in InFamily => alias[snap[a].rt] = loc[a].id
  /\ a \in reuse => pc[a] \in Publishing \cup {"cleanup", "releaseFamily", "releaseRecord"}
  /\ pc[a] \in {"winner", "begin"} => loc[a].state = "active"
  /\ pc[a] \in Publishing \cup {"cleanup"} /\ a \in reuse => loc[a].state = "active"
  /\ pc[a] = "lookup" => tries[a] # 0
  /\ pc[a] = "cleanup" /\ loc[a].state = "refreshing" => loc[a].attempt = a /\ loc[a].current = snap[a].rt

\* What an attempt that committed an intent relies on. Until it has tried to tell
\* the outcome its intent is open, and while it is open nobody else consumes the token.
Spending(a) ==
  /\ pc[a] \in Sent => Open(a)
  /\ pc[a] = "publish" /\ a \notin reuse /\ tries[a] = 0 => Open(a)
  /\ pc[a] \in Sent \/ (pc[a] \in Publishing /\ a \notin reuse) =>
       loc[a].attempt = a /\ loc[a].state = "refreshing" /\ loc[a].current = snap[a].rt
  /\ pc[a] \in {"exchange", "refused"} => snap[a].rt \notin consumed
  /\ pc[a] \in Publishing /\ a \notin reuse =>
       IF got[a].rt = snap[a].rt THEN Open(a) => snap[a].rt \notin consumed
                                 ELSE snap[a].rt \in consumed

Inv == /\ TypeOK /\ Chains /\ JournalKnowsConsumed
       /\ \A a \in Attempts : Knows(a) /\ Spending(a)

-----------------------------------------------------------------------------
(* Types *)

USE DEF store, journal, leases, issuer, input, locals

LEMMA TypeInit == Init => TypeOK
  BY TokenAssumption, ModeAssumption
     DEF Init, TypeOK, NoRow, NewFamily, NoLocal, Row, Family, Local, States

\* A change of state and attempt keeps the shape of the family row.
LEMMA MarkType ==
  ASSUME TypeOK, NEW a \in Attempts, NEW s \in States, NEW n \in Attempts \cup {NoAttempt}, Mark(a, s, n)
  PROVE  fam' \in [Tokens -> Family]
  BY DEF TypeOK, Mark, Family, Local

\* So does the same change of the value in memory.
LEMMA LocalType ==
  ASSUME loc \in [Attempts -> Local],
         NEW a \in Attempts, NEW s \in States, NEW n \in Attempts \cup {NoAttempt},
         loc' = [loc EXCEPT ![a].state = s, ![a].attempt = n]
  PROVE  loc' \in [Attempts -> Local]
  BY DEF Local

LEMMA FailType ==
  ASSUME TypeOK, NEW a \in Attempts, NEW s \in States, NEW n \in Attempts \cup {NoAttempt}, Fail(a, s, n)
  PROVE  fam' \in [Tokens -> Family] /\ loc' \in [Attempts -> Local]
<1>1. CASE UNCHANGED <<fam, loc>>
  BY <1>1 DEF TypeOK
<1>2. CASE Mark(a, s, n) /\ loc' = loc
  BY <1>2, MarkType DEF TypeOK
<1>3. CASE Mark(a, s, n) /\ loc' = [loc EXCEPT ![a].state = s, ![a].attempt = n]
  BY <1>3, MarkType, LocalType DEF TypeOK
<1> QED
  BY <1>1, <1>2, <1>3 DEF Fail

\* Every step keeps the shape of the rows and of the values in memory.
LEMMA TypeStep == TypeOK /\ [Next]_vars => TypeOK'
<1> SUFFICES ASSUME TypeOK, [Next]_vars PROVE TypeOK'
  OBVIOUS
<1> USE TokenAssumption, ModeAssumption DEF TypeOK, States
<1>1. ASSUME NEW a \in Attempts, NEW r \in Records, NEW f \in BOOLEAN, Start(a, r, f) PROVE TypeOK'
  BY <1>1 DEF Start, Goto
<1>2. ASSUME NEW a \in Attempts, AcquireRecord(a) PROVE TypeOK'
  BY <1>2 DEF AcquireRecord, Goto
<1>3. ASSUME NEW a \in Attempts, AcquireRecordFails(a) PROVE TypeOK'
  <2>1. NoRow \in Row /\ NoLocal \in Local
    BY DEF NoRow, NoLocal, Row, Local
  <2>2. recLease' \in [Records -> Attempts \cup {NoAttempt}]
    BY <1>3 DEF AcquireRecordFails
  <2>3. /\ pc' = [pc EXCEPT ![a] = "end"] /\ target' = [target EXCEPT ![a] = NoRecord]
        /\ snap' = [snap EXCEPT ![a] = NoRow] /\ loc' = [loc EXCEPT ![a] = NoLocal]
        /\ got' = [got EXCEPT ![a] = NoRow] /\ tries' = [tries EXCEPT ![a] = 0]
        /\ forced' \subseteq forced /\ aged' \subseteq aged /\ reuse' \subseteq reuse
        /\ UNCHANGED <<store, journal, famLease, issuer>>
    BY <1>3 DEF AcquireRecordFails, End, Goto
  <2> QED
    BY <2>1, <2>2, <2>3
<1>4. ASSUME NEW a \in Attempts, Reload(a) PROVE TypeOK'
  BY <1>4 DEF Reload, Goto
<1>5. ASSUME NEW a \in Attempts, RegisterAlias(a) PROVE TypeOK'
  BY <1>5 DEF RegisterAlias, Goto, Row
<1>6. ASSUME NEW a \in Attempts, AcquireFamily(a) PROVE TypeOK'
  <2> DEFINE id == alias[snap[a].rt]
  <2>1. id \in Tokens
    BY DEF Row
  <2> HIDE DEF id
  <2>2. famLease' \in [Tokens -> Attempts \cup {NoAttempt}]
    BY <1>6, <2>1 DEF AcquireFamily, id
  <2>3. loc' = loc \/ loc' = [loc EXCEPT ![a].id = id]
    BY <1>6 DEF AcquireFamily, id
  <2>4. ASSUME NEW b \in Attempts PROVE [loc[b] EXCEPT !.id = id] \in Local
    BY <2>1 DEF Local
  <2>5. loc \in [Attempts -> Local]
    OBVIOUS
  <2>6. loc' \in [Attempts -> Local]
    BY <2>3, <2>4, <2>5
  <2> QED
    BY <1>6, <2>2, <2>6 DEF AcquireFamily, Goto
<1>7. ASSUME NEW a \in Attempts, LoadFamily(a) PROVE TypeOK'
  <2> DEFINE id == alias[snap[a].rt]
             f == fam[id]
             row == [id |-> id, current |-> f.current, generation |-> f.generation, state |-> f.state,
                     attempt |-> f.attempt, result |-> f.result]
  <2>2. id \in Tokens /\ f \in Family
    BY DEF Row
  <2>3. loc' = [loc EXCEPT ![a] = row]
    BY <1>7 DEF LoadFamily
  <2> HIDE DEF id, f
  <2>4. /\ f.current \in Tokens /\ f.generation \in Nat /\ f.state \in States
        /\ f.attempt \in Attempts \cup {NoAttempt} /\ f.result \in Records \cup {NoRecord}
    BY <2>2 DEF Family
  <2>5. row \in Local
    BY <2>2, <2>4 DEF Local
  <2> HIDE DEF row
  <2>6. loc' \in [Attempts -> Local]
    BY <2>3, <2>5
  <2> QED
    BY <1>7, <2>6 DEF LoadFamily, Goto
<1>8. ASSUME NEW a \in Attempts, ResumeReusable(a) PROVE TypeOK'
  <2>1. fam' = fam \/ Mark(a, "active", NoAttempt)
    BY <1>8 DEF ResumeReusable
  <2>2. loc' = loc \/ loc' = [loc EXCEPT ![a].state = "active", ![a].attempt = NoAttempt]
    BY <1>8 DEF ResumeReusable
  <2>3. fam' \in [Tokens -> Family] /\ loc' \in [Attempts -> Local]
    BY <2>1, <2>2, MarkType, LocalType
  <2> QED
    BY <1>8, <2>3 DEF ResumeReusable, Goto
<1>9. ASSUME NEW a \in Attempts, Winner(a) PROVE TypeOK'
  <2> DEFINE row == rec[loc[a].result]
  <2>1. CASE got' = got /\ reuse' = reuse
    BY <1>9, <2>1 DEF Winner, Goto
  <2>2. CASE loc[a].result # NoRecord /\ got' = [got EXCEPT ![a] = row] /\ reuse' = reuse \cup {a}
    <3>1. row \in Row
      BY <2>2 DEF Local
    <3> HIDE DEF row
    <3>2. got' \in [Attempts -> Row]
      BY <2>2, <3>1
    <3> QED
      BY <1>9, <2>2, <3>2 DEF Winner, Goto
  <2> QED
    BY <1>9, <2>1, <2>2 DEF Winner
<1>10. ASSUME NEW a \in Attempts, Begin(a) PROVE TypeOK'
  <2>1. fam' = fam \/ Mark(a, "refreshing", a)
    BY <1>10 DEF Begin
  <2>2. loc' = loc \/ loc' = [loc EXCEPT ![a].state = "refreshing", ![a].attempt = a]
    BY <1>10 DEF Begin
  <2>3. fam' \in [Tokens -> Family] /\ loc' \in [Attempts -> Local]
    BY <2>1, <2>2, MarkType, LocalType
  <2> QED
    BY <1>10, <2>3 DEF Begin, Goto
<1>11. ASSUME NEW a \in Attempts, Exchange(a) PROVE TypeOK'
  <2> DEFINE row(t) == [rt |-> t, at |-> nextAt]
  <2>1. snap[a].rt \in Tokens
    BY DEF Row
  <2>2. \A t \in Tokens : row(t) \in Row
    BY DEF Row
  <2> HIDE DEF row
  <2>3. got' = got \/ \E t \in Tokens : got' = [got EXCEPT ![a] = row(t)]
    BY <1>11, <2>1 DEF Exchange, Refused, Answered, Unanswered, row
  <2>4. got' \in [Attempts -> Row]
    BY <2>2, <2>3
  <2>5. consumed' \subseteq Tokens /\ issued' \subseteq Tokens /\ nextAt' \in Nat
    BY <1>11, <2>1 DEF Exchange, Refused, Answered, Unanswered
  <2>6. pc' \in [Attempts -> {"idle", "record", "reload", "family", "famLease", "load", "resume",
                             "winner", "begin", "exchange", "refused", "doubt", "publish",
                             "lookup", "cleanup", "releaseFamily", "releaseRecord", "end"}]
    BY <1>11 DEF Exchange, Refused, Answered, Unanswered, Goto
  <2> QED
    BY <1>11, <2>4, <2>5, <2>6 DEF Exchange
<1>12. ASSUME NEW a \in Attempts, FailDefinite(a) PROVE TypeOK'
  <2>1. Fail(a, "active", NoAttempt) /\ NoAttempt \in Attempts \cup {NoAttempt}
    BY <1>12 DEF FailDefinite, Local
  <2>2. fam' \in [Tokens -> Family] /\ loc' \in [Attempts -> Local]
    BY <2>1, FailType
  <2> QED
    BY <1>12, <2>2 DEF FailDefinite, Goto
<1>13. ASSUME NEW a \in Attempts, FailUncertain(a) PROVE TypeOK'
  <2>1. Fail(a, "uncertain", loc[a].attempt) /\ loc[a].attempt \in Attempts \cup {NoAttempt}
    BY <1>13 DEF FailUncertain, Local
  <2>2. fam' \in [Tokens -> Family] /\ loc' \in [Attempts -> Local]
    BY <2>1, FailType
  <2> QED
    BY <1>13, <2>2 DEF FailUncertain, Goto
<1>14. ASSUME NEW a \in Attempts, Publish(a) PROVE TypeOK'
  <2>1. fam' \in [Tokens -> Family] /\ known' \subseteq Tokens /\ retired' \subseteq Tokens /\ alias' \in [Tokens -> Tokens]
    <3> DEFINE row == [current |-> got[a].rt, generation |-> loc[a].generation + 1, state |-> "active",
                       attempt |-> a, result |-> target[a]]
    <3>1. CASE FinishTx(a)
      <4>1. row \in Family /\ got[a].rt \in Tokens /\ snap[a].rt \in Tokens /\ loc[a].id \in Tokens
        BY DEF Family, Local, Row
      <4>2. fam' = [fam EXCEPT ![loc[a].id] = row]
        BY <3>1 DEF FinishTx
      <4> HIDE DEF row
      <4>3. fam' \in [Tokens -> Family]
        BY <4>1, <4>2
      <4> QED
        BY <3>1, <4>1, <4>3 DEF FinishTx
    <3>2. CASE PointResultTx(a)
      <4>1. fam \in [Tokens -> Family] /\ loc[a].id \in Tokens /\ target[a] \in Records \cup {NoRecord}
        BY DEF Local
      <4>2. fam' \in [Tokens -> Family]
        BY <3>2, <4>1 DEF PointResultTx, Family
      <4> QED
        BY <3>2, <4>2 DEF PointResultTx
    <3>3. CASE UNCHANGED journal
      BY <3>3
    <3> QED
      BY <1>14, <3>1, <3>2, <3>3 DEF Publish
  <2>2. rec' \in [Records -> Row] /\ seen' \subseteq Tokens /\ edited' \subseteq Tokens
    BY <1>14 DEF Publish, WriteRecord, Row
  <2>3. loc' \in [Attempts -> Local]
    <3>1. loc' = loc \/ loc' = [loc EXCEPT ![a].state = "active"]
      BY <1>14 DEF Publish
    <3>2. CASE loc' = [loc EXCEPT ![a].state = "active"]
      <4> DEFINE row == [loc[a] EXCEPT !.state = "active"]
      <4>1. row \in Local
        BY DEF Local
      <4>2. loc' = [loc EXCEPT ![a] = row]
        BY <3>2
      <4> HIDE DEF row
      <4> QED
        BY <4>1, <4>2
    <3> QED
      BY <3>1, <3>2
  <2>4. /\ pc' = [pc EXCEPT ![a] = "releaseFamily"] \/ pc' = [pc EXCEPT ![a] = "lookup"]
        /\ tries' = [tries EXCEPT ![a] = @ + 1]
        /\ UNCHANGED <<enabled, expired, nextAt, imported, imports, leases, issuer, input, got, aged, reuse>>
    BY <1>14 DEF Publish, Goto
  <2>5. pc' \in [Attempts -> {"idle", "record", "reload", "family", "famLease", "load", "resume",
                             "winner", "begin", "exchange", "refused", "doubt", "publish",
                             "lookup", "cleanup", "releaseFamily", "releaseRecord", "end"}]
    BY <2>4
  <2>6. tries' \in [Attempts -> Nat]
    BY <2>4
  <2>7. /\ enabled' \subseteq Records /\ expired' \subseteq Nat /\ nextAt' \in Nat /\ imports' \in Nat
        /\ got' \in [Attempts -> Row] /\ aged' \subseteq Attempts /\ reuse' \subseteq Attempts
    BY <2>4
  <2> QED
    BY <2>1, <2>2, <2>3, <2>4, <2>5, <2>6, <2>7
<1>15. ASSUME NEW a \in Attempts, Lookup(a) PROVE TypeOK'
  BY <1>15 DEF Lookup, Goto, Local
<1>16. ASSUME NEW a \in Attempts, MarkUncertain(a) PROVE TypeOK'
  <2>1. loc[a].attempt \in Attempts \cup {NoAttempt}
    BY DEF Local
  <2>2. fam' \in [Tokens -> Family] /\ loc' \in [Attempts -> Local]
    BY <1>16, <2>1, FailType DEF MarkUncertain
  <2> QED
    BY <1>16, <2>2 DEF MarkUncertain, Goto
<1>17. ASSUME NEW a \in Attempts, ReleaseFamily(a) PROVE TypeOK'
  BY <1>17 DEF ReleaseFamily, Goto
<1>18. ASSUME NEW a \in Attempts, ReleaseRecord(a) PROVE TypeOK'
  BY <1>18 DEF ReleaseRecord, Goto, End, NoRow, NoLocal, Row, Local
<1>19. ASSUME NEW a \in Attempts, Crash(a) PROVE TypeOK'
  BY <1>19 DEF Crash, End, Goto, NoRow, NoLocal, Row, Local
<1>20. ASSUME ExpireLease PROVE TypeOK'
  BY <1>20 DEF ExpireLease
<1>21. ASSUME NEW r \in Records, ExpireAccess(r) PROVE TypeOK'
  <2>1. rec[r].at \in Nat
    BY DEF Row
  <2> QED
    BY <1>21, <2>1 DEF ExpireAccess
<1>22. ASSUME NEW r \in Records, Toggle(r) PROVE TypeOK'
  BY <1>22 DEF Toggle
<1>23. ASSUME NEW r \in Records, NEW t \in Tokens, Import(r, t) PROVE TypeOK'
  BY <1>23 DEF Import, Row
<1>24. CASE UNCHANGED vars
  BY <1>24 DEF vars
<1> QED
  BY <1>1, <1>2, <1>3, <1>4, <1>5, <1>6, <1>7, <1>8, <1>9, <1>10, <1>11, <1>12, <1>13, <1>14, <1>15, <1>16, <1>17, <1>18, <1>19, <1>20, <1>21, <1>22, <1>23, <1>24 DEF Next, Step, Environment

-----------------------------------------------------------------------------
(* What a step of one attempt leaves to the others *)

\* The variables of attempt b are not touched.
Apart(b) == /\ pc'[b] = pc[b] /\ snap'[b] = snap[b] /\ loc'[b] = loc[b]
            /\ got'[b] = got[b] /\ tries'[b] = tries[b]
            /\ b \in reuse' <=> b \in reuse

\* The family row of attempt a is the only one that changes.
Moves(a, state, attempt) ==
  /\ \A t \in Tokens \ {loc[a].id} : fam'[t] = fam[t]
  /\ fam'[loc[a].id].state = state
  /\ fam'[loc[a].id].attempt = attempt

LEMMA MarkMoves ==
  ASSUME TypeOK, NEW a \in Attempts, NEW s, NEW n, Mark(a, s, n)
  PROVE  Moves(a, s, n) /\ fam'[loc[a].id].current = fam[loc[a].id].current
  BY DEF TypeOK, Mark, Moves, Local, Family

LEMMA LocalMarked ==
  ASSUME loc \in [Attempts -> Local], NEW a \in Attempts, NEW s, NEW n,
         loc' = [loc EXCEPT ![a].state = s, ![a].attempt = n]
  PROVE  /\ loc'[a].state = s /\ loc'[a].attempt = n
         /\ loc'[a].id = loc[a].id /\ loc'[a].current = loc[a].current
  BY DEF Local

\* A compare-and-set by one attempt neither opens nor closes the intent of another.
LEMMA IntentsApart ==
  ASSUME NEW a \in Attempts, NEW b \in Attempts, a # b, Apart(b), TypeOK,
         NEW state, CurrentTx(a, state),
         state = "active" \/ loc[a].attempt = a,
         NEW next, NEW n, Moves(a, next, n), next = "refreshing" => n = a
  PROVE  Open(b)' <=> Open(b)
<1>1. CASE loc[b].id = loc[a].id
  BY <1>1 DEF Open, Apart, CurrentTx, Moves
<1>2. CASE loc[b].id # loc[a].id
  <2>1. loc[b].id \in Tokens
    BY DEF TypeOK, Local
  <2> QED
    BY <1>2, <2>1 DEF Open, Apart, Moves
<1> QED
  BY <1>1, <1>2

\* What an attempt knows survives the steps of the others.
LEMMA OthersKeep ==
  ASSUME NEW b \in Attempts, Knows(b), Spending(b), Apart(b), TypeOK,
         known \subseteq known', \A t \in known : alias'[t] = alias[t],
         Open(b)' <=> Open(b),
         consumed \subseteq consumed', pc[b] \in InFamily /\ Open(b) => (snap[b].rt \in consumed' <=> snap[b].rt \in consumed)
  PROVE  Knows(b)' /\ Spending(b)'
<1>1. Knows(b)'
  BY DEF Knows, Apart, InFamily, Sent, Publishing
<1>2. Spending(b)'
  <2>1. CASE pc[b] \in Sent \cup Publishing
    <3>1. pc[b] \in InFamily
      BY <2>1 DEF InFamily
    <3> QED
      BY <2>1, <3>1 DEF Spending, Apart, Sent, Publishing
  <2>2. CASE pc[b] \notin Sent \cup Publishing
    BY <2>2 DEF Spending, Apart, Sent, Publishing
  <2> QED
    BY <2>1, <2>2
<1> QED
  BY <1>1, <1>2

\* A step that leaves the journal and the issuer alone only has to look at itself.
LEMMA Quiet ==
  ASSUME Inv, TypeOK', NEW a \in Attempts, UNCHANGED <<journal, consumed>>,
         \A b \in Attempts \ {a} : Apart(b), Knows(a)', Spending(a)'
  PROVE  Inv'
<1>1. Chains' /\ JournalKnowsConsumed'
  BY DEF Inv, Chains, JournalKnowsConsumed
<1>2. ASSUME NEW b \in Attempts, b # a PROVE Knows(b)' /\ Spending(b)'
  <2>1. Apart(b) /\ Knows(b) /\ Spending(b) /\ TypeOK
    BY <1>2 DEF Inv
  <2>2. Open(b)' <=> Open(b)
    BY <2>1 DEF Open, Apart
  <2> QED
    BY <2>1, <2>2, OthersKeep
<1> QED
  BY <1>1, <1>2 DEF Inv

\* A compare-and-set that keeps the current token and does not reopen the family.
LEMMA MovesKeep ==
  ASSUME Inv, TypeOK', NEW a \in Attempts, UNCHANGED <<known, alias, retired, consumed>>,
         \A b \in Attempts \ {a} : Apart(b), Knows(a)', Spending(a)',
         pc[a] \in InFamily,
         NEW state, CurrentTx(a, state), state = "active" \/ loc[a].attempt = a,
         NEW next, NEW n, Moves(a, next, n), next = "refreshing" => n = a,
         fam'[loc[a].id].current = fam[loc[a].id].current,
         next = "active" => state = "active" \/ loc[a].current \notin consumed
  PROVE  Inv'
<1>1. TypeOK /\ Chains /\ JournalKnowsConsumed /\ Knows(a)
  BY DEF Inv
<1>2. loc[a].id \in known /\ known \subseteq Tokens
  BY <1>1 DEF Chains, Knows, TypeOK
<1>3. Chains'
  <2>1. \A t \in Tokens : fam'[t].current = fam[t].current
    BY <1>2 DEF Moves
  <2>2. \A t \in Tokens \ known : fam'[t] = fam[t]
    BY <1>2 DEF Moves
  <2>3. \A t \in Tokens : alias[t] \in Tokens
    BY <1>1 DEF TypeOK
  <2> QED
    BY <1>1, <2>1, <2>2, <2>3 DEF Chains
<1>4. JournalKnowsConsumed'
  <2> SUFFICES ASSUME NEW t \in consumed, t \notin retired PROVE fam'[alias[t]].state # "active"
    BY DEF JournalKnowsConsumed
  <2>1. t \in Tokens /\ alias[t] \in Tokens /\ fam[alias[t]].current = t /\ fam[alias[t]].state # "active"
    BY <1>1 DEF TypeOK, Chains, JournalKnowsConsumed
  <2>2. CASE alias[t] = loc[a].id
    BY <2>1, <2>2 DEF Moves, CurrentTx
  <2>3. CASE alias[t] # loc[a].id
    BY <2>1, <2>3 DEF Moves
  <2> QED
    BY <2>2, <2>3
<1>5. ASSUME NEW b \in Attempts, b # a PROVE Knows(b)' /\ Spending(b)'
  <2>1. Apart(b) /\ Knows(b) /\ Spending(b)
    BY <1>5 DEF Inv
  <2>2. Open(b)' <=> Open(b)
    BY <1>1, <1>5, <2>1, IntentsApart
  <2> QED
    BY <1>1, <2>1, <2>2, OthersKeep
<1> QED
  BY <1>3, <1>4, <1>5 DEF Inv

-----------------------------------------------------------------------------
(* The invariant is inductive for consumable tokens *)

\* Every token in a record or in memory was issued.
Issued == /\ FirstToken \in issued
          /\ \A r \in Records : rec[r].rt \in issued
          /\ \A a \in Attempts : snap[a].rt \in issued /\ got[a].rt \in issued

LEMMA IssuedStep == ASSUME TypeOK, Issued, [Next]_vars PROVE Issued'
<1> USE DEF TypeOK, Issued
<1>1. ASSUME NEW a \in Attempts, NEW r \in Records, NEW f \in BOOLEAN, Start(a, r, f) PROVE Issued'
  BY <1>1 DEF Start
<1>2. ASSUME NEW a \in Attempts, End(a), UNCHANGED <<rec, issued>> PROVE Issued'
  BY <1>2 DEF End, NoRow
<1>3. ASSUME NEW a \in Attempts, Winner(a) PROVE Issued'
  BY <1>3 DEF Winner, Local
<1>4. ASSUME NEW a \in Attempts, Exchange(a) PROVE Issued'
  <2>1. UNCHANGED <<rec, snap>>
    BY <1>4 DEF Exchange
  <2>2. issued \subseteq issued' /\ \A b \in Attempts : got'[b].rt \in issued'
    BY <1>4 DEF Exchange, Refused, Answered, Unanswered
  <2> QED
    BY <2>1, <2>2
<1>5. ASSUME NEW a \in Attempts, Publish(a) PROVE Issued'
  BY <1>5 DEF Publish, WriteRecord
<1>6. ASSUME NEW r \in Records, NEW t \in Tokens, Import(r, t) PROVE Issued'
  BY <1>6 DEF Import
<1>7. CASE UNCHANGED <<rec, snap, got, issued>>
  BY <1>7
<1>8. ASSUME NEW a \in Attempts, Step(a) PROVE Issued'
  <2>1. CASE AcquireRecord(a) \/ Reload(a) \/ RegisterAlias(a) \/ AcquireFamily(a) \/ LoadFamily(a)
    BY <1>7, <2>1 DEF AcquireRecord, Reload, RegisterAlias, AcquireFamily, LoadFamily
  <2>2. CASE ResumeReusable(a) \/ Begin(a) \/ FailDefinite(a) \/ FailUncertain(a)
    BY <1>7, <2>2 DEF ResumeReusable, Begin, FailDefinite, FailUncertain
  <2>3. CASE Lookup(a) \/ MarkUncertain(a) \/ ReleaseFamily(a)
    BY <1>7, <2>3 DEF Lookup, MarkUncertain, ReleaseFamily
  <2>4. CASE AcquireRecordFails(a) \/ ReleaseRecord(a)
    BY <1>2, <2>4 DEF AcquireRecordFails, ReleaseRecord
  <2> QED
    BY <1>1, <1>3, <1>4, <1>5, <1>8, <2>1, <2>2, <2>3, <2>4 DEF Step
<1>9. CASE Environment
  <2>1. ASSUME NEW a \in Attempts, Crash(a) PROVE Issued'
    BY <1>2, <2>1 DEF Crash
  <2>2. CASE ExpireLease
    BY <1>7, <2>2 DEF ExpireLease
  <2>3. ASSUME NEW r \in Records, ExpireAccess(r) \/ Toggle(r) PROVE Issued'
    BY <1>7, <2>3 DEF ExpireAccess, Toggle
  <2> QED
    BY <1>6, <1>9, <2>1, <2>2, <2>3 DEF Environment
<1>10. CASE UNCHANGED vars
  BY <1>7, <1>10 DEF vars
<1> QED
  BY <1>8, <1>9, <1>10 DEF Next

LEMMA InvInit == Init => Inv
<1> SUFFICES ASSUME Init PROVE Inv
  OBVIOUS
<1>1. TypeOK
  BY TypeInit
<1>2. Chains /\ JournalKnowsConsumed
  BY DEF Init, Chains, JournalKnowsConsumed, NewFamily
<1>3. \A a \in Attempts : Knows(a) /\ Spending(a)
  BY DEF Init, Knows, Spending, InFamily, Sent, Publishing
<1> QED
  BY <1>1, <1>2, <1>3 DEF Inv

\* The end of an intent, whatever label follows.
LEMMA FailKeeps ==
  ASSUME Inv, TypeOK', NEW a \in Attempts, NEW next, NEW n, NEW label, label \in {"begin", "cleanup", "releaseFamily"},
         pc[a] \in {"refused", "doubt", "cleanup"}, loc[a].attempt = a, a \notin reuse,
         Fail(a, next, n), next \in {"active", "uncertain"},
         next = "active" => loc[a].current \notin consumed,
         label = "cleanup" => (loc'[a].state = "refreshing" => loc'[a].attempt = a /\ loc'[a].current = snap[a].rt),
         label = "begin" => loc'[a].state = "active",
         pc' = [pc EXCEPT ![a] = label],
         UNCHANGED <<store, known, alias, retired, leases, issuer, input, got, tries, aged, reuse>>
  PROVE  Inv'
<1> DEFINE id == loc[a].id
<1>0. TypeOK /\ TypeOK' /\ Knows(a) /\ Spending(a)
  BY DEF Inv
<1>1. \A b \in Attempts \ {a} : Apart(b)
  BY <1>0 DEF Fail, TypeOK, Apart
<1>2. /\ id \in Tokens /\ snap[a].rt \in known /\ alias[snap[a].rt] = id /\ pc[a] \in InFamily
  BY <1>0 DEF TypeOK, Local, Knows, InFamily, Sent
<1>3. loc'[a].id = id
  BY <1>0 DEF Fail, TypeOK, Local
<1>4. Knows(a)' /\ Spending(a)'
  BY <1>0, <1>2, <1>3 DEF TypeOK, Knows, Spending, InFamily, Sent, Publishing
<1>5. CASE UNCHANGED fam
  BY <1>0, <1>1, <1>4, <1>5, Quiet
<1>6. CASE CurrentTx(a, "refreshing") /\ Mark(a, next, n)
  <2>1. Moves(a, next, n) /\ fam'[id].current = fam[id].current
    BY <1>0, <1>2, <1>6, MarkMoves
  <2> QED
    BY <1>0, <1>1, <1>2, <1>4, <1>6, <2>1, MovesKeep
<1> QED
  BY <1>5, <1>6 DEF Fail

LEMMA InvStep == ASSUME ~Reusable, Issued, Inv, [Next]_vars PROVE Inv'
<1>1. TypeOK' /\ TypeOK
  BY TypeStep DEF Inv
<1>2. ASSUME NEW a \in Attempts PROVE Knows(a) /\ Spending(a)
  BY <1>2 DEF Inv
<1>3. ASSUME NEW a \in Attempts, NEW r \in Records, NEW f \in BOOLEAN, Start(a, r, f) PROVE Inv'
  <2>1. UNCHANGED <<journal, consumed>> /\ \A b \in Attempts \ {a} : Apart(b)
    BY <1>1, <1>3 DEF Start, Goto, TypeOK, Apart
  <2>2. Knows(a)'
    BY <1>1, <1>2, <1>3 DEF Start, Goto, TypeOK, Knows, InFamily, Sent, Publishing
  <2>3. Spending(a)'
    BY <1>1, <1>2, <1>3 DEF Start, Goto, TypeOK, Spending, Open, Sent, Publishing
  <2> QED
    BY <1>1, <2>1, <2>2, <2>3, Quiet
<1>4. ASSUME NEW a \in Attempts, AcquireRecord(a) PROVE Inv'
  <2>1. UNCHANGED <<journal, consumed>> /\ \A b \in Attempts \ {a} : Apart(b)
    BY <1>1, <1>4 DEF AcquireRecord, Goto, TypeOK, Apart
  <2>2. Knows(a)'
    BY <1>1, <1>2, <1>4 DEF AcquireRecord, Goto, TypeOK, Knows, InFamily, Sent, Publishing
  <2>3. Spending(a)'
    BY <1>1, <1>2, <1>4 DEF AcquireRecord, Goto, TypeOK, Spending, Open, Sent, Publishing
  <2> QED
    BY <1>1, <2>1, <2>2, <2>3, Quiet
<1>5. ASSUME NEW a \in Attempts, AcquireRecordFails(a) PROVE Inv'
  <2>1. UNCHANGED <<journal, consumed>> /\ \A b \in Attempts \ {a} : Apart(b)
    BY <1>1, <1>5 DEF AcquireRecordFails, End, Goto, TypeOK, Apart
  <2>2. Knows(a)'
    BY <1>1, <1>2, <1>5 DEF AcquireRecordFails, End, Goto, TypeOK, Knows, InFamily, Sent, Publishing
  <2>3. Spending(a)'
    BY <1>1, <1>2, <1>5 DEF AcquireRecordFails, End, Goto, TypeOK, Spending, Open, Sent, Publishing
  <2> QED
    BY <1>1, <2>1, <2>2, <2>3, Quiet
<1>6. ASSUME NEW a \in Attempts, Reload(a) PROVE Inv'
  <2>1. UNCHANGED <<journal, consumed>> /\ \A b \in Attempts \ {a} : Apart(b)
    BY <1>1, <1>6 DEF Reload, Goto, TypeOK, Apart
  <2>2. Knows(a)'
    BY <1>1, <1>2, <1>6 DEF Reload, Goto, TypeOK, Knows, InFamily, Sent, Publishing
  <2>3. Spending(a)'
    BY <1>1, <1>2, <1>6 DEF Reload, Goto, TypeOK, Spending, Open, Sent, Publishing
  <2> QED
    BY <1>1, <2>1, <2>2, <2>3, Quiet
<1>7. ASSUME NEW a \in Attempts, AcquireFamily(a) PROVE Inv'
  <2>1. UNCHANGED <<journal, consumed>> /\ \A b \in Attempts \ {a} : Apart(b)
    BY <1>1, <1>7 DEF AcquireFamily, Goto, TypeOK, Apart
  <2>2. Knows(a)'
    <3>1. CASE pc' = [pc EXCEPT ![a] = "releaseRecord"]
      BY <1>1, <1>2, <1>7, <3>1 DEF AcquireFamily, TypeOK, Knows, InFamily, Sent, Publishing
    <3>2. CASE pc' = [pc EXCEPT ![a] = "load"] /\ loc' = [loc EXCEPT ![a].id = alias[snap[a].rt]]
      <4>1. loc'[a].id = alias[snap[a].rt]
        BY <1>1, <3>2 DEF TypeOK, Local
      <4> QED
        BY <1>1, <1>2, <1>7, <3>2, <4>1 DEF AcquireFamily, TypeOK, Knows, InFamily, Sent, Publishing
    <3> QED
      BY <1>7, <3>1, <3>2 DEF AcquireFamily, Goto
  <2>3. Spending(a)'
    BY <1>1, <1>2, <1>7 DEF AcquireFamily, Goto, TypeOK, Spending, Open, Sent, Publishing
  <2> QED
    BY <1>1, <2>1, <2>2, <2>3, Quiet
<1>8. ASSUME NEW a \in Attempts, LoadFamily(a) PROVE Inv'
  <2>1. UNCHANGED <<journal, consumed>> /\ \A b \in Attempts \ {a} : Apart(b)
    BY <1>1, <1>8 DEF LoadFamily, Goto, TypeOK, Apart
  <2>2. /\ pc'[a] \in {"releaseFamily", "winner"}
        /\ pc'[a] = "winner" => fam[alias[snap[a].rt]].state = "active"
    <3>1. CASE pc' = [pc EXCEPT ![a] = "releaseFamily"]
      BY <3>1, <1>1 DEF TypeOK
    <3>2. CASE pc' = [pc EXCEPT ![a] = "winner"] /\ fam[alias[snap[a].rt]].state = "active"
      BY <3>2, <1>1 DEF TypeOK
    <3> QED
      BY <1>8, <3>1, <3>2 DEF LoadFamily, Goto
  <2>3. Knows(a)'
    <3>1. loc'[a].id = alias[snap[a].rt] /\ loc'[a].state = fam[alias[snap[a].rt]].state
      BY <1>1, <1>8 DEF LoadFamily, TypeOK
    <3>2. pc[a] = "load" /\ UNCHANGED <<alias, known, snap, reuse>>
      BY <1>8 DEF LoadFamily
    <3>3. Knows(a)
      BY <1>2
    <3> QED
      BY <2>2, <3>1, <3>2, <3>3 DEF Knows, InFamily, Sent, Publishing
  <2>4. Spending(a)'
    BY <2>2 DEF Spending, Sent, Publishing
  <2> QED
    BY <1>1, <2>1, <2>3, <2>4, Quiet
<1>9. ASSUME NEW a \in Attempts, Winner(a) PROVE Inv'
  <2>1. UNCHANGED <<journal, consumed>> /\ \A b \in Attempts \ {a} : Apart(b)
    BY <1>1, <1>9 DEF Winner, Goto, TypeOK, Apart
  <2>2. Knows(a)'
    BY <1>1, <1>2, <1>9 DEF Winner, Goto, TypeOK, Knows, InFamily, Sent, Publishing
  <2>3. Spending(a)'
    BY <1>1, <1>2, <1>9 DEF Winner, Goto, TypeOK, Spending, Open, Sent, Publishing
  <2> QED
    BY <1>1, <2>1, <2>2, <2>3, Quiet
<1>10. ASSUME NEW a \in Attempts, Lookup(a) PROVE Inv'
  <2>1. UNCHANGED <<journal, consumed>> /\ \A b \in Attempts \ {a} : Apart(b)
    BY <1>1, <1>10 DEF Lookup, Goto, TypeOK, Apart
  <2>2. CASE pc' = [pc EXCEPT ![a] = "releaseFamily"]
    BY <1>1, <1>2, <1>10, <2>1, <2>2, Quiet
       DEF Lookup, TypeOK, Knows, Spending, InFamily, Sent, Publishing
  <2>3. CASE loc' = loc /\ (pc' = [pc EXCEPT ![a] = "publish"] \/ pc' = [pc EXCEPT ![a] = "cleanup"])
    <3>1. pc[a] = "lookup" /\ UNCHANGED <<journal, snap, got, tries, reuse, consumed>>
      BY <1>10 DEF Lookup
    <3>2. Knows(a)'
      BY <1>1, <1>2, <2>3, <3>1 DEF TypeOK, Knows, Spending, InFamily, Sent, Publishing
    <3>3. Spending(a)'
      BY <1>1, <1>2, <2>3, <3>1 DEF TypeOK, Knows, Spending, Open, Sent, Publishing
    <3> QED
      BY <1>1, <2>1, <3>2, <3>3, Quiet
  <2> QED
    BY <1>10, <2>2, <2>3 DEF Lookup, Goto
<1>11. ASSUME NEW a \in Attempts, ReleaseFamily(a) PROVE Inv'
  <2>1. UNCHANGED <<journal, consumed>> /\ \A b \in Attempts \ {a} : Apart(b)
    BY <1>1, <1>11 DEF ReleaseFamily, Goto, TypeOK, Apart
  <2>2. Knows(a)'
    BY <1>1, <1>2, <1>11 DEF ReleaseFamily, Goto, TypeOK, Knows, InFamily, Sent, Publishing
  <2>3. Spending(a)'
    BY <1>1, <1>2, <1>11 DEF ReleaseFamily, Goto, TypeOK, Spending, Open, Sent, Publishing
  <2> QED
    BY <1>1, <2>1, <2>2, <2>3, Quiet
<1>12. ASSUME NEW a \in Attempts, ReleaseRecord(a) PROVE Inv'
  <2>1. UNCHANGED <<journal, consumed>> /\ \A b \in Attempts \ {a} : Apart(b)
    BY <1>1, <1>12 DEF ReleaseRecord, End, Goto, TypeOK, Apart
  <2>2. Knows(a)'
    BY <1>1, <1>2, <1>12 DEF ReleaseRecord, End, Goto, TypeOK, Knows, InFamily, Sent, Publishing
  <2>3. Spending(a)'
    BY <1>1, <1>2, <1>12 DEF ReleaseRecord, End, Goto, TypeOK, Spending, Open, Sent, Publishing
  <2> QED
    BY <1>1, <2>1, <2>2, <2>3, Quiet
<1>13. ASSUME NEW a \in Attempts, Crash(a) PROVE Inv'
  <2>1. UNCHANGED <<journal, consumed>> /\ \A b \in Attempts \ {a} : Apart(b)
    BY <1>1, <1>13 DEF Crash, End, Goto, TypeOK, Apart
  <2>2. Knows(a)'
    BY <1>1, <1>2, <1>13 DEF Crash, End, Goto, TypeOK, Knows, InFamily, Sent, Publishing
  <2>3. Spending(a)'
    BY <1>1, <1>2, <1>13 DEF Crash, End, Goto, TypeOK, Spending, Open, Sent, Publishing
  <2> QED
    BY <1>1, <2>1, <2>2, <2>3, Quiet
<1>14. ASSUME NEW a \in Attempts, RegisterAlias(a) PROVE Inv'
  <2>1. /\ UNCHANGED <<alias, retired, fam, consumed>> /\ known' \subseteq known \cup {snap[a].rt}
        /\ known \subseteq known' /\ \A b \in Attempts \ {a} : Apart(b)
    BY <1>1, <1>14 DEF RegisterAlias, Goto, TypeOK, Apart
  <2>2. Chains' /\ JournalKnowsConsumed'
    BY <1>1, <2>1 DEF Inv, Chains, JournalKnowsConsumed, TypeOK, Row
  <2>3. Knows(a)' /\ Spending(a)'
    BY <1>1, <1>2, <1>14 DEF RegisterAlias, Goto, TypeOK, Knows, Spending, InFamily, Sent, Publishing
  <2>4. ASSUME NEW b \in Attempts, b # a PROVE Knows(b)' /\ Spending(b)'
    <3>1. Apart(b) /\ (Open(b)' <=> Open(b))
      BY <2>1, <2>4 DEF Open, Apart
    <3> QED
      BY <1>1, <1>2, <2>1, <3>1, OthersKeep
  <2> QED
    BY <1>1, <2>2, <2>3, <2>4 DEF Inv
<1>15. ASSUME NEW a \in Attempts, ResumeReusable(a) PROVE Inv'
  BY <1>2, <1>15 DEF ResumeReusable, Knows
<1>16. ASSUME NEW a \in Attempts, Exchange(a) PROVE Inv'
  <2> DEFINE rt == snap[a].rt
  <2>1. /\ pc[a] = "exchange" /\ Open(a) /\ rt \in known /\ alias[rt] = loc[a].id /\ rt \notin consumed
        /\ a \notin reuse /\ loc[a].attempt = a /\ loc[a].state = "refreshing" /\ loc[a].current = rt
    BY <1>2, <1>16 DEF Exchange, Knows, Spending, InFamily, Sent
  <2>2. /\ UNCHANGED <<journal, input, loc, tries, reuse>> /\ consumed' \in {consumed, consumed \cup {rt}}
        /\ \A b \in Attempts \ {a} : Apart(b)
    BY <1>1, <1>16 DEF Exchange, Refused, Answered, Unanswered, Goto, TypeOK, Apart
  <2>3. \/ pc'[a] = "refused" /\ consumed' = consumed
        \/ pc'[a] = "publish" /\ got'[a].rt = rt /\ consumed' = consumed
        \/ pc'[a] = "publish" /\ got'[a].rt # rt /\ consumed' = consumed \cup {rt}
        \/ pc'[a] = "doubt"
    <3>1. CASE Refused(a)
      BY <1>1, <3>1 DEF Refused, Goto, TypeOK
    <3>2. CASE Unanswered(a)
      BY <1>1, <3>2 DEF Unanswered, Goto, TypeOK
    <3>3. CASE Answered(a)
      <4>1. rt \in issued
        BY DEF Issued
      <4> QED
        BY <1>1, <3>3, <4>1 DEF Answered, Goto, TypeOK
    <3> QED
      BY <1>16, <3>1, <3>2, <3>3 DEF Exchange
  <2>4. Knows(a)'
    BY <1>1, <2>1, <2>2, <2>3 DEF TypeOK, Knows, InFamily, Sent, Publishing
  <2>5. Spending(a)'
    <3>1. Open(a)' /\ loc'[a] = loc[a] /\ snap'[a] = snap[a]
      BY <2>1, <2>2 DEF Open
    <3> QED
      BY <2>1, <2>2, <2>3, <3>1 DEF Spending, Sent, Publishing
  <2>6. fam[alias[rt]].state # "active"
    BY <2>1 DEF Open
  <2>7. Chains' /\ JournalKnowsConsumed'
    BY <2>1, <2>2, <2>6 DEF Inv, Chains, JournalKnowsConsumed
  <2>8. ASSUME NEW b \in Attempts, b # a PROVE Knows(b)' /\ Spending(b)'
    <3>1. Apart(b) /\ (Open(b)' <=> Open(b))
      BY <2>2, <2>8 DEF Open, Apart
    <3>2. pc[b] \in InFamily /\ Open(b) => snap[b].rt # rt
      BY <1>2, <2>1, <2>8 DEF Knows, Open
    <3> QED
      BY <1>1, <1>2, <2>2, <2>8, <3>1, <3>2, OthersKeep
  <2> QED
    BY <1>1, <2>4, <2>5, <2>7, <2>8 DEF Inv
<1>17. ASSUME NEW a \in Attempts, Begin(a) PROVE Inv'
  <2> DEFINE id == loc[a].id
  <2>1. /\ pc[a] = "begin" /\ UNCHANGED <<known, alias, retired, consumed, snap, got, tries, reuse>>
        /\ \A b \in Attempts \ {a} : Apart(b)
    BY <1>1, <1>17 DEF Begin, Goto, TypeOK, Apart
  <2>2. /\ id \in Tokens /\ snap[a].rt \in known /\ alias[snap[a].rt] = id /\ a \notin reuse /\ loc[a].state = "active"
    BY <1>1, <1>2, <2>1 DEF TypeOK, Local, Knows, InFamily, Publishing
  <2>3. CASE UNCHANGED <<fam, loc>> /\ pc' = [pc EXCEPT ![a] = "releaseFamily"]
    <3>1. Knows(a)' /\ Spending(a)'
      BY <1>1, <1>2, <2>1, <2>2, <2>3 DEF TypeOK, Knows, Spending, InFamily, Sent, Publishing
    <3> QED
      BY <1>1, <2>1, <2>3, <3>1, Quiet
  <2>4. CASE /\ snap[a].rt = loc[a].current /\ CurrentTx(a, "active") /\ Mark(a, "refreshing", a)
             /\ \/ /\ loc' = [loc EXCEPT ![a].state = "refreshing", ![a].attempt = a]
                   /\ pc' = [pc EXCEPT ![a] = "exchange"]
                \/ loc' = loc /\ pc' = [pc EXCEPT ![a] = "releaseFamily"]
    <3>1. Moves(a, "refreshing", a) /\ fam'[id].current = fam[id].current
      BY <1>1, <2>2, <2>4, MarkMoves
    <3>2. snap[a].rt \notin consumed
      BY <2>1, <2>2, <2>4 DEF CurrentTx, Inv, Chains, JournalKnowsConsumed, TypeOK
    <3>3. CASE loc' = loc /\ pc' = [pc EXCEPT ![a] = "releaseFamily"]
      <4>1. Knows(a)' /\ Spending(a)'
        BY <1>1, <1>2, <2>1, <2>2, <3>3 DEF TypeOK, Knows, Spending, InFamily, Sent, Publishing
      <4> QED
        BY <1>1, <2>1, <2>4, <3>1, <4>1, MovesKeep DEF InFamily
    <3>4. CASE loc' = [loc EXCEPT ![a].state = "refreshing", ![a].attempt = a] /\ pc' = [pc EXCEPT ![a] = "exchange"]
      <4>1. /\ loc'[a].state = "refreshing" /\ loc'[a].attempt = a /\ loc'[a].id = id /\ loc'[a].current = loc[a].current
            /\ pc'[a] = "exchange"
        <5>1. loc \in [Attempts -> Local] /\ pc'[a] = "exchange"
          BY <1>1, <3>4 DEF TypeOK
        <5> QED
          BY <3>4, <5>1 DEF Local
      <4>2. Knows(a)'
        BY <2>1, <2>2, <4>1 DEF Knows, InFamily, Sent, Publishing
      <4>3. Spending(a)'
        BY <2>1, <2>2, <2>4, <3>1, <3>2, <4>1 DEF Spending, Open, CurrentTx, Moves, Sent, Publishing
      <4> QED
        BY <1>1, <2>1, <2>4, <3>1, <4>2, <4>3, MovesKeep DEF InFamily
    <3> QED
      BY <2>4, <3>3, <3>4
  <2> QED
    BY <1>17, <2>3, <2>4 DEF Begin, Goto
<1>18. ASSUME NEW a \in Attempts, FailDefinite(a) PROVE Inv'
  <2>1. pc[a] = "refused" /\ loc[a].attempt = a /\ a \notin reuse /\ loc[a].current \notin consumed /\ loc[a].current = snap[a].rt
    BY <1>2, <1>18 DEF FailDefinite, Knows, Spending, Sent, Publishing
  <2>2. \/ loc' = loc
        \/ loc'[a].state = "active"
    BY <1>1, <1>18 DEF FailDefinite, Fail, TypeOK, Local
  <2>3. \E label \in {"begin", "cleanup"} : pc' = [pc EXCEPT ![a] = label] /\ (label = "begin" => loc'[a].state = "active")
    BY <1>18 DEF FailDefinite, Goto
  <2> QED
    BY <1>1, <1>18, <2>1, <2>2, <2>3, FailKeeps DEF FailDefinite
<1>19. ASSUME NEW a \in Attempts, FailUncertain(a) PROVE Inv'
  <2>1. pc[a] = "doubt" /\ loc[a].attempt = a /\ a \notin reuse /\ loc[a].current = snap[a].rt
    BY <1>2, <1>19 DEF FailUncertain, Knows, Spending, Sent, Publishing
  <2>2. \/ loc' = loc
        \/ loc'[a].state = "uncertain"
    BY <1>1, <1>19 DEF FailUncertain, Fail, TypeOK, Local
  <2>3. pc' = [pc EXCEPT ![a] = "cleanup"]
    BY <1>19 DEF FailUncertain, Goto
  <2> QED
    BY <1>1, <1>19, <2>1, <2>2, <2>3, FailKeeps DEF FailUncertain
<1>20. ASSUME NEW a \in Attempts, MarkUncertain(a) PROVE Inv'
  <2>1. pc[a] = "cleanup" /\ pc' = [pc EXCEPT ![a] = "releaseFamily"]
    BY <1>20 DEF MarkUncertain, Goto
  <2>2. CASE loc[a].state = "refreshing"
    <3>1. loc[a].attempt = a /\ a \notin reuse
      BY <1>2, <2>1, <2>2 DEF Knows
    <3> QED
      BY <1>1, <1>20, <2>1, <2>2, <3>1, FailKeeps DEF MarkUncertain
  <2>3. CASE UNCHANGED <<fam, loc>>
    <3>1. \A b \in Attempts \ {a} : Apart(b)
      BY <1>1, <1>20, <2>1, <2>3 DEF MarkUncertain, TypeOK, Apart
    <3>2. Knows(a)' /\ Spending(a)'
      BY <1>1, <1>2, <1>20, <2>1, <2>3 DEF MarkUncertain, TypeOK, Knows, Spending, InFamily, Sent, Publishing
    <3> QED
      BY <1>1, <1>20, <2>3, <3>1, <3>2, Quiet DEF MarkUncertain
  <2> QED
    BY <1>20, <2>2, <2>3 DEF MarkUncertain
<1>21. ASSUME NEW a \in Attempts, Publish(a) PROVE Inv'
  <2> DEFINE id == loc[a].id
             old == snap[a].rt
             new == got[a].rt
  <2>1. /\ pc[a] = "publish" /\ id \in Tokens /\ old \in known /\ old \in Tokens /\ new \in Tokens
        /\ alias[old] = id /\ pc[a] \in InFamily
    BY <1>1, <1>2, <1>21 DEF Publish, TypeOK, Local, Row, Knows, InFamily, Publishing
  <2>2. UNCHANGED <<consumed, snap, got, reuse>> /\ \A b \in Attempts \ {a} : Apart(b)
    BY <1>1, <1>21 DEF Publish, Goto, TypeOK, Apart
  <2>3. \/ pc'[a] = "releaseFamily"
        \/ pc'[a] = "lookup" /\ loc' = loc /\ tries'[a] # 0
    BY <1>1, <1>21 DEF Publish, Goto, TypeOK
  <2>4. known \subseteq known' /\ alias'[old] = id
    BY <1>1, <1>21, <2>1 DEF Publish, FinishTx, PointResultTx, TypeOK
  <2>5. Knows(a)'
    BY <1>2, <2>1, <2>2, <2>3, <2>4 DEF Knows, InFamily, Sent, Publishing
  <2>6. CASE UNCHANGED <<journal, loc>>
    <3>1. Spending(a)'
      BY <1>2, <2>1, <2>2, <2>3, <2>6 DEF Spending, Open, Sent, Publishing
    <3> QED
      BY <1>1, <2>2, <2>5, <2>6, <3>1, Quiet
  <2>7. CASE a \in reuse /\ PointResultTx(a)
    <3>1. Spending(a)'
      BY <2>2, <2>3, <2>7 DEF Spending, Sent, Publishing
    <3>2. Moves(a, "active", a) /\ fam'[id].current = fam[id].current /\ CurrentTx(a, "active")
      BY <1>1, <2>1, <2>7 DEF PointResultTx, CurrentTx, Moves, TypeOK, Family
    <3> QED
      BY <1>1, <2>1, <2>2, <2>5, <2>7, <3>1, <3>2, MovesKeep DEF PointResultTx
  <2>8. CASE a \notin reuse /\ FinishTx(a)
    <3>1. /\ CurrentTx(a, "refreshing") /\ Open(a) /\ loc[a].attempt = a /\ loc[a].current = old
          /\ IF new = old THEN old \notin consumed ELSE old \in consumed
      BY <1>2, <2>1, <2>8 DEF FinishTx, CurrentTx, Open, Spending, Publishing
    <3>2. Moves(a, "active", a) /\ fam'[id].current = new
      BY <1>1, <2>1, <2>8 DEF FinishTx, Moves, TypeOK
    <3>3. Spending(a)'
      BY <1>2, <2>1, <2>2, <2>3, <3>1, <3>2 DEF Spending, Open, Moves, Sent, Publishing
    <3>4. CASE new = old
      BY <1>1, <2>1, <2>2, <2>5, <2>8, <3>1, <3>2, <3>3, <3>4, MovesKeep DEF FinishTx, CurrentTx
    <3>5. CASE new # old
      <4>1. /\ new \notin known /\ known' = known \cup {new} /\ alias' = [alias EXCEPT ![new] = id]
            /\ retired' = retired \cup {old}
        BY <2>8, <3>5 DEF FinishTx
      <4>2. TypeOK /\ Chains /\ JournalKnowsConsumed /\ id \in known /\ fam[id].current = old
        BY <2>1, <3>1 DEF Inv, Chains, CurrentTx
      <4>3. alias'[new] = id /\ \A t \in Tokens \ {new} : alias'[t] = alias[t]
        BY <2>1, <4>1, <4>2 DEF TypeOK
      <4>4. retired' \subseteq known' /\ consumed' \subseteq known' /\ \A t \in known' : alias'[t] \in known'
        BY <2>1, <2>2, <4>1, <4>2, <4>3 DEF Chains, TypeOK
      <4>5. \A t \in Tokens \ known' : alias'[t] = t /\ fam'[t].state = "active"
        BY <3>2, <4>1, <4>2, <4>3 DEF Chains, Moves
      <4>6. \A t \in Tokens : t \in retired' <=> fam'[alias'[t]].current # t
        <5> SUFFICES ASSUME NEW t \in Tokens PROVE t \in retired' <=> fam'[alias'[t]].current # t
          OBVIOUS
        <5>1. CASE t = new
          BY <3>2, <4>1, <4>2, <4>3, <5>1, <3>5 DEF Chains
        <5>2. CASE t # new /\ alias[t] = id
          BY <3>2, <4>1, <4>2, <4>3, <5>2 DEF Chains
        <5>3. CASE t # new /\ alias[t] # id
          <6>1. alias[t] \in Tokens /\ t # old
            BY <2>1, <4>2, <5>3 DEF TypeOK
          <6> QED
            BY <3>2, <4>1, <4>2, <4>3, <5>3, <6>1 DEF Chains, Moves
        <5> QED
          BY <5>1, <5>2, <5>3
      <4>7. JournalKnowsConsumed'
        <5> SUFFICES ASSUME NEW t \in consumed, t \notin retired' PROVE fam'[alias'[t]].state # "active"
          BY <2>2 DEF JournalKnowsConsumed
        <5>1. t \in Tokens /\ t # new /\ t # old /\ t \notin retired /\ alias[t] \in Tokens /\ fam[alias[t]].current = t
          BY <4>1, <4>2 DEF Chains, TypeOK
        <5> QED
          BY <3>2, <4>2, <4>3, <5>1 DEF JournalKnowsConsumed, Moves
      <4>8. ASSUME NEW b \in Attempts, b # a PROVE Knows(b)' /\ Spending(b)'
        <5>1. Apart(b) /\ (Open(b)' <=> Open(b))
          BY <2>2, <3>1, <3>2, <4>2, <4>8, IntentsApart
        <5>2. \A t \in known : alias'[t] = alias[t]
          BY <4>1, <4>2, <4>3 DEF TypeOK
        <5> QED
          BY <1>2, <2>2, <2>4, <4>2, <4>8, <5>1, <5>2, OthersKeep
      <4> QED
        BY <1>1, <2>5, <3>3, <4>4, <4>5, <4>6, <4>7, <4>8 DEF Inv, Chains
    <3> QED
      BY <3>4, <3>5
  <2> QED
    BY <1>21, <2>6, <2>7, <2>8 DEF Publish
<1>22. CASE UNCHANGED <<journal, consumed, locals>>
  <2>1. \A b \in Attempts : Apart(b) /\ (Open(b)' <=> Open(b))
    BY <1>22 DEF Apart, Open
  <2>2. \A b \in Attempts : Knows(b)' /\ Spending(b)'
    BY <1>1, <1>2, <1>22, <2>1, OthersKeep
  <2> QED
    BY <1>1, <1>22, <2>2 DEF Inv, Chains, JournalKnowsConsumed
<1>23. ASSUME NEW r \in Records, NEW t \in Tokens, Import(r, t) \/ Toggle(r) \/ ExpireAccess(r) PROVE Inv'
  BY <1>22, <1>23 DEF Import, Toggle, ExpireAccess
<1>24. CASE ExpireLease
  BY <1>22, <1>24 DEF ExpireLease
<1>25. CASE UNCHANGED vars
  BY <1>22, <1>25 DEF vars
<1> QED
  BY <1>3, <1>4, <1>5, <1>6, <1>7, <1>8, <1>9, <1>10, <1>11, <1>12, <1>13, <1>14, <1>15, <1>16, <1>17, <1>18,
     <1>19, <1>20, <1>21, <1>23, <1>24, <1>25, TokenAssumption DEF Next, Step, Environment

-----------------------------------------------------------------------------
(* Theorems *)

\* TypeOK: rows and values in memory keep their shape, for both kinds of tokens.
THEOREM TypeCorrect == Spec => []TypeOK
<1>1. Init => TypeOK
  BY TypeInit
<1>2. TypeOK /\ [Next]_vars => TypeOK'
  BY TypeStep
<1> QED
  BY <1>1, <1>2, PTL DEF Spec

LEMMA Invariance == ASSUME ~Reusable PROVE Spec => [](Inv /\ Issued)
<1>1. Init => Inv /\ Issued
  BY InvInit DEF Init, Issued, NoRow
<1>2. Inv /\ Issued /\ [Next]_vars => (Inv /\ Issued)'
  BY InvStep, IssuedStep DEF Inv
<1> QED
  BY <1>1, <1>2, PTL DEF Spec

\* NoReplay: no attempt sends a refresh token that the issuer already consumed.
THEOREM TokenSentOnce == ASSUME ~Reusable PROVE Spec => []NoReplay
<1>1. Inv => NoReplay
  BY DEF Inv, NoReplay, Spending
<1> QED
  BY <1>1, Invariance, PTL

\* OneIntent: two attempts never both have an unsettled intent for one family.
THEOREM OneIntentAtATime == ASSUME ~Reusable PROVE Spec => []OneIntent
<1>1. Inv => OneIntent
  BY DEF Inv, OneIntent, Unsettled, Spending, Open, Sent
<1> QED
  BY <1>1, Invariance, PTL

\* JournalKnowsConsumed: a consumed token is retired or its family is not active.
THEOREM JournalSound == ASSUME ~Reusable PROVE Spec => []JournalKnowsConsumed
<1>1. Inv => JournalKnowsConsumed
  BY DEF Inv
<1> QED
  BY <1>1, Invariance, PTL

-----------------------------------------------------------------------------
(* The journal implements the one-time token *)

\* The abstract state changes at one token.
LEMMA BecomeAt ==
  ASSUME NEW u \in Tokens, NEW s, NEW n, Status(u)' = s, Spender(u)' = n, consumed' = consumed,
         \A t \in Tokens \ {u} : Status(t)' = Status(t) /\ Spender(t)' = Spender(t)
  PROVE  OneTime!Become(u, s, n)
  BY DEF OneTime!Become

LEMMA SameStatus ==
  ASSUME \A t \in Tokens : Status(t)' = Status(t) /\ Spender(t)' = Spender(t), consumed' = consumed
  PROVE  UNCHANGED OneTime!vars
  BY DEF OneTime!vars

\* A compare-and-set changes the status of the current token only: the other
\* tokens of the family are retired.
LEMMA OnlyCurrentMoves ==
  ASSUME Inv, NEW a \in Attempts, NEW state, CurrentTx(a, state), NEW next, NEW n, Moves(a, next, n),
         UNCHANGED <<alias, retired>>, NEW t \in Tokens, t # loc[a].current
  PROVE  Status(t)' = Status(t) /\ Spender(t)' = Spender(t)
<1>1. CASE alias[t] = loc[a].id
  <2>1. t \in retired
    BY <1>1 DEF Inv, Chains, CurrentTx
  <2> QED
    BY <2>1 DEF Status, Spender
<1>2. CASE alias[t] # loc[a].id
  <2>1. alias[t] \in Tokens
    BY DEF Inv, TypeOK
  <2>2. fam'[alias[t]] = fam[alias[t]]
    BY <1>2, <2>1 DEF Moves
  <2> QED
    BY <2>2 DEF Status, Spender
<1> QED
  BY <1>1, <1>2

\* The status of the current token around a compare-and-set.
LEMMA CurrentMoves ==
  ASSUME Inv, NEW a \in Attempts, NEW u \in Tokens, alias[u] = loc[a].id, u = loc[a].current,
         NEW state, CurrentTx(a, state), NEW next, NEW n, Moves(a, next, n), UNCHANGED <<alias, retired>>
  PROVE  /\ u \notin retired
         /\ state = "active" => Status(u) = "usable"
         /\ state = "refreshing" => Status(u) = "spending" /\ Spender(u) = loc[a].attempt
         /\ next = "active" => Status(u)' = "usable" /\ Spender(u)' = NoAttempt
         /\ next = "refreshing" => Status(u)' = "spending" /\ Spender(u)' = n
         /\ next = "uncertain" => Status(u)' = "doubtful" /\ Spender(u)' = n
<1>1. u \notin retired
  BY DEF Inv, Chains, CurrentTx
<1>2. Status(u) = IF state = "active" THEN "usable" ELSE IF state = "refreshing" THEN "spending" ELSE "doubtful"
  BY <1>1 DEF Status, CurrentTx
<1>3. Status(u)' = IF next = "active" THEN "usable" ELSE IF next = "refreshing" THEN "spending" ELSE "doubtful"
  BY <1>1 DEF Status, Moves
<1>4. Spender(u) = IF state = "active" THEN NoAttempt ELSE loc[a].attempt
  BY <1>1, <1>2 DEF Spender, CurrentTx
<1>5. Spender(u)' = IF next = "active" THEN NoAttempt ELSE n
  BY <1>1, <1>3 DEF Spender, Moves
<1> QED
  BY <1>1, <1>2, <1>3, <1>4, <1>5

LEMMA RefineInit == Init => OneTime!Init
  BY DEF Init, OneTime!Init, Status, Spender, NewFamily

\* Fail gives the token back or leaves it doubtful.
LEMMA RefineFail ==
  ASSUME ~Reusable, Inv, NEW a \in Attempts, pc[a] \in InFamily, loc[a].attempt = a, loc[a].current = snap[a].rt,
         NEW next, NEW n, Fail(a, next, n), UNCHANGED <<alias, retired, consumed>>,
         \/ next = "active" /\ n = NoAttempt /\ snap[a].rt \notin consumed
         \/ next = "uncertain" /\ n = loc[a].attempt
  PROVE  [OneTime!Next]_(OneTime!vars)
<1>u. PICK u \in Tokens : u = snap[a].rt
  BY DEF Inv, TypeOK, Row
<1>1. loc[a].id \in Tokens /\ alias[u] = loc[a].id /\ TypeOK
  BY <1>u DEF Inv, TypeOK, Row, Local, Knows
<1>2. CASE UNCHANGED fam
  <2>1. \A t \in Tokens : Status(t)' = Status(t) /\ Spender(t)' = Spender(t)
    BY <1>2 DEF Status, Spender
  <2> QED
    BY <2>1, SameStatus
<1>3. CASE CurrentTx(a, "refreshing") /\ Mark(a, next, n)
  <2>1. Moves(a, next, n) /\ u = loc[a].current
    BY <1>u, <1>1, <1>3, MarkMoves
  <2>2. \A t \in Tokens \ {u} : Status(t)' = Status(t) /\ Spender(t)' = Spender(t)
    BY <1>3, <2>1, OnlyCurrentMoves
  <2>3. /\ Status(u) = "spending" /\ Spender(u) = a
        /\ next = "active" => Status(u)' = "usable" /\ Spender(u)' = NoAttempt
        /\ next = "uncertain" => Status(u)' = "doubtful" /\ Spender(u)' = a
    BY <1>1, <1>3, <2>1, CurrentMoves
  <2>4. CASE next = "active" /\ u \notin consumed
    <3>1. OneTime!Become(u, "usable", NoAttempt)
      BY <1>1, <2>2, <2>3, <2>4, BecomeAt
    <3>2. OneTime!GiveBack(u)
      BY <1>1, <2>3, <2>4, <3>1 DEF OneTime!GiveBack
    <3> QED
      BY <1>1, <3>2 DEF OneTime!Next
  <2>5. CASE next = "uncertain"
    <3>1. OneTime!Become(u, "doubtful", a)
      BY <1>1, <2>2, <2>3, <2>5, BecomeAt
    <3>2. OneTime!Doubt(u)
      BY <1>1, <2>3, <3>1 DEF OneTime!Doubt
    <3> QED
      BY <1>1, <3>2 DEF OneTime!Next
  <2> QED
    BY <1>u, <2>4, <2>5
<1> QED
  BY <1>2, <1>3 DEF Fail

LEMMA RefineBegin ==
  ASSUME Inv, NEW a \in Attempts, Begin(a) PROVE [OneTime!Next]_(OneTime!vars)
<1>u. PICK u \in Tokens : u = snap[a].rt
  BY DEF Inv, TypeOK, Row
<1>1. /\ loc[a].id \in Tokens /\ alias[u] = loc[a].id /\ TypeOK
      /\ UNCHANGED <<alias, retired, consumed>>
  BY <1>u DEF Begin, Inv, TypeOK, Row, Local, Knows, InFamily
<1>2. CASE UNCHANGED fam
  <2>1. \A t \in Tokens : Status(t)' = Status(t) /\ Spender(t)' = Spender(t)
    BY <1>1, <1>2 DEF Status, Spender
  <2> QED
    BY <1>1, <2>1, SameStatus
<1>3. CASE u = loc[a].current /\ CurrentTx(a, "active") /\ Mark(a, "refreshing", a)
  <2>1. Moves(a, "refreshing", a)
    BY <1>1, <1>3, MarkMoves
  <2>2. \A t \in Tokens \ {u} : Status(t)' = Status(t) /\ Spender(t)' = Spender(t)
    BY <1>1, <1>3, <2>1, OnlyCurrentMoves
  <2>3. Status(u) = "usable" /\ Status(u)' = "spending" /\ Spender(u)' = a
    BY <1>1, <1>3, <2>1, CurrentMoves
  <2>4. OneTime!Become(u, "spending", a)
    BY <1>1, <2>2, <2>3, BecomeAt
  <2>5. OneTime!Spend(u, a)
    BY <1>1, <2>3, <2>4 DEF OneTime!Spend
  <2> QED
    BY <1>1, <2>5 DEF OneTime!Next
<1> QED
  BY <1>u, <1>2, <1>3 DEF Begin

LEMMA RefineExchange ==
  ASSUME Inv, NEW a \in Attempts, Exchange(a) PROVE [OneTime!Next]_(OneTime!vars)
<1>u. PICK u \in Tokens : u = snap[a].rt
  BY DEF Inv, TypeOK, Row
<1>1. /\ loc[a].id \in Tokens /\ alias[u] = loc[a].id /\ u \notin consumed
      /\ Open(a) /\ loc[a].current = u
  BY <1>u DEF Exchange, Inv, TypeOK, Row, Local, Knows, Spending, InFamily, Sent
<1>2. UNCHANGED journal /\ consumed' \in {consumed, consumed \cup {u}}
  BY <1>u DEF Exchange, Refused, Answered, Unanswered
<1>3. \A t \in Tokens : Status(t)' = Status(t) /\ Spender(t)' = Spender(t)
  BY <1>2 DEF Status, Spender
<1>4. CASE consumed' = consumed
  BY <1>3, <1>4, SameStatus
<1>5. CASE consumed' = consumed \cup {u}
  <2>1. Status(u) = "spending"
    BY <1>1 DEF Status, Open, Inv, Chains, JournalKnowsConsumed
  <2>2. OneTime!Consume(u)
    BY <1>1, <1>3, <1>5, <2>1 DEF OneTime!Consume
  <2> QED
    BY <1>1, <2>2 DEF OneTime!Next
<1> QED
  BY <1>2, <1>4, <1>5

LEMMA RefinePublish ==
  ASSUME ~Reusable, Inv, NEW a \in Attempts, Publish(a) PROVE [OneTime!Next]_(OneTime!vars)
<1>u. PICK u \in Tokens : u = snap[a].rt
  BY DEF Inv, TypeOK, Row
<1>w. PICK w \in Tokens : w = got[a].rt
  BY DEF Inv, TypeOK, Row
<1>1. /\ loc[a].id \in Tokens /\ alias[u] = loc[a].id /\ u \in known /\ TypeOK /\ Chains /\ pc[a] = "publish"
      /\ consumed' = consumed
  BY <1>u DEF Publish, Inv, TypeOK, Local, Knows, InFamily, Publishing
<1>2. CASE UNCHANGED journal
  <2>1. \A t \in Tokens : Status(t)' = Status(t) /\ Spender(t)' = Spender(t)
    BY <1>2 DEF Status, Spender
  <2> QED
    BY <1>1, <2>1, SameStatus
<1>3. CASE a \in reuse /\ PointResultTx(a)
  <2>1. PICK c \in Tokens : c = loc[a].current
    BY <1>1 DEF TypeOK, Local
  <2>2. /\ Moves(a, "active", a) /\ CurrentTx(a, "active") /\ UNCHANGED <<alias, retired>>
        /\ \A t \in Tokens : fam'[t].state = fam[t].state
    BY <1>1, <1>3 DEF PointResultTx, CurrentTx, Moves, TypeOK, Family
  <2>3. \A t \in Tokens \ {c} : Status(t)' = Status(t) /\ Spender(t)' = Spender(t)
    BY <2>1, <2>2, OnlyCurrentMoves
  <2>4. Status(c)' = Status(c) /\ Spender(c)' = Spender(c)
    <3>1. CASE alias[c] = loc[a].id
      BY <2>1, <2>2, <3>1 DEF Status, Spender, CurrentTx, Moves
    <3>2. CASE alias[c] # loc[a].id
      BY <1>1, <2>2, <3>2 DEF Status, Spender, Moves, TypeOK
    <3> QED
      BY <3>1, <3>2
  <2> QED
    BY <1>1, <2>3, <2>4, SameStatus
<1>4. CASE a \notin reuse /\ FinishTx(a)
  <2>1. /\ CurrentTx(a, "refreshing") /\ Open(a) /\ loc[a].attempt = a /\ loc[a].current = u
        /\ IF w = u THEN u \notin consumed ELSE u \in consumed
    BY <1>u, <1>w, <1>1, <1>4 DEF FinishTx, CurrentTx, Open, Inv, Spending, Publishing
  <2>2. Moves(a, "active", a) /\ fam'[loc[a].id].current = w
    BY <1>w, <1>1, <1>4 DEF FinishTx, Moves, TypeOK
  <2>3. Status(u) = "spending" /\ u \notin retired
    BY <1>1, <2>1 DEF Status, Open, Chains
  <2>4. CASE w = u
    <3>1. UNCHANGED <<alias, retired>>
      BY <1>u, <1>w, <1>4, <2>4 DEF FinishTx
    <3>2. \A t \in Tokens \ {u} : Status(t)' = Status(t) /\ Spender(t)' = Spender(t)
      BY <2>1, <2>2, <3>1, OnlyCurrentMoves
    <3>3. Status(u)' = "usable" /\ Spender(u)' = NoAttempt
      BY <1>1, <2>1, <2>2, <3>1, CurrentMoves
    <3>4. OneTime!Become(u, "usable", NoAttempt)
      BY <1>1, <3>2, <3>3, BecomeAt
    <3>5. OneTime!GiveBack(u)
      BY <2>1, <2>3, <2>4, <3>4 DEF OneTime!GiveBack
    <3> QED
      BY <3>5 DEF OneTime!Next
  <2>5. CASE w # u
    <3>1. w \notin known /\ alias' = [alias EXCEPT ![w] = loc[a].id] /\ retired' = retired \cup {u}
      BY <1>u, <1>w, <1>4, <2>5 DEF FinishTx
    <3>2. alias'[w] = loc[a].id /\ \A t \in Tokens \ {w} : alias'[t] = alias[t]
      BY <1>1, <3>1 DEF TypeOK
    <3>3. Status(u)' = "retired" /\ Spender(u)' = NoAttempt
      BY <3>1 DEF Status, Spender
    <3>4. Status(w) = "usable" /\ Spender(w) = NoAttempt
      <4>1. w \notin retired /\ alias[w] = w /\ fam[w].state = "active"
        BY <1>1, <3>1 DEF Chains
      <4> QED
        BY <4>1 DEF Status, Spender
    <3>5. Status(w)' = "usable" /\ Spender(w)' = NoAttempt
      <4>1. w \notin retired' /\ fam'[alias'[w]].state = "active"
        BY <1>1, <2>2, <2>5, <3>1, <3>2 DEF Chains, Moves
      <4> QED
        BY <4>1 DEF Status, Spender
    <3>6. ASSUME NEW t \in Tokens, t # u, t # w PROVE Status(t)' = Status(t) /\ Spender(t)' = Spender(t)
      <4>1. CASE t \in retired
        BY <3>1, <4>1 DEF Status, Spender
      <4>2. CASE t \notin retired
        <5>1. alias[t] # loc[a].id /\ alias[t] \in Tokens
          BY <1>1, <2>1, <3>6, <4>2 DEF Chains, CurrentTx, TypeOK
        <5>2. alias'[t] = alias[t] /\ fam'[alias[t]] = fam[alias[t]] /\ t \notin retired'
          BY <2>2, <3>1, <3>2, <3>6, <4>2, <5>1 DEF Moves
        <5> QED
          BY <4>2, <5>2 DEF Status, Spender
      <4> QED
        BY <4>1, <4>2
    <3>7. OneTime!Become(u, "retired", NoAttempt)
      <4>1. \A t \in Tokens \ {u} : Status(t)' = Status(t) /\ Spender(t)' = Spender(t)
        BY <3>4, <3>5, <3>6
      <4> QED
        BY <1>1, <3>3, <4>1, BecomeAt
    <3>8. OneTime!Retire(u)
      BY <2>1, <2>3, <2>5, <3>7 DEF OneTime!Retire
    <3> QED
      BY <3>8 DEF OneTime!Next
  <2> QED
    BY <2>4, <2>5
<1> QED
  BY <1>2, <1>3, <1>4 DEF Publish

LEMMA RefineStep == ASSUME ~Reusable, Inv, [Next]_vars PROVE [OneTime!Next]_(OneTime!vars)
<1>1. CASE UNCHANGED <<alias, retired, fam, consumed>>
  <2>1. \A t \in Tokens : Status(t)' = Status(t) /\ Spender(t)' = Spender(t)
    BY <1>1 DEF Status, Spender
  <2> QED
    BY <1>1, <2>1, SameStatus
<1>2. ASSUME NEW a \in Attempts, Step(a) PROVE [OneTime!Next]_(OneTime!vars)
  <2>1. Knows(a) /\ Spending(a)
    BY DEF Inv
  <2>2. ASSUME NEW r \in Records, NEW f \in BOOLEAN, Start(a, r, f) PROVE [OneTime!Next]_(OneTime!vars)
    BY <1>1, <2>2 DEF Start
  <2>3. CASE AcquireRecord(a) \/ AcquireRecordFails(a) \/ Reload(a) \/ RegisterAlias(a) \/ AcquireFamily(a) \/ LoadFamily(a)
    BY <1>1, <2>3 DEF AcquireRecord, AcquireRecordFails, Reload, RegisterAlias, AcquireFamily, LoadFamily
  <2>4. CASE Winner(a) \/ Lookup(a) \/ ReleaseFamily(a) \/ ReleaseRecord(a)
    BY <1>1, <2>4 DEF Winner, Lookup, ReleaseFamily, ReleaseRecord
  <2>5. CASE ResumeReusable(a)
    BY <2>1, <2>5 DEF ResumeReusable, Knows
  <2>6. CASE FailDefinite(a)
    BY <2>1, <2>6, RefineFail DEF FailDefinite, Spending, InFamily, Sent
  <2>7. CASE FailUncertain(a)
    BY <2>1, <2>7, RefineFail DEF FailUncertain, Spending, InFamily, Sent
  <2>8. CASE MarkUncertain(a)
    BY <2>1, <2>8, <1>1, RefineFail DEF MarkUncertain, Knows, InFamily
  <2> QED
    BY <1>2, <2>2, <2>3, <2>4, <2>5, <2>6, <2>7, <2>8, RefineBegin, RefineExchange, RefinePublish DEF Step
<1>3. CASE Environment
  BY <1>1, <1>3 DEF Environment, Crash, ExpireLease, ExpireAccess, Toggle, Import
<1>4. CASE UNCHANGED vars
  BY <1>1, <1>4 DEF vars
<1> QED
  BY <1>2, <1>3, <1>4 DEF Next

\* ImplementsOneTimeToken: every behaviour of the refresh code is one of the
\* one-time token, for any number of attempts, records and tokens.
THEOREM Refinement == ASSUME ~Reusable PROVE Spec => ImplementsOneTimeToken
<1>1. Init => OneTime!Init
  BY RefineInit
<1>2. Inv /\ [Next]_vars => [OneTime!Next]_(OneTime!vars)
  BY RefineStep
<1> QED
  BY <1>1, <1>2, Invariance, PTL DEF Spec, ImplementsOneTimeToken, OneTime!Spec

-----------------------------------------------------------------------------
\* LateOwnerHarmless: only the owner of the family lease changes the family row.
THEOREM FencedByLease == Spec => LateOwnerHarmless
<1> DEFINE Fencing == \A t \in Tokens : fam'[t] # fam[t] => \E a \in Attempts : famLease[t] = a /\ pc'[a] # pc[a]
<1>1. ASSUME TypeOK, NEW a \in Attempts, NEW s, NEW n, NEW state, CurrentTx(a, state), Mark(a, s, n), pc'[a] # pc[a] PROVE Fencing
  BY <1>1 DEF CurrentTx, Fenced, Mark, TypeOK, Local
<1>2. ASSUME fam' = fam PROVE Fencing
  BY <1>2
<1>3. ASSUME TypeOK, NEW a \in Attempts, Step(a) PROVE Fencing
  <2> USE <1>3
  <2>1. ASSUME NEW r \in Records, NEW f \in BOOLEAN, Start(a, r, f) PROVE Fencing
    BY <1>2, <2>1 DEF Start
  <2>2. CASE AcquireRecord(a) \/ AcquireRecordFails(a) \/ Reload(a) \/ RegisterAlias(a) \/ AcquireFamily(a) \/ LoadFamily(a)
    BY <1>2, <2>2 DEF AcquireRecord, AcquireRecordFails, Reload, RegisterAlias, AcquireFamily, LoadFamily
  <2>3. CASE Winner(a) \/ Exchange(a) \/ Lookup(a) \/ ReleaseFamily(a) \/ ReleaseRecord(a)
    BY <1>2, <2>3 DEF Winner, Exchange, Lookup, ReleaseFamily, ReleaseRecord
  <2>4. CASE ResumeReusable(a)
    <3>1. pc'[a] # pc[a]
      BY <2>4 DEF ResumeReusable, Goto, TypeOK
    <3> QED
      BY <1>1, <1>2, <2>4, <3>1 DEF ResumeReusable
  <2>5. CASE Begin(a)
    <3>1. pc'[a] # pc[a]
      BY <2>5 DEF Begin, Goto, TypeOK
    <3> QED
      BY <1>1, <1>2, <2>5, <3>1 DEF Begin
  <2>6. CASE FailDefinite(a) \/ FailUncertain(a) \/ MarkUncertain(a)
    <3>1. pc'[a] # pc[a]
      BY <2>6 DEF FailDefinite, FailUncertain, MarkUncertain, Goto, TypeOK
    <3> QED
      BY <1>1, <1>2, <2>6, <3>1 DEF FailDefinite, FailUncertain, MarkUncertain, Fail
  <2>7. CASE Publish(a)
    <3>1. pc'[a] # pc[a]
      BY <2>7 DEF Publish, Goto, TypeOK
    <3>2. CASE CurrentTx(a, "active") \/ CurrentTx(a, "refreshing")
      <4>1. \A t \in Tokens : fam'[t] # fam[t] => t = loc[a].id
        BY <2>7 DEF Publish, FinishTx, PointResultTx, TypeOK, Local
      <4> QED
        BY <3>1, <3>2, <4>1 DEF CurrentTx, Fenced
    <3> QED
      BY <1>2, <2>7, <3>2 DEF Publish, FinishTx, PointResultTx
  <2> QED
    BY <2>1, <2>2, <2>3, <2>4, <2>5, <2>6, <2>7 DEF Step
<1>4. ASSUME Environment PROVE Fencing
  BY <1>2, <1>4 DEF Environment, Crash, ExpireLease, ExpireAccess, Toggle, Import
<1>5. TypeOK /\ [Next]_vars => [\A t \in Tokens : fam'[t] # fam[t] =>
                                     \E a \in Attempts : famLease[t] = a /\ pc'[a] # pc[a]]_vars
  <2> HIDE DEF Fencing
  <2>1. TypeOK /\ Next => Fencing
    BY <1>3, <1>4 DEF Next
  <2> QED
    BY <2>1 DEF Fencing
<1> HIDE DEF Fencing
<1> QED
  BY <1>5, TypeCorrect, PTL DEF Spec, LateOwnerHarmless

-----------------------------------------------------------------------------
(* The newest token *)

Inner == {"load", "resume", "winner", "begin", "cleanup"} \cup Sent \cup Publishing

\* An attempt inside its family holds a token of that family, and a token that it
\* took from another record is the one it read as current.
Place(a) ==
  /\ pc[a] \in Inner \cup {"famLease"} => snap[a].rt \in known
  /\ pc[a] \in Inner => alias[snap[a].rt] = loc[a].id
  /\ a \in reuse => pc[a] \in Publishing \cup {"cleanup", "releaseFamily", "releaseRecord"}
  /\ pc[a] \in Publishing /\ a \in reuse => got[a].rt = loc[a].current

\* The token of a family that was refreshed is its own, and in the record it points
\* to as long as no operator replaced that.
Holder(t) == fam[t].generation > 0 =>
  /\ fam[t].current \in known /\ alias[fam[t].current] = t
  /\ t \notin edited => fam[t].result \in Records /\ rec[fam[t].result].rt = fam[t].current

Stored == TypeOK /\ (\A a \in Attempts : Place(a)) /\ \A t \in Tokens : Holder(t)

\* Steps that write no token down: families keep theirs and so do the records.
Silent == /\ UNCHANGED <<rec, edited, alias>> /\ known \subseteq known'
          /\ \A t \in Tokens : /\ fam'[t].current = fam[t].current /\ fam'[t].generation = fam[t].generation
                               /\ fam'[t].result = fam[t].result

LEMMA SilentStep ==
  ASSUME Stored, TypeOK', Silent, NEW a \in Attempts, \A b \in Attempts \ {a} : Apart(b), Place(a)'
  PROVE  Stored'
<1>1. \A t \in Tokens : Holder(t)'
  BY DEF Stored, Silent, Holder
<1>2. ASSUME NEW b \in Attempts \ {a} PROVE Place(b)'
  <2>1. Place(b) /\ Apart(b)
    BY DEF Stored
  <2> QED
    BY <2>1 DEF Silent, Place, Apart
<1> QED
  BY <1>1, <1>2 DEF Stored

\* Only a publication moves a family on to another token.
LEMMA SilentMark ==
  ASSUME TypeOK, NEW a \in Attempts, NEW s, NEW n, Mark(a, s, n) \/ UNCHANGED fam,
         UNCHANGED <<rec, edited, known, alias>>
  PROVE  Silent
<1>1. CASE UNCHANGED fam
  BY <1>1 DEF Silent
<1>2. CASE Mark(a, s, n)
  BY <1>2 DEF TypeOK, Mark, Silent, Family
<1> QED
  BY <1>1, <1>2

LEMMA SilentFail ==
  ASSUME TypeOK, NEW a \in Attempts, NEW s, NEW n, Fail(a, s, n), UNCHANGED <<rec, edited, known, alias>>
  PROVE  /\ Silent /\ loc'[a].id = loc[a].id
         /\ \A b \in Attempts \ {a} : loc'[b] = loc[b]
<1>1. Silent
  BY SilentMark DEF Fail
<1>2. loc' = loc \/ loc' = [loc EXCEPT ![a].state = s, ![a].attempt = n]
  BY DEF Fail
<1>3. loc'[a].id = loc[a].id /\ \A b \in Attempts \ {a} : loc'[b] = loc[b]
  <2>1. loc \in [Attempts -> Local]
    BY DEF TypeOK
  <2>2. loc'[a].id = loc[a].id
    BY <1>2, <2>1, LocalMarked
  <2>3. \A b \in Attempts \ {a} : loc'[b] = loc[b]
    BY <1>2, <2>1
  <2> QED
    BY <2>2, <2>3
<1> QED
  BY <1>1, <1>3

LEMMA QuietSteps ==
  ASSUME Stored, TypeOK', NEW a \in Attempts,
         \/ \E r \in Records, f \in BOOLEAN : Start(a, r, f)
         \/ AcquireRecord(a) \/ AcquireRecordFails(a) \/ Reload(a)
         \/ RegisterAlias(a) \/ AcquireFamily(a) \/ LoadFamily(a) \/ Winner(a)
         \/ Exchange(a) \/ Lookup(a) \/ ReleaseFamily(a) \/ ReleaseRecord(a) \/ Crash(a)
  PROVE  Stored'
<1>0. TypeOK /\ Place(a) /\ snap[a].rt \in Tokens
  BY DEF Stored, TypeOK, Row
<1> USE DEF Goto, Place, Inner, Sent, Publishing
<1>1. ASSUME NEW r \in Records, NEW f \in BOOLEAN, Start(a, r, f) PROVE Stored'
  <2>1. Silent /\ \A b \in Attempts \ {a} : Apart(b)
    BY <1>0, <1>1 DEF Start, TypeOK, Apart, Silent
  <2>2. Place(a)'
    BY <1>0, <1>1 DEF Start, TypeOK
  <2> QED
    BY <2>1, <2>2, SilentStep
<1>2. CASE AcquireRecord(a) \/ Reload(a) \/ ReleaseFamily(a)
  <2>1. Silent /\ \A b \in Attempts \ {a} : Apart(b)
    BY <1>0, <1>2 DEF AcquireRecord, Reload, ReleaseFamily, TypeOK, Apart, Silent
  <2>2. Place(a)'
    BY <1>0, <1>2 DEF AcquireRecord, Reload, ReleaseFamily, TypeOK
  <2> QED
    BY <2>1, <2>2, SilentStep
<1>3. CASE AcquireRecordFails(a) \/ ReleaseRecord(a) \/ Crash(a)
  <2>1. Silent /\ \A b \in Attempts \ {a} : Apart(b)
    BY <1>0, <1>3 DEF AcquireRecordFails, ReleaseRecord, Crash, End, TypeOK, Apart, Silent
  <2>2. Place(a)'
    BY <1>0, <1>3 DEF AcquireRecordFails, ReleaseRecord, Crash, End, TypeOK
  <2> QED
    BY <2>1, <2>2, SilentStep
<1>4. CASE RegisterAlias(a)
  <2>1. Silent /\ \A b \in Attempts \ {a} : Apart(b)
    BY <1>0, <1>4 DEF RegisterAlias, TypeOK, Apart, Silent
  <2>2. Place(a)'
    BY <1>0, <1>4 DEF RegisterAlias, TypeOK
  <2> QED
    BY <2>1, <2>2, SilentStep
<1>5. CASE AcquireFamily(a)
  <2>1. Silent /\ \A b \in Attempts \ {a} : Apart(b)
    BY <1>0, <1>5 DEF AcquireFamily, TypeOK, Apart, Silent
  <2>2. CASE pc' = [pc EXCEPT ![a] = "releaseRecord"]
    <3>1. Place(a)'
      BY <1>0, <1>5, <2>2 DEF AcquireFamily, TypeOK
    <3> QED
      BY <2>1, <3>1, SilentStep
  <2>3. CASE pc' = [pc EXCEPT ![a] = "load"] /\ loc' = [loc EXCEPT ![a].id = alias[snap[a].rt]]
    <3>1. loc'[a].id = alias[snap[a].rt]
      BY <1>0, <2>3 DEF TypeOK, Local
    <3>2. Place(a)'
      BY <1>0, <1>5, <2>3, <3>1 DEF AcquireFamily, TypeOK
    <3> QED
      BY <2>1, <3>2, SilentStep
  <2> QED
    BY <1>5, <2>2, <2>3 DEF AcquireFamily
<1>6. CASE LoadFamily(a)
  <2>1. Silent /\ \A b \in Attempts \ {a} : Apart(b)
    BY <1>0, <1>6 DEF LoadFamily, TypeOK, Apart, Silent
  <2>2. loc'[a].id = alias[snap[a].rt] /\ pc[a] = "load" /\ UNCHANGED <<alias, known, snap, reuse>>
    BY <1>0, <1>6 DEF LoadFamily, TypeOK
  <2>3. pc'[a] \in {"releaseFamily", "winner", "resume"}
    BY <1>0, <1>6 DEF LoadFamily, TypeOK
  <2>4. Place(a)'
    BY <1>0, <2>2, <2>3
  <2> QED
    BY <2>1, <2>4, SilentStep
<1>7. CASE Winner(a)
  <2>1. Silent /\ \A b \in Attempts \ {a} : Apart(b)
    BY <1>0, <1>7 DEF Winner, TypeOK, Apart, Silent
  <2>2. Place(a)'
    BY <1>0, <1>7 DEF Winner, TypeOK
  <2> QED
    BY <2>1, <2>2, SilentStep
<1>8. CASE Exchange(a)
  <2>1. Silent /\ \A b \in Attempts \ {a} : Apart(b)
    BY <1>0, <1>8 DEF Exchange, Refused, Answered, Unanswered, TypeOK, Apart, Silent
  <2>2. pc'[a] \in {"refused", "publish", "doubt"} /\ pc[a] = "exchange" /\ UNCHANGED <<known, alias, snap, loc, reuse>>
    BY <1>0, <1>8 DEF Exchange, Refused, Answered, Unanswered, TypeOK
  <2>3. Place(a)'
    BY <1>0, <2>2
  <2> QED
    BY <2>1, <2>3, SilentStep
<1>9. CASE Lookup(a)
  <2>1. Silent /\ \A b \in Attempts \ {a} : Apart(b)
    BY <1>0, <1>9 DEF Lookup, TypeOK, Apart, Silent
  <2>2. Place(a)'
    BY <1>0, <1>9 DEF Lookup, TypeOK
  <2> QED
    BY <2>1, <2>2, SilentStep
<1> QED
  BY <1>1, <1>2, <1>3, <1>4, <1>5, <1>6, <1>7, <1>8, <1>9

LEMMA JournalSteps ==
  ASSUME Stored, TypeOK', NEW a \in Attempts,
         ResumeReusable(a) \/ Begin(a) \/ FailDefinite(a) \/ FailUncertain(a) \/ MarkUncertain(a)
  PROVE  Stored'
<1>0. TypeOK /\ Place(a)
  BY DEF Stored
<1>1. UNCHANGED <<rec, edited, known, alias, snap, got, tries, reuse>>
  BY DEF ResumeReusable, Begin, FailDefinite, FailUncertain, MarkUncertain
<1>2. \A b \in Attempts \ {a} : pc'[b] = pc[b]
  BY <1>0 DEF ResumeReusable, Begin, FailDefinite, FailUncertain, MarkUncertain, Goto, TypeOK
<1>3. Silent /\ loc'[a].id = loc[a].id /\ \A b \in Attempts \ {a} : loc'[b] = loc[b]
  <2>1. CASE ResumeReusable(a) \/ Begin(a)
    <3>1. \E s, n : Mark(a, s, n) \/ UNCHANGED fam
      BY <2>1 DEF ResumeReusable, Begin
    <3>2. loc' = loc \/ \E s, n : loc' = [loc EXCEPT ![a].state = s, ![a].attempt = n]
      BY <2>1 DEF ResumeReusable, Begin
    <3>3. loc'[a].id = loc[a].id /\ \A b \in Attempts \ {a} : loc'[b] = loc[b]
      <4>1. loc \in [Attempts -> Local]
        BY <1>0 DEF TypeOK
      <4>2. loc'[a].id = loc[a].id
        <5>1. CASE loc' = loc
          BY <5>1
        <5>2. ASSUME NEW s, NEW n, loc' = [loc EXCEPT ![a].state = s, ![a].attempt = n]
              PROVE  loc'[a].id = loc[a].id
          BY <4>1, <5>2, LocalMarked
        <5> QED
          BY <3>2, <5>1, <5>2
      <4>3. \A b \in Attempts \ {a} : loc'[b] = loc[b]
        BY <3>2, <4>1
      <4> QED
        BY <4>2, <4>3
    <3> QED
      BY <1>0, <1>1, <3>1, <3>3, SilentMark
  <2>2. CASE FailDefinite(a) \/ FailUncertain(a) \/ MarkUncertain(a)
    <3>1. (\E s, n : Fail(a, s, n)) \/ UNCHANGED <<fam, loc>>
      BY <2>2 DEF FailDefinite, FailUncertain, MarkUncertain
    <3>2. CASE UNCHANGED <<fam, loc>>
      BY <1>1, <3>2 DEF Silent
    <3> QED
      BY <1>0, <1>1, <3>1, <3>2, SilentFail
  <2> QED
    BY <2>1, <2>2
<1>4. /\ pc[a] \in Inner /\ pc[a] \notin Publishing
      /\ pc'[a] \in Inner \cup {"releaseFamily"} /\ pc'[a] \notin Publishing
      /\ a \in reuse => pc'[a] = "releaseFamily"
  BY <1>0 DEF ResumeReusable, Begin, FailDefinite, FailUncertain, MarkUncertain, Goto, TypeOK, Place, Inner, Sent, Publishing
<1>5. Place(a)'
  BY <1>0, <1>1, <1>3, <1>4 DEF Place
<1>6. \A b \in Attempts \ {a} : Apart(b)
  BY <1>1, <1>2, <1>3 DEF Apart
<1> QED
  BY <1>3, <1>5, <1>6, SilentStep

\* A publication writes the token into the record and the family into one row. No
\* other family loses its token by it: the record holds a token of this one.
LEMMA PublishStep ==
  ASSUME Stored, TypeOK', NEW a \in Attempts, Publish(a)
  PROVE  Stored'
<1> DEFINE id == loc[a].id
           r == target[a]
<1>0. TypeOK /\ Place(a) /\ id \in Tokens /\ got[a].rt \in Tokens /\ snap[a].rt \in Tokens
  BY DEF Stored, TypeOK, Local, Row
<1>1. /\ pc[a] = "publish" /\ UNCHANGED <<snap, got, reuse>> /\ (loc' = loc \/ loc' = [loc EXCEPT ![a].state = "active"])
      /\ pc'[a] \in {"lookup", "releaseFamily"}
      /\ \A b \in Attempts \ {a} : Apart(b)
  BY <1>0 DEF Publish, Goto, TypeOK, Apart
<1>2. loc'[a].id = id /\ loc'[a].current = loc[a].current
  BY <1>0, <1>1 DEF TypeOK, Local
<1>3. snap[a].rt \in known /\ alias[snap[a].rt] = id /\ (a \in reuse => got[a].rt = loc[a].current)
  BY <1>0, <1>1 DEF Place, Inner, Publishing
<1>4. CASE UNCHANGED <<rec, edited, journal>>
  <2>1. Silent
    BY <1>4 DEF Silent
  <2>2. Place(a)'
    BY <1>0, <1>1, <1>2, <1>3, <1>4 DEF Place, Inner, Publishing
  <2> QED
    BY <1>1, <2>1, <2>2, SilentStep
<1>5. CASE RecordUnchanged(a) /\ WriteRecord(a) /\ (PointResultTx(a) \/ FinishTx(a)) /\ (a \in reuse => PointResultTx(a))
           /\ (a \notin reuse => FinishTx(a))
  <2>1. r \in Records /\ rec[r] = snap[a]
    BY <1>0, <1>5 DEF RecordUnchanged, TypeOK
  <2>2. /\ rec' = [rec EXCEPT ![r] = got[a]] /\ edited' = edited \ {id}
        /\ \A t \in Tokens \ {id} : fam'[t] = fam[t]
        /\ fam'[id].current = got[a].rt /\ fam'[id].result = r
    <3>1. rec' = [rec EXCEPT ![r] = got[a]] /\ edited' = edited \ {id}
      BY <1>5 DEF WriteRecord
    <3>2. CASE PointResultTx(a) /\ a \in reuse
      <4>1. fam' = [fam EXCEPT ![id].result = r, ![id].attempt = a] /\ fam[id].current = loc[a].current
        BY <3>2 DEF PointResultTx, CurrentTx
      <4> QED
        BY <1>0, <1>3, <3>1, <3>2, <4>1 DEF TypeOK, Family
    <3>3. CASE FinishTx(a)
      BY <1>0, <3>1, <3>3 DEF FinishTx, TypeOK
    <3> QED
      BY <1>5, <3>2, <3>3
  <2>3. /\ known \subseteq known' /\ \A t \in known : alias'[t] = alias[t]
        /\ fam[id].generation > 0 \/ fam'[id].generation > 0 => got[a].rt \in known' /\ alias'[got[a].rt] = id
    <3>1. CASE PointResultTx(a) /\ a \in reuse
      <4>1. UNCHANGED <<known, alias>> /\ fam[id].current = loc[a].current
        BY <3>1 DEF PointResultTx, CurrentTx
      <4>2. fam'[id].generation = fam[id].generation
        BY <1>0, <3>1 DEF PointResultTx, TypeOK, Family
      <4> QED
        BY <1>0, <1>3, <3>1, <4>1, <4>2 DEF Stored, Holder
    <3>2. CASE FinishTx(a)
      BY <1>0, <1>3, <3>2 DEF FinishTx, TypeOK
    <3> QED
      BY <1>5, <3>1, <3>2
  <2>4. ASSUME NEW t \in Tokens, t = id PROVE Holder(t)'
    <3>1. rec'[r] = got[a]
      BY <1>0, <2>1, <2>2 DEF TypeOK
    <3> HIDE DEF id, r
    <3> QED
      BY <2>1, <2>2, <2>3, <2>4, <3>1 DEF Holder
  <2>5. ASSUME NEW t \in Tokens, t # id PROVE Holder(t)'
    <3>1. SUFFICES ASSUME fam[t].generation > 0 PROVE Holder(t)'
      BY <2>2, <2>5 DEF Holder
    <3>2. /\ fam[t].current \in known /\ alias[fam[t].current] = t
          /\ t \notin edited => fam[t].result \in Records /\ rec[fam[t].result].rt = fam[t].current
      BY <3>1 DEF Stored, Holder
    <3>3. t \notin edited => fam[t].result # r
      BY <1>3, <2>1, <2>5, <3>2
    <3>4. t \notin edited => rec'[fam[t].result] = rec[fam[t].result]
      BY <1>0, <2>2, <3>2, <3>3 DEF TypeOK
    <3> QED
      BY <2>2, <2>3, <2>5, <3>2, <3>4 DEF Holder
  <2>6. ASSUME NEW b \in Attempts, b # a PROVE Place(b)'
    <3>1. Place(b) /\ Apart(b)
      BY <1>1, <2>6 DEF Stored
    <3> QED
      BY <2>3, <3>1 DEF Place, Apart
  <2>7. Place(a)'
    BY <1>0, <1>1, <1>2, <1>3, <2>3 DEF Place, Inner, Publishing
  <2> QED
    BY <2>4, <2>5, <2>6, <2>7 DEF Stored
<1> QED
  BY <1>4, <1>5 DEF Publish

LEMMA StoredStep == Stored /\ [Next]_vars => Stored'
<1> SUFFICES ASSUME Stored, [Next]_vars PROVE Stored'
  OBVIOUS
<1>1. TypeOK /\ TypeOK'
  BY TypeStep DEF Stored
<1>2. ASSUME NEW a \in Attempts, Step(a) PROVE Stored'
  BY <1>1, <1>2, QuietSteps, JournalSteps, PublishStep DEF Step
<1>3. ASSUME NEW a \in Attempts, Crash(a) PROVE Stored'
  BY <1>1, <1>3, QuietSteps
<1>4. CASE ExpireLease \/ (\E r \in Records : ExpireAccess(r) \/ Toggle(r)) \/ UNCHANGED vars
  <2>1. UNCHANGED <<rec, edited, known, alias, fam, pc, snap, loc, got, reuse>>
    BY <1>4 DEF ExpireLease, ExpireAccess, Toggle, vars
  <2> QED
    BY <1>1, <2>1 DEF Stored, Place, Holder
<1>5. ASSUME NEW r \in Records, NEW t \in Tokens, Import(r, t) PROVE Stored'
  <2>1. /\ UNCHANGED <<known, alias, fam, pc, snap, loc, got, reuse>>
        /\ edited' = edited \cup {g \in Tokens : fam[g].result = r}
        /\ \A q \in Records \ {r} : rec'[q] = rec[q]
    BY <1>1, <1>5 DEF Import, TypeOK
  <2>2. \A g \in Tokens : Holder(g)'
    BY <2>1 DEF Stored, Holder
  <2>3. \A a \in Attempts : Place(a)'
    BY <2>1 DEF Stored, Place
  <2> QED
    BY <1>1, <2>2, <2>3 DEF Stored
<1> QED
  BY <1>2, <1>3, <1>4, <1>5 DEF Next, Environment

-----------------------------------------------------------------------------
(* The operator's token *)

\* An attempt that took an older token over, or that publishes another token than
\* the one it read, knows that the one it read is consumed.
Replaces(a) ==
  /\ pc[a] = "idle" => a \notin aged
  /\ a \in aged => snap[a].rt \in retired
  /\ pc[a] \in {"resume", "winner"} /\ a \notin aged => loc[a].current = snap[a].rt
  /\ pc[a] \in Publishing => got[a].rt = snap[a].rt \/ snap[a].rt \in consumed

Kept == /\ TypeOK /\ retired \subseteq consumed
        /\ \A a \in Attempts : Replaces(a)
        /\ \A r \in Records : rec[r].rt = imported[r] \/ imported[r] \in consumed

\* Steps of one attempt that write no record and retire no token.
LEMMA KeptStep ==
  ASSUME Kept, TypeOK', UNCHANGED <<rec, imported, retired>>, consumed \subseteq consumed',
         NEW a \in Attempts, \A b \in Attempts \ {a} : Apart(b) /\ (b \in aged' <=> b \in aged),
         Replaces(a)'
  PROVE  Kept'
<1>1. ASSUME NEW b \in Attempts \ {a} PROVE Replaces(b)'
  BY DEF Kept, Replaces, Apart
<1> QED
  BY <1>1 DEF Kept

LEMMA KeptQuiet ==
  ASSUME Kept, TypeOK', NEW a \in Attempts,
         \/ \E r \in Records, f \in BOOLEAN : Start(a, r, f)
         \/ AcquireRecord(a) \/ AcquireRecordFails(a) \/ Reload(a)
         \/ RegisterAlias(a) \/ AcquireFamily(a) \/ LoadFamily(a) \/ Winner(a)
         \/ Exchange(a) \/ Lookup(a) \/ ReleaseFamily(a) \/ ReleaseRecord(a) \/ Crash(a)
  PROVE  Kept'
<1>0. TypeOK /\ Replaces(a) /\ retired \subseteq consumed /\ snap[a].rt \in Tokens
  BY DEF Kept, TypeOK, Row
<1> USE DEF Goto, Replaces, Publishing
<1> DEFINE Others == \A b \in Attempts \ {a} : Apart(b) /\ (b \in aged' <=> b \in aged)
<1>1. ASSUME NEW r \in Records, NEW f \in BOOLEAN, Start(a, r, f) PROVE Kept'
  <2>1. Others /\ UNCHANGED <<rec, imported, retired, consumed>>
    BY <1>0, <1>1 DEF Start, TypeOK, Apart
  <2>2. Replaces(a)'
    BY <1>0, <1>1 DEF Start, TypeOK
  <2> QED
    BY <2>1, <2>2, KeptStep
<1>2. CASE AcquireRecord(a) \/ Reload(a) \/ RegisterAlias(a) \/ ReleaseFamily(a)
  <2>1. Others /\ UNCHANGED <<rec, imported, retired, consumed>>
    BY <1>0, <1>2 DEF AcquireRecord, Reload, RegisterAlias, ReleaseFamily, TypeOK, Apart
  <2>2. Replaces(a)'
    BY <1>0, <1>2 DEF AcquireRecord, Reload, RegisterAlias, ReleaseFamily, TypeOK
  <2> QED
    BY <2>1, <2>2, KeptStep
<1>3. CASE AcquireRecordFails(a) \/ ReleaseRecord(a) \/ Crash(a)
  <2>1. Others /\ UNCHANGED <<rec, imported, retired, consumed>>
    BY <1>0, <1>3 DEF AcquireRecordFails, ReleaseRecord, Crash, End, TypeOK, Apart
  <2>2. Replaces(a)'
    BY <1>0, <1>3 DEF AcquireRecordFails, ReleaseRecord, Crash, End, TypeOK
  <2> QED
    BY <2>1, <2>2, KeptStep
<1>4. CASE AcquireFamily(a) \/ Lookup(a)
  <2>1. Others /\ UNCHANGED <<rec, imported, retired, consumed>>
    BY <1>0, <1>4 DEF AcquireFamily, Lookup, TypeOK, Apart
  <2>2. Replaces(a)'
    BY <1>0, <1>4 DEF AcquireFamily, Lookup, TypeOK
  <2> QED
    BY <2>1, <2>2, KeptStep
<1>5. CASE LoadFamily(a)
  <2>1. Others /\ UNCHANGED <<rec, imported, retired, consumed>>
    BY <1>0, <1>5 DEF LoadFamily, TypeOK, Apart
  <2>2. /\ aged' = IF snap[a].rt \in retired THEN aged \cup {a} ELSE aged
        /\ UNCHANGED <<snap, retired>> /\ loc'[a].current = fam[alias[snap[a].rt]].current
    BY <1>0, <1>5 DEF LoadFamily, TypeOK
  <2>3. /\ pc'[a] \in {"releaseFamily", "winner", "resume"}
        /\ pc'[a] # "releaseFamily" => snap[a].rt \in retired \/ fam[alias[snap[a].rt]].current = snap[a].rt
    BY <1>0, <1>5 DEF LoadFamily, TypeOK
  <2>4. Replaces(a)'
    BY <1>0, <2>2, <2>3
  <2> QED
    BY <2>1, <2>4, KeptStep
<1>6. CASE Winner(a)
  <2>1. Others /\ UNCHANGED <<rec, imported, retired, consumed, snap, loc, aged>>
    BY <1>0, <1>6 DEF Winner, TypeOK, Apart
  <2>2. pc'[a] \in {"releaseFamily", "begin", "publish"} /\ (pc'[a] = "publish" => got'[a].rt = loc[a].current)
    BY <1>0, <1>6 DEF Winner, TypeOK
  <2>3. pc[a] = "winner"
    BY <1>6 DEF Winner
  <2>4. Replaces(a)'
    BY <1>0, <2>1, <2>2, <2>3
  <2> QED
    BY <2>1, <2>4, KeptStep
<1>7. CASE Exchange(a)
  <2>1. Others /\ UNCHANGED <<rec, imported, retired, snap, loc, aged>> /\ consumed \subseteq consumed'
    BY <1>0, <1>7 DEF Exchange, Refused, Answered, Unanswered, TypeOK, Apart
  <2>2. pc[a] = "exchange" /\ pc'[a] \in {"refused", "publish", "doubt"}
    BY <1>0, <1>7 DEF Exchange, Refused, Answered, Unanswered, TypeOK
  <2>3. pc'[a] = "publish" => got'[a].rt = snap[a].rt \/ snap[a].rt \in consumed'
    BY <1>0, <1>7 DEF Exchange, Refused, Answered, Unanswered, TypeOK
  <2>4. Replaces(a)'
    BY <1>0, <2>1, <2>2, <2>3
  <2> QED
    BY <2>1, <2>4, KeptStep
<1> QED
  BY <1>1, <1>2, <1>3, <1>4, <1>5, <1>6, <1>7

LEMMA KeptJournal ==
  ASSUME Kept, TypeOK', NEW a \in Attempts,
         ResumeReusable(a) \/ Begin(a) \/ FailDefinite(a) \/ FailUncertain(a) \/ MarkUncertain(a)
  PROVE  Kept'
<1>0. TypeOK /\ Replaces(a)
  BY DEF Kept
<1>1. /\ UNCHANGED <<rec, imported, retired, consumed, snap, got, tries, aged, reuse>>
      /\ \A b \in Attempts \ {a} : pc'[b] = pc[b]
      /\ pc[a] # "idle" /\ pc'[a] \notin {"idle", "resume"} \cup Publishing
      /\ pc'[a] = "winner" => pc[a] = "resume"
  BY <1>0 DEF ResumeReusable, Begin, FailDefinite, FailUncertain, MarkUncertain, Goto, TypeOK, Publishing
<1>2. loc' = loc \/ \E s, n : loc' = [loc EXCEPT ![a].state = s, ![a].attempt = n]
  BY DEF ResumeReusable, Begin, FailDefinite, FailUncertain, MarkUncertain, Fail
<1>3. loc'[a].current = loc[a].current /\ \A b \in Attempts \ {a} : loc'[b] = loc[b]
  <2>1. loc \in [Attempts -> Local]
    BY <1>0 DEF TypeOK
  <2>2. CASE loc' = loc
    BY <2>2
  <2>3. ASSUME NEW s, NEW n, loc' = [loc EXCEPT ![a].state = s, ![a].attempt = n]
        PROVE  loc'[a].current = loc[a].current /\ \A b \in Attempts \ {a} : loc'[b] = loc[b]
    BY <2>1, <2>3, LocalMarked
  <2> QED
    BY <1>2, <2>2, <2>3
<1>4. Replaces(a)'
  BY <1>0, <1>1, <1>3 DEF Replaces
<1>5. \A b \in Attempts \ {a} : Apart(b) /\ (b \in aged' <=> b \in aged)
  BY <1>1, <1>3 DEF Apart
<1> QED
  BY <1>1, <1>4, <1>5, KeptStep

\* A publication replaces the row that its attempt read, by the same token or by
\* another one when that is consumed.
LEMMA KeptPublish ==
  ASSUME Kept, TypeOK', NEW a \in Attempts, Publish(a)
  PROVE  Kept'
<1> DEFINE r == target[a]
<1>0. TypeOK /\ Replaces(a) /\ retired \subseteq consumed
  BY DEF Kept
<1>1. /\ pc[a] = "publish" /\ pc'[a] \in {"lookup", "releaseFamily"}
      /\ UNCHANGED <<imported, consumed, snap, got, aged>>
      /\ \A b \in Attempts \ {a} : Apart(b)
  BY <1>0 DEF Publish, Goto, TypeOK, Apart
<1>2. got[a].rt = snap[a].rt \/ snap[a].rt \in consumed
  BY <1>0, <1>1 DEF Replaces, Publishing
<1>3. retired' = retired \/ (retired' = retired \cup {snap[a].rt} /\ snap[a].rt \in consumed)
  BY <1>2 DEF Publish, FinishTx, PointResultTx
<1>4. rec' = rec \/ (r \in Records /\ rec[r] = snap[a] /\ rec' = [rec EXCEPT ![r] = got[a]])
  BY <1>0 DEF Publish, WriteRecord, RecordUnchanged, TypeOK
<1>5. \A q \in Records : rec'[q].rt = imported[q] \/ imported[q] \in consumed
  BY <1>0, <1>2, <1>4 DEF Kept, TypeOK
<1>6. \A b \in Attempts : Replaces(b)'
  <2>1. Replaces(a)'
    BY <1>0, <1>1, <1>2, <1>3 DEF Replaces, Publishing
  <2>2. ASSUME NEW b \in Attempts \ {a} PROVE Replaces(b)'
    BY <1>1, <1>3 DEF Kept, Replaces, Apart
  <2> QED
    BY <2>1, <2>2
<1> QED
  BY <1>0, <1>1, <1>3, <1>5, <1>6 DEF Kept

LEMMA KeptAlways == Kept /\ [Next]_vars => Kept'
<1> SUFFICES ASSUME Kept, [Next]_vars PROVE Kept'
  OBVIOUS
<1>1. TypeOK /\ TypeOK'
  BY TypeStep DEF Kept
<1>2. ASSUME NEW a \in Attempts, Step(a) PROVE Kept'
  BY <1>1, <1>2, KeptQuiet, KeptJournal, KeptPublish DEF Step
<1>3. ASSUME NEW a \in Attempts, Crash(a) PROVE Kept'
  BY <1>1, <1>3, KeptQuiet
<1>4. CASE ExpireLease \/ (\E r \in Records : ExpireAccess(r) \/ Toggle(r)) \/ UNCHANGED vars
  <2>1. UNCHANGED <<rec, imported, retired, consumed, pc, snap, loc, got, aged>>
    BY <1>4 DEF ExpireLease, ExpireAccess, Toggle, vars
  <2> QED
    BY <1>1, <2>1 DEF Kept, Replaces
<1>5. ASSUME NEW r \in Records, NEW t \in Tokens, Import(r, t) PROVE Kept'
  <2>1. /\ UNCHANGED <<retired, consumed, pc, snap, loc, got, aged>>
        /\ \A q \in Records \ {r} : rec'[q] = rec[q] /\ imported'[q] = imported[q]
        /\ rec'[r].rt = imported'[r]
    BY <1>1, <1>5 DEF Import, TypeOK
  <2>2. \A a \in Attempts : Replaces(a)'
    BY <2>1 DEF Kept, Replaces
  <2> QED
    BY <1>1, <2>1, <2>2 DEF Kept
<1> QED
  BY <1>2, <1>3, <1>4, <1>5 DEF Next, Environment

\* NewestTokenStored: the record an active family points to holds the newest token of
\* the family until an operator replaces it (refresh_family.go 55-82), and an operator's
\* token stays until it is consumed (direct_credential.go 367-383), for tokens that are
\* consumed by use and for those that are not. A family and its record are written
\* together, over the row that the attempt read.
THEOREM NewestTokenKept == Spec => []NewestTokenStored
<1>1. Init => Stored
  BY TypeInit DEF Init, Stored, Place, Holder, NewFamily, Inner, Sent, Publishing
<1>2. Init => Kept
  BY TypeInit DEF Init, Kept, Replaces, NoRow, Publishing
<1>3. Stored /\ Kept => NewestTokenStored
  BY DEF Stored, Holder, Kept, NewestTokenStored
<1> QED
  BY <1>1, <1>2, <1>3, StoredStep, KeptAlways, PTL DEF Spec
=============================================================================
