------------------------- MODULE SiteBreaker_proofs -------------------------
(* What SiteBreaker promises for any number of requests, models, levels and *)
(* any durations, proved from the invariant TypeOK /\ HalfOpenIsElapsed.     *)
EXTENDS SiteBreaker, TLAPS

LEMMA CooldownBound == \A l \in 1..MaxLevel : Cooldown[l] \in Nat \ {0}
BY TimesAssumption

LEMMA Zeros ==
  /\ 0 \in 0..(Threshold - 1) /\ 0 \in 0..(Window + 1) /\ Window + 1 \in 0..(Window + 1)
  /\ 0 \in 0..(ProbeTimeout + 1)
BY TimesAssumption

LEMMA TallyKeeps ==
  ASSUME NEW b \in Breaker, NEW x \in 0..(Threshold - 1), NEW g \in 0..(Window + 1)
  PROVE  Tally(b, x, g) \in Breaker /\ Tally(b, x, g).probe = b.probe
<1>1. Tally(b, x, g) \in Breaker
  BY DEF Breaker, Tally
<1>2. Tally(b, x, g).probe = b.probe
  BY DEF Breaker, Tally
<1> QED
  BY <1>1, <1>2

LEMMA ForgetKeeps ==
  ASSUME NEW b \in Breaker
  PROVE  Forget(b) \in Breaker /\ Forget(b).probe = b.probe
BY TallyKeeps, Zeros DEF Forget

LEMMA ReopenKeeps ==
  ASSUME NEW b \in Breaker
  PROVE  Reopen(b) \in Breaker /\ Reopen(b).probe = b.probe
<1> DEFINE next == Smaller(b.level + 1, MaxLevel)
<1>1. next \in 1..MaxLevel
  BY TimesAssumption DEF Smaller, Breaker
<1>2. next \in 0..MaxLevel /\ Cooldown[next] \in Nat
  BY <1>1, CooldownBound
<1>3. ASSUME NEW l \in 0..MaxLevel, NEW t \in Nat
      PROVE  [b EXCEPT !.level = l, !.cool = t] \in Breaker
  BY DEF Breaker
<1>4. ASSUME NEW l, NEW t
      PROVE  [b EXCEPT !.level = l, !.cool = t].probe = b.probe
  BY DEF Breaker
<1> HIDE DEF next
<1> QED
  BY <1>2, <1>3, <1>4 DEF Reopen, next

LEMMA ReopenCools ==
  ASSUME NEW b \in Breaker
  PROVE  Reopen(b).cool # None /\ Reopen(b).cool # 0
<1> DEFINE next == Smaller(b.level + 1, MaxLevel)
<1>1. next \in 1..MaxLevel
  BY TimesAssumption DEF Smaller, Breaker
<1>2. Cooldown[next] \in Nat \ {0}
  BY <1>1, CooldownBound
<1>3. Reopen(b).cool = Cooldown[next]
  BY DEF Reopen, Breaker
<1> QED
  BY <1>2, <1>3 DEF None

\* An outcome keeps a breaker in range and ends its probe window, whoever
\* recorded it (applyRuntimeHealthFailure, applyRuntimeHealthSuccess).
LEMMA AfterKeeps ==
  ASSUME NEW b \in Breaker, NEW outcome \in {"success", "transient", "other"}
  PROVE  After(b, outcome) \in Breaker /\ After(b, outcome).probe = None
<1>1. CASE outcome = "success"
  BY <1>1, TimesAssumption DEF After, Neutral, Breaker, None
<1>2. CASE outcome # "success" /\ b.probe # None
  <2>1. After(b, outcome) = ProbeFailed(b, outcome = "transient")
    BY <1>2 DEF After
  <2>2. PICK c \in Breaker : After(b, outcome) = [c EXCEPT !.probe = None]
    BY <2>1, ReopenKeeps, ForgetKeeps, outcome = "transient" \/ outcome # "transient" DEF ProbeFailed
  <2>3. [c EXCEPT !.probe = None] \in Breaker
    BY DEF Breaker
  <2>4. [c EXCEPT !.probe = None].probe = None
    BY DEF Breaker
  <2> QED
    BY <2>2, <2>3, <2>4
<1>3. CASE outcome # "success" /\ b.probe = None
  <2>1. Streak(b) \in 1..Threshold
    BY TimesAssumption DEF Streak, Breaker
  <2>2. CASE outcome = "transient" /\ Trips(b)
    BY <1>3, <2>2, ReopenKeeps, TallyKeeps, Zeros DEF After
  <2>3. CASE outcome = "transient" /\ ~Trips(b)
    <3>1. Streak(b) \in 0..(Threshold - 1)
      BY <2>1, <2>3, TimesAssumption DEF Trips
    <3> QED
      BY <1>3, <2>3, <3>1, TallyKeeps, Zeros DEF After
  <2>4. CASE outcome = "other"
    BY <1>3, <2>4, ForgetKeeps DEF After
  <2> QED
    BY <1>3, <2>2, <2>3, <2>4
<1> QED
  BY <1>1, <1>2, <1>3

LEMMA AgedKeeps ==
  ASSUME NEW b \in Breaker
  PROVE  Aged(b) \in Breaker /\ (Aged(b).probe # None <=> b.probe # None) /\ (b.cool = 0 => Aged(b).cool = 0)
<1>1. Older(b.gap, Window) \in 0..(Window + 1)
  BY TimesAssumption DEF Older, Smaller, Breaker
<1>2. b.probe # None => Older(b.probe, ProbeTimeout) \in 0..(ProbeTimeout + 1) \ {None}
  BY TimesAssumption DEF Older, Smaller, Breaker, None
<1> DEFINE g == Older(b.gap, Window)
<1> DEFINE c == IF b.cool > 0 THEN b.cool - 1 ELSE b.cool
<1> DEFINE p == IF b.probe = None THEN None ELSE Older(b.probe, ProbeTimeout)
<1>3. c \in Nat \cup {None} /\ (b.cool = 0 => c = 0)
  BY DEF Breaker, None
<1>4. p \in 0..(ProbeTimeout + 1) \cup {None} /\ (p # None <=> b.probe # None)
  BY <1>2
<1>5. ASSUME NEW x \in 0..(Window + 1), NEW y \in Nat \cup {None}, NEW z \in 0..(ProbeTimeout + 1) \cup {None}
      PROVE  \A c1 : c1 = [b EXCEPT !.gap = x, !.cool = y, !.probe = z] => c1 \in Breaker
  BY DEF Breaker
<1>6. ASSUME NEW x, NEW y, NEW z
      PROVE  [b EXCEPT !.gap = x, !.cool = y, !.probe = z].cool = y /\ [b EXCEPT !.gap = x, !.cool = y, !.probe = z].probe = z
  BY DEF Breaker
<1>7. Aged(b) = [b EXCEPT !.gap = g, !.cool = c, !.probe = p]
  BY DEF Aged
<1>8. g \in 0..(Window + 1)
  BY <1>1
<1> HIDE DEF g, c, p
<1>9. Aged(b) \in Breaker
  BY <1>3, <1>4, <1>5, <1>7, <1>8
<1>10. Aged(b).cool = c /\ Aged(b).probe = p
  BY <1>6, <1>7
<1> QED
  BY <1>3, <1>4, <1>9, <1>10

LEMMA ReleaseKeeps ==
  ASSUME NEW b \in Breaker
  PROVE  Release(b) \in Breaker /\ Release(b).cool = b.cool /\ Release(b).probe \in {None, b.probe}
BY DEF Release, Breaker, None

\* What the safety theorems rest on: the settings row obeys it as well, so that
\* a restart restores it.
Behind(row) == \A s \in Scopes : row[s].probe # None => row[s].cool = 0
Inv == TypeOK /\ HalfOpenIsElapsed /\ Behind(saved.breaker)

\* The gate grants a probe only to breakers whose cooldown has elapsed.
LEMMA GrantKeeps ==
  ASSUME Inv, NEW m \in Models, Admissible(m), NEW s \in InTheWay(m)
  PROVE  /\ s \in Scopes /\ Release(breaker[s]).probe = None /\ breaker[s].cool = 0
         /\ [Release(breaker[s]) EXCEPT !.probe = 0] \in Breaker
         /\ [Release(breaker[s]) EXCEPT !.probe = 0].cool = 0
<1>1. s \in Scopes /\ breaker[s] \in Breaker
  BY DEF Inv, TypeOK, InTheWay, Scopes
<1>2. Release(breaker[s]).probe = None /\ Release(breaker[s]).cool = 0
  BY DEF Admissible, Elapsed
<1>3. Release(breaker[s]) \in Breaker /\ breaker[s].cool = 0
  BY <1>1, <1>2, ReleaseKeeps
<1>4. 0 \in (0..(ProbeTimeout + 1)) \cup {None}
  BY TimesAssumption
<1> QED
  BY <1>1, <1>2, <1>3, <1>4 DEF Breaker

LEMMA RecordKeeps ==
  ASSUME Inv, NEW m \in Models, NEW outcome \in {"success", "transient", "other"}, Record(m, outcome)
  PROVE  breaker' \in [Scopes -> Breaker] /\ known' \subseteq Models /\ HalfOpenIsElapsed'
<1>1. PICK gone \in Evictions(m) :
        /\ breaker' = [s \in Scopes |-> IF s \in {Site, m} THEN After(breaker[s], outcome)
                                        ELSE IF s \in gone THEN Neutral ELSE breaker[s]]
        /\ known' = (known \ gone) \cup {m}
  BY DEF Record
<1>2. Neutral \in Breaker /\ Neutral.probe = None
  BY TimesAssumption DEF Neutral, Breaker, None
<1>3. \A s \in Scopes : breaker'[s] \in Breaker /\ (breaker'[s].probe # None => breaker'[s].cool = 0)
  BY <1>1, <1>2, AfterKeeps DEF Inv, TypeOK, HalfOpenIsElapsed
<1>4. known' \subseteq Models
  BY <1>1 DEF Inv, TypeOK
<1> QED
  BY <1>1, <1>3, <1>4 DEF HalfOpenIsElapsed

LEMMA IdleType == Idle \in Attempt /\ Neutral \in Breaker /\ Neutral.probe = None
BY NamesAssumption, TimesAssumption DEF Idle, Attempt, Neutral, Breaker, None

LEMMA InitInv == Init => Inv
BY IdleType, BoundsAssumption DEF Init, Inv, TypeOK, HalfOpenIsElapsed, Behind, Empty

\* Every step keeps the invariant.
LEMMA StepInv == Inv /\ [Next]_vars => Inv'
<1> SUFFICES ASSUME Inv, [Next]_vars PROVE Inv'
  OBVIOUS
<1> USE DEF Inv
<1>0. TypeOK /\ HalfOpenIsElapsed /\ Behind(saved.breaker)
  OBVIOUS
<1>1. ASSUME NEW r \in Requests, NEW m \in Models, Admit(r, m)
      PROVE  Inv'
  <2>1. \A s \in Scopes : breaker'[s] \in Breaker /\ (breaker'[s].probe # None => breaker'[s].cool = 0)
    BY <1>0, <1>1, GrantKeeps DEF Admit, TypeOK, HalfOpenIsElapsed
  <2>2. breaker' \in [Scopes -> Breaker]
    BY <1>1, <2>1 DEF Admit
  <2>3. [phase |-> "sent", model |-> Actual[m], grants |-> InTheWay(m), age |-> 0] \in Attempt
    BY NamesAssumption, Zeros DEF Attempt, InTheWay, Scopes
  <2>4. req' \in [Requests -> Attempt]
    BY <1>0, <1>1, <2>3 DEF Admit, TypeOK
  <2> QED
    BY <1>0, <1>1, <2>1, <2>2, <2>4 DEF Admit, TypeOK, HalfOpenIsElapsed, Behind
<1>2. ASSUME NEW m \in Models, Refuse(m)
      PROVE  Inv'
  <2>1. \A s \in Scopes : breaker'[s] \in Breaker /\ (breaker'[s].probe # None => breaker'[s].cool = 0)
    BY <1>0, <1>2, ReleaseKeeps DEF Refuse, TypeOK, HalfOpenIsElapsed
  <2>2. breaker' \in [Scopes -> Breaker]
    BY <1>2, <2>1 DEF Refuse
  <2> QED
    BY <1>0, <1>2, <2>1, <2>2 DEF Refuse, TypeOK, HalfOpenIsElapsed, Behind
<1>3. ASSUME NEW r \in Requests, Close(r) \/ req' = [req EXCEPT ![r].phase = "counted"] \/ UNCHANGED req
      PROVE  req' \in [Requests -> Attempt]
  BY <1>0, <1>3, IdleType DEF Close, TypeOK, Attempt
<1>4. ASSUME NEW m \in Models, NEW outcome \in {"success", "transient", "other"}, Record(m, outcome),
             req' \in [Requests -> Attempt], UNCHANGED <<saved, restarts>>
      PROVE  Inv'
  BY <1>0, <1>4, RecordKeeps DEF TypeOK, Behind
<1>5. ASSUME NEW r \in Requests, RouterRecordsSuccess(r) \/ ProxyRecordsSuccess(r)
      PROVE  Inv'
  BY <1>0, <1>3, <1>4, <1>5 DEF RouterRecordsSuccess, ProxyRecordsSuccess, TypeOK, Attempt
<1>6. ASSUME NEW r \in Requests, Abandon(r)
      PROVE  Inv'
  BY <1>0, <1>3, <1>6 DEF Abandon, TypeOK, HalfOpenIsElapsed, Behind
<1>7. ASSUME NEW r \in Requests, NEW outcome \in {"transient", "other"}, RecordFailure(r, outcome)
      PROVE  Inv'
  BY <1>0, <1>3, <1>4, <1>7 DEF RecordFailure, TypeOK, Attempt
<1>8. ASSUME NEW m \in Models, NEW outcome \in {"success", "transient", "other"}, BackgroundProbe(m, outcome)
      PROVE  Inv'
  BY <1>0, <1>4, <1>8 DEF BackgroundProbe, TypeOK
<1>9. CASE Persist
  BY <1>0, <1>9 DEF Persist, TypeOK, HalfOpenIsElapsed, Behind
<1>10. CASE Restart
  <2>1. PICK row \in {saved, Empty} : breaker' = row.breaker /\ known' = row.known
    BY <1>10 DEF Restart
  <2>2. row \in [breaker : [Scopes -> Breaker], known : SUBSET Models] /\ Behind(row.breaker)
    BY <1>0, <2>1, IdleType DEF TypeOK, Behind, Empty
  <2>3. req' \in [Requests -> Attempt] /\ restarts' \in 0..MaxRestarts
    BY <1>0, <1>10, IdleType, BoundsAssumption DEF Restart, TypeOK
  <2> QED
    BY <1>0, <1>10, <2>1, <2>2, <2>3 DEF Restart, TypeOK, HalfOpenIsElapsed, Behind
<1>11. CASE Tick
  <2>1. \A row \in [Scopes -> Breaker] : LET older == [s \in Scopes |-> Aged(row[s])]
                                         IN  older \in [Scopes -> Breaker] /\ (Behind(row) => Behind(older))
    BY AgedKeeps DEF Behind
  <2>2. breaker' \in [Scopes -> Breaker] /\ HalfOpenIsElapsed'
    BY <1>0, <1>11, <2>1 DEF Tick, TypeOK, HalfOpenIsElapsed, Behind
  <2>3. saved' \in [breaker : [Scopes -> Breaker], known : SUBSET Models] /\ Behind(saved.breaker)'
    BY <1>0, <1>11, <2>1 DEF Tick, TypeOK, Behind
  <2>4. ASSUME NEW q \in Attempt PROVE [q EXCEPT !.age = Older(q.age, ProbeTimeout)] \in Attempt
    <3>1. Older(q.age, ProbeTimeout) \in 0..(ProbeTimeout + 1)
      BY TimesAssumption DEF Older, Smaller, Attempt
    <3> QED
      BY <3>1 DEF Attempt
  <2>5. req' \in [Requests -> Attempt]
    BY <1>0, <1>11, <2>4 DEF Tick, TypeOK
  <2> QED
    BY <1>0, <1>11, <2>2, <2>3, <2>5 DEF Tick, TypeOK
<1>12. CASE UNCHANGED vars
  BY <1>0, <1>12 DEF vars, TypeOK, HalfOpenIsElapsed, Behind
<1> QED
  BY <1>1, <1>2, <1>5, <1>6, <1>7, <1>8, <1>9, <1>10, <1>11, <1>12 DEF Next

LEMMA Always == Spec => []Inv
BY InitInv, StepInv, PTL DEF Spec

\* Breakers, attempts and the settings row keep their shape.
THEOREM TypeCorrect == Spec => []TypeOK
<1>1. Inv => TypeOK
  BY DEF Inv
<1> QED
  BY <1>1, Always, PTL

\* A probe window stands only behind a cooldown that has elapsed.
THEOREM WindowAfterCooldown == Spec => []HalfOpenIsElapsed
<1>1. Inv => HalfOpenIsElapsed
  BY DEF Inv
<1> QED
  BY <1>1, Always, PTL

-----------------------------------------------------------------------------
\* Moves of one breaker.
Moved(b, c) == Phase(b) = Phase(c) \/ <<Phase(b), Phase(c)>> \in Moves

LEMMA PhaseByTimes ==
  ASSUME NEW b \in Breaker
  PROVE  /\ b.probe = None /\ b.cool = None => Phase(b) = "closed"
         /\ b.probe = None /\ b.cool = 0 => Phase(b) = "elapsed"
         /\ b.probe = None /\ b.cool # None /\ b.cool # 0 => Phase(b) = "open"
         /\ b.probe \in 0..ProbeTimeout => Phase(b) = "half open"
         /\ b.probe # None /\ b.cool = 0 => Phase(b) \in {"half open", "elapsed"}
         /\ Phase(b) \in {"closed", "open", "elapsed", "half open"}
BY TimesAssumption DEF Phase, Breaker, None

LEMMA ReleaseMoves ==
  ASSUME NEW b \in Breaker
  PROVE  Phase(Release(b)) = Phase(b)
<1>1. CASE b.probe > ProbeTimeout
  <2>1. Release(b).probe = None /\ Release(b).cool = b.cool
    BY <1>1 DEF Release, Breaker
  <2>2. b.probe \notin 0..ProbeTimeout /\ None \notin 0..ProbeTimeout
    BY <1>1, TimesAssumption DEF None, Breaker
  <2> QED
    BY <2>1, <2>2 DEF Phase
<1>2. CASE ~(b.probe > ProbeTimeout)
  BY <1>2 DEF Release
<1> QED
  BY <1>1, <1>2

LEMMA AgedMoves ==
  ASSUME NEW b \in Breaker, b.probe # None => b.cool = 0
  PROVE  Moved(b, Aged(b))
<1>1. Aged(b) \in Breaker /\ (Aged(b).probe # None <=> b.probe # None) /\ (b.cool = 0 => Aged(b).cool = 0)
  BY AgedKeeps
<1>2. CASE b.probe # None
  <2>1. CASE b.probe \in 0..ProbeTimeout
    <3>1. Phase(Aged(b)) \in {"half open", "elapsed"}
      BY <1>1, <1>2, PhaseByTimes
    <3>2. Phase(b) = "half open"
      BY <2>1, PhaseByTimes
    <3> QED
      BY <3>1, <3>2 DEF Moved, Moves
  <2>2. CASE b.probe \notin 0..ProbeTimeout
    <3>1. b.probe = ProbeTimeout + 1
      BY <1>2, <2>2, TimesAssumption DEF Breaker, None
    <3>2. Older(b.probe, ProbeTimeout) = ProbeTimeout + 1
      BY <3>1, TimesAssumption DEF Older, Smaller
    <3>3. Aged(b).probe = ProbeTimeout + 1
      BY <1>2, <3>2 DEF Aged, Breaker
    <3> QED
      BY <1>1, <1>2, <3>1, <3>3, TimesAssumption DEF Moved, Phase, Breaker, None
  <2> QED
    BY <2>1, <2>2
<1>3. CASE b.probe = None
  <2>1. Aged(b).cool = IF b.cool > 0 THEN b.cool - 1 ELSE b.cool
    BY DEF Aged, Breaker
  <2>2. b.cool \in Nat \cup {None}
    BY DEF Breaker
  <2>3. CASE b.cool = None \/ b.cool = 0
    <3>1. Aged(b).cool = b.cool /\ Aged(b).probe = b.probe
      BY <1>1, <1>3, <2>1, <2>3 DEF None
    <3> QED
      BY <3>1 DEF Moved, Phase
  <2>4. CASE b.cool # None /\ b.cool # 0
    <3>1. Phase(b) = "open"
      BY <1>3, <2>4, PhaseByTimes
    <3>2. Aged(b).probe = None /\ Aged(b).cool # None
      BY <1>1, <1>3, <2>1, <2>2, <2>4 DEF None
    <3> QED
      <4>1. Phase(Aged(b)) \in {"open", "elapsed"}
        BY <1>1, <3>2, PhaseByTimes
      <4> QED
        BY <3>1, <4>1 DEF Moved, Moves
  <2> QED
    BY <2>3, <2>4
<1> QED
  BY <1>2, <1>3

LEMMA AfterMoves ==
  ASSUME NEW b \in Breaker, b.probe # None => b.cool = 0, NEW outcome \in {"success", "transient", "other"}
  PROVE  Moved(b, After(b, outcome)) /\ Moved(b, Neutral)
<1>1. After(b, outcome) \in Breaker /\ After(b, outcome).probe = None
  BY AfterKeeps
<1>2. Phase(Neutral) = "closed"
  BY IdleType, PhaseByTimes DEF Neutral
<1>3. Moved(b, Neutral)
  BY <1>2, PhaseByTimes DEF Moved, Moves
<1>4. CASE b.probe # None
  <2>1. Phase(b) \in {"half open", "elapsed"}
    BY <1>4, PhaseByTimes
  <2>2. After(b, outcome).cool # None \/ outcome = "success"
    <3>1. SUFFICES ASSUME outcome # "success" PROVE After(b, outcome).cool # None
      OBVIOUS
    <3>2. After(b, outcome) = ProbeFailed(b, outcome = "transient")
      BY <1>4, <3>1 DEF After
    <3>3. ASSUME NEW c \in Breaker PROVE Forget(c).cool = c.cool /\ [c EXCEPT !.probe = None].cool = c.cool
      BY DEF Forget, Tally, Breaker
    <3>4. Reopen(b).cool # None
      BY ReopenCools
    <3>5. ProbeFailed(b, TRUE).cool = Reopen(b).cool /\ ProbeFailed(b, FALSE).cool = b.cool
      BY <3>3, ReopenKeeps, ForgetKeeps DEF ProbeFailed
    <3> QED
      <4>1. b.cool # None
        BY <1>4 DEF None
      <4>2. CASE outcome = "transient"
        BY <3>2, <3>4, <3>5, <4>2
      <4>3. CASE outcome # "transient"
        <5>1. (outcome = "transient") = FALSE
          BY <4>3
        <5> QED
          BY <3>2, <3>5, <4>1, <5>1
      <4> QED
        BY <4>2, <4>3
  <2> QED
    <3>1. CASE outcome = "success"
      BY <1>3, <3>1 DEF After
    <3>2. CASE After(b, outcome).cool # None
      <4>1. Phase(After(b, outcome)) \in {"open", "elapsed"}
        BY <1>1, <3>2, PhaseByTimes
      <4> QED
        BY <1>3, <2>1, <4>1 DEF Moved, Moves
    <3> QED
      BY <2>2, <3>1, <3>2
<1>5. CASE b.probe = None
  <2>1. ASSUME NEW c \in Breaker, NEW x, NEW g PROVE Tally(c, x, g).cool = c.cool
    BY DEF Tally, Breaker
  <2>2. Reopen(b).cool # None /\ Reopen(b).cool # 0
    BY ReopenCools
  <2>3. \/ After(b, outcome) = Neutral
        \/ After(b, outcome).cool = b.cool
        \/ After(b, outcome).cool = Reopen(b).cool
    BY <1>5, <2>1, ReopenKeeps DEF After, Forget
  <2>4. CASE After(b, outcome).cool = b.cool
    BY <1>1, <1>3, <1>5, <2>4 DEF Moved, Phase
  <2>5. CASE After(b, outcome).cool = Reopen(b).cool
    <3>1. Phase(After(b, outcome)) = "open"
      BY <1>1, <2>2, <2>5, PhaseByTimes
    <3>2. Phase(b) \in {"closed", "elapsed", "open"}
      BY <1>5, PhaseByTimes
    <3> QED
      BY <1>3, <3>1, <3>2 DEF Moved, Moves
  <2> QED
    BY <1>3, <2>3, <2>4, <2>5
<1> QED
  BY <1>3, <1>4, <1>5

\* Within one process every step moves every breaker along Moves.
THEOREM BreakerMoves == Spec => ThreeStates
<1> DEFINE Legal == restarts' = restarts => \A s \in Scopes : Moved(breaker[s], breaker'[s])
<1>1. ASSUME Inv, [Next]_vars PROVE Legal
  <2>0. \A s \in Scopes : breaker[s] \in Breaker /\ (breaker[s].probe # None => breaker[s].cool = 0)
    BY <1>1 DEF Inv, TypeOK, HalfOpenIsElapsed
  <2>1. ASSUME NEW r \in Requests, NEW m \in Models, Admit(r, m) PROVE Legal
    <3>1. ASSUME NEW s \in InTheWay(m) PROVE Moved(breaker[s], breaker'[s])
      <4>1. breaker'[s] \in Breaker /\ breaker'[s].probe = 0 /\ s \in Scopes
        <5>1. breaker'[s] = [Release(breaker[s]) EXCEPT !.probe = 0]
          BY <1>1, <2>1, <3>1, GrantKeeps DEF Admit
        <5>2. ASSUME NEW c \in Breaker PROVE [c EXCEPT !.probe = 0].probe = 0
          BY DEF Breaker
        <5> QED
          BY <1>1, <2>0, <2>1, <3>1, <5>1, <5>2, GrantKeeps, ReleaseKeeps DEF Admit
      <4>2. Phase(breaker'[s]) = "half open"
        <5>1. breaker'[s].probe \in 0..ProbeTimeout
          BY <4>1, TimesAssumption
        <5> QED
          BY <4>1, <5>1, PhaseByTimes
      <4>3. Phase(Release(breaker[s])) = "elapsed"
        <5>1. Release(breaker[s]) \in Breaker /\ Release(breaker[s]).probe = None
          BY <1>1, <2>0, <2>1, <3>1, <4>1, GrantKeeps, ReleaseKeeps DEF Admit
        <5>2. Release(breaker[s]).cool = 0
          BY <1>1, <2>0, <2>1, <3>1, <4>1, GrantKeeps, ReleaseKeeps DEF Admit
        <5> QED
          BY <5>1, <5>2, PhaseByTimes
      <4> QED
        BY <2>0, <4>1, <4>2, <4>3, ReleaseMoves DEF Moved, Moves
    <3> QED
      BY <2>1, <3>1 DEF Admit, Moved
  <2>2. ASSUME NEW m \in Models, Refuse(m) PROVE Legal
    BY <2>0, <2>2, ReleaseMoves DEF Refuse, Moved
  <2>3. ASSUME NEW m \in Models, NEW outcome \in {"success", "transient", "other"}, Record(m, outcome) PROVE Legal
    <3>1. PICK gone \in Evictions(m) :
            breaker' = [s \in Scopes |-> IF s \in {Site, m} THEN After(breaker[s], outcome)
                                         ELSE IF s \in gone THEN Neutral ELSE breaker[s]]
      BY <2>3 DEF Record
    <3>2. ASSUME NEW s \in Scopes PROVE Moved(breaker[s], breaker'[s])
      <4>1. breaker'[s] \in {After(breaker[s], outcome), Neutral, breaker[s]}
        BY <3>1
      <4>2. Moved(breaker[s], breaker[s])
        BY DEF Moved
      <4> QED
        BY <2>0, <4>1, <4>2, AfterMoves
    <3> QED
      BY <3>2
  <2>4. ASSUME UNCHANGED breaker PROVE Legal
    BY <2>4 DEF Moved
  <2>5. CASE Restart
    BY <1>1, <2>5 DEF Restart, Inv, TypeOK
  <2>6. CASE Tick
    BY <2>0, <2>6, AgedMoves DEF Tick
  <2>7. ASSUME NEW r \in Requests, RouterRecordsSuccess(r) \/ ProxyRecordsSuccess(r) \/ Abandon(r) PROVE Legal
    BY <1>1, <2>3, <2>4, <2>7 DEF RouterRecordsSuccess, ProxyRecordsSuccess, Abandon, Inv, TypeOK, Attempt
  <2>8. ASSUME NEW r \in Requests, NEW outcome \in {"transient", "other"}, RecordFailure(r, outcome) PROVE Legal
    BY <1>1, <2>3, <2>8 DEF RecordFailure, Inv, TypeOK, Attempt
  <2>9. ASSUME NEW m \in Models, NEW outcome \in {"success", "transient", "other"}, BackgroundProbe(m, outcome) PROVE Legal
    BY <2>3, <2>9 DEF BackgroundProbe
  <2> QED
    BY <1>1, <2>1, <2>2, <2>4, <2>5, <2>6, <2>7, <2>8, <2>9 DEF Next, Persist, vars
<1>2. Legal => [restarts' = restarts =>
       \A s \in Scopes : LET before == Phase(breaker[s])
                             after  == Phase(breaker'[s])
                         IN  before = after \/ <<before, after>> \in Moves]_vars
  BY DEF Moved
<1> HIDE DEF Legal
<1> QED
  BY <1>1, <1>2, Always, PTL DEF Spec, ThreeStates

\* Where attempts are recorded under the name the gate looked at (no model
\* redirect), none leaves for an open breaker or beside its probe.
THEOREM OpenMeansNoTraffic ==
  ASSUME \A m \in Models : Actual[m] = m
  PROVE  Spec => NoTrafficWhileOpen
<1> DEFINE Quiet == \A r \in Requests : req[r].phase = "idle" /\ req'[r].phase = "sent" =>
                      \A s \in {Site, req'[r].model} : Phase(breaker[s]) \in {"closed", "elapsed"}
<1>1. ASSUME Inv, [Next]_vars PROVE Quiet
  <2>0. \A s \in Scopes : breaker[s] \in Breaker
    BY <1>1 DEF Inv, TypeOK
  <2>1. ASSUME NEW r \in Requests, NEW m \in Models, Admit(r, m) PROVE Quiet
    <3>1. ASSUME NEW s \in {Site, m} PROVE Phase(breaker[s]) \in {"closed", "elapsed"}
      <4>1. Release(breaker[s]) \in Breaker /\ s \in Scopes
        BY <2>0, ReleaseKeeps DEF Scopes
      <4>2. \/ Release(breaker[s]).probe = None /\ Release(breaker[s]).cool = None
            \/ Release(breaker[s]).probe = None /\ Release(breaker[s]).cool = 0
        BY <2>1 DEF Admit, Admissible, InTheWay, Blocked, Elapsed
      <4> QED
        BY <2>0, <4>1, <4>2, PhaseByTimes, ReleaseMoves
    <3>2. req'[r].model = m /\ \A q \in Requests \ {r} : req'[q] = req[q]
      BY <1>1, <2>1 DEF Admit, Inv, TypeOK
    <3> QED
      BY <3>1, <3>2
  <2>2. ASSUME NEW r \in Requests, Close(r) \/ req' = [req EXCEPT ![r].phase = "counted"] PROVE Quiet
    BY <1>1, <2>2 DEF Close, Idle, Inv, TypeOK, Attempt
  <2>3. CASE Tick
    BY <1>1, <2>3 DEF Tick, Inv, TypeOK, Attempt
  <2>4. CASE Restart
    BY <2>4 DEF Restart, Idle
  <2>5. CASE UNCHANGED req
    BY <2>5
  <2> QED
    BY <1>1, <2>1, <2>2, <2>3, <2>4, <2>5
    DEF Next, Refuse, RouterRecordsSuccess, ProxyRecordsSuccess, RecordFailure, Abandon, BackgroundProbe, Persist, vars
<1>2. Quiet => [\A r \in Requests :
       req[r].phase = "idle" /\ req'[r].phase = "sent" =>
         \A s \in {Site, req'[r].model} : Phase(breaker[s]) \in {"closed", "elapsed"}]_vars
  OBVIOUS
<1> HIDE DEF Quiet
<1> QED
  BY <1>1, <1>2, Always, PTL DEF Spec, NoTrafficWhileOpen
=============================================================================
