---------------------------- MODULE SiteBreaker ----------------------------
(***************************************************************************)
(* The three-state breaker of one upstream site                            *)
(* (routing/runtime_health.go, runtime_health_breaker.go), with the gate   *)
(* that the selector calls before it dispatches (routing/selector.go) and  *)
(* the outcomes that attempts and background probes record                 *)
(* (handler/proxy/upstream.go, routing/router_records.go).                 *)
(*                                                                         *)
(* The site has one breaker and each model served by it another; a request *)
(* passes both. Sites do not share state, so one site is enough. The code  *)
(* stores timestamps and compares their distance to the present with       *)
(* constants; here each timestamp is that distance, cut off once it can    *)
(* no longer change a comparison, so that time has no end.                 *)
(***************************************************************************)
EXTENDS Integers, FiniteSets

CONSTANTS
  Requests,         \* attempts that may be in flight together
  Models,           \* normalised model names
  Site,             \* the scope of the breaker that all models share
  Actual,           \* the name an attempt for a model is sent and recorded under
  Threshold,        \* SiteRuntimeBreakerStreakThreshold
  Window,           \* SiteTransientStreakWindowMs
  MaxLevel,
  Cooldown,         \* SiteRuntimeBreakerLevelsMs from level 1 on
  ProbeTimeout,     \* SiteRuntimeHalfOpenProbeTimeoutMs
  MaxModels,        \* maxSiteModelHealthStates
  BackgroundProbes, \* outcomes that the model probe reports, none while it is disabled
  MaxRestarts       \* bound on restarts of the process

ASSUME NamesAssumption == Models # {} /\ Site \notin Models /\ Actual \in [Models -> Models]
ASSUME TimesAssumption ==
  /\ Threshold \in Nat \ {0} /\ Window \in Nat /\ ProbeTimeout \in Nat
  /\ MaxLevel \in Nat \ {0} /\ Cooldown \in [1..MaxLevel -> Nat \ {0}]
ASSUME BoundsAssumption == MaxModels \in Nat \ {0} /\ MaxRestarts \in Nat /\ BackgroundProbes \subseteq {"success", "transient", "other"}

VARIABLES
  breaker,   \* SiteRuntimeHealthState of each scope
  known,     \* models that have an entry in the map of the site
  req,       \* the attempt of each request
  saved,     \* the settings row: breaker and known as last persisted
  restarts

vars == <<breaker, known, req, saved, restarts>>

Scopes == Models \cup {Site}
None == -1     \* a nil timestamp

\* streak: TransientFailureStreak; gap: time since LastTransientFailureAtMs, or
\* more than Window; cool: time left until BreakerUntilMs; probe: time since
\* HalfOpenSinceMs.
Breaker == [streak : 0..(Threshold - 1), gap : 0..(Window + 1), level : 0..MaxLevel,
            cool : Nat \cup {None}, probe : (0..(ProbeTimeout + 1)) \cup {None}]

Neutral == [streak |-> 0, gap |-> Window + 1, level |-> 0, cool |-> None, probe |-> None]

\* grants: the breakers whose recovery probe this attempt is, since age.
Attempt == [phase : {"idle", "sent", "counted"}, model : Models, grants : SUBSET Scopes, age : 0..(ProbeTimeout + 1)]

Smaller(x, y) == IF x <= y THEN x ELSE y

-----------------------------------------------------------------------------
(* The breaker *)

\* Operators named ..._Bug are variants with one plausible mistake. No
\* specification uses them: they show that the properties would notice.
Release_Bug(b) == b
\* A probe window that timed out is released when the gate looks at it.
Release(b) == IF b.probe > ProbeTimeout THEN [b EXCEPT !.probe = None] ELSE b

Blocked(b) == b.probe # None \/ b.cool # None
Elapsed_Bug(b) == b.probe = None /\ b.cool <= 1
\* The probe that is out is overlooked.
Elapsed_Bug2(b) == b.cool = 0
Elapsed(b) == b.probe = None /\ b.cool = 0

\* The scopes in the way of a request for m, once stale windows are released.
InTheWay(m) == {s \in {Site, m} : Blocked(Release(breaker[s]))}
Admissible(m) == \A s \in InTheWay(m) : Elapsed(Release(breaker[s]))

Reopen(b) == LET next == Smaller(b.level + 1, MaxLevel)
             IN  [b EXCEPT !.level = next, !.cool = Cooldown[next]]

\* TransientFailureStreak and LastTransientFailureAtMs.
Tally(b, streak, gap) == [b EXCEPT !.streak = streak, !.gap = gap]
Forget(b) == Tally(b, 0, Window + 1)

\* The outcome of the attempt that is taken for the probe.
ProbeFailed_Bug(b, transient) == Forget(IF transient THEN Reopen(b) ELSE b)
ProbeFailed(b, transient) == [Forget(IF transient THEN Reopen(b) ELSE b) EXCEPT !.probe = None]

Streak(b) == IF b.gap <= Window THEN b.streak + 1 ELSE 1
Trips(b) == Streak(b) >= Threshold

After(b, outcome) ==
  CASE outcome = "success" -> Neutral
    [] outcome # "success" /\ b.probe # None -> ProbeFailed(b, outcome = "transient")
    [] outcome = "transient" /\ b.probe = None ->
         IF Trips(b) THEN Tally(Reopen(b), 0, 0) ELSE Tally(b, Streak(b), 0)
    [] OTHER -> Forget(b)

\* A full map drops any one entry for a model it has not seen yet.
Evictions(m) == IF m \in known \/ Cardinality(known) < MaxModels THEN {{}} ELSE {{k} : k \in known}

Record(m, outcome) ==
  \E gone \in Evictions(m) :
    /\ breaker' = [s \in Scopes |-> IF s \in {Site, m} THEN After(breaker[s], outcome)
                                    ELSE IF s \in gone THEN Neutral ELSE breaker[s]]
    /\ known' = (known \ gone) \cup {m}

-----------------------------------------------------------------------------
Idle == [phase |-> "idle", model |-> CHOOSE m \in Models : TRUE, grants |-> {}, age |-> 0]
Empty == [breaker |-> [s \in Scopes |-> Neutral], known |-> {}]

Init ==
  /\ breaker = Empty.breaker /\ known = {} /\ saved = Empty
  /\ req = [r \in Requests |-> Idle]
  /\ restarts = 0

\* The gate lets an attempt for m pass, as the recovery probe of every breaker
\* whose cooldown has elapsed.
Admit(r, m) ==
  /\ req[r].phase = "idle"
  /\ Admissible(m)
  /\ breaker' = [s \in Scopes |-> IF s \in InTheWay(m) THEN [Release(breaker[s]) EXCEPT !.probe = 0]
                                  ELSE breaker[s]]
  /\ req' = [req EXCEPT ![r] = [phase |-> "sent", model |-> Actual[m], grants |-> InTheWay(m), age |-> 0]]
  /\ UNCHANGED <<known, saved, restarts>>

Refuse(m) ==
  /\ ~Admissible(m)
  /\ breaker' = [s \in Scopes |-> IF s \in {Site, m} THEN Release(breaker[s]) ELSE breaker[s]]
  /\ UNCHANGED <<known, req, saved, restarts>>

Close(r) == req' = [req EXCEPT ![r] = Idle]

\* A success is recorded twice: by the router, whose database reads may fail
\* first, and then by the proxy itself.
RouterRecordsSuccess(r) ==
  /\ req[r].phase = "sent"
  /\ Record(req[r].model, "success")
  /\ req' = [req EXCEPT ![r].phase = "counted"]
  /\ UNCHANGED <<saved, restarts>>

ProxyRecordsSuccess(r) ==
  /\ req[r].phase \in {"sent", "counted"}
  /\ Record(req[r].model, "success")
  /\ Close(r)
  /\ UNCHANGED <<saved, restarts>>

RecordFailure(r, outcome) ==
  /\ req[r].phase = "sent"
  /\ Record(req[r].model, outcome)
  /\ Close(r)
  /\ UNCHANGED <<saved, restarts>>

\* An admitted attempt may end without an outcome: no credential, the channel
\* limiter refuses it, a failure that does not count, a failed database read.
Abandon(r) ==
  /\ req[r].phase = "sent"
  /\ Close(r)
  /\ UNCHANGED <<breaker, known, saved, restarts>>

\* The model probe calls the upstream without passing the gate.
BackgroundProbe(m, outcome) ==
  /\ outcome \in BackgroundProbes
  /\ Record(m, outcome)
  /\ UNCHANGED <<req, saved, restarts>>

Persist ==
  /\ restarts < MaxRestarts
  /\ saved' = [breaker |-> breaker, known |-> known]
  /\ UNCHANGED <<breaker, known, req, restarts>>

\* The next process loads the row, or starts empty when it cannot be read.
Restart ==
  /\ restarts < MaxRestarts
  /\ \E row \in {saved, Empty} : breaker' = row.breaker /\ known' = row.known
  /\ req' = [r \in Requests |-> Idle]
  /\ restarts' = restarts + 1
  /\ UNCHANGED saved

Older(age, limit) == Smaller(age + 1, limit + 1)
Aged(b) == [b EXCEPT !.gap = Older(b.gap, Window),
                     !.cool = IF b.cool > 0 THEN b.cool - 1 ELSE b.cool,
                     !.probe = IF b.probe = None THEN None ELSE Older(b.probe, ProbeTimeout)]

Tick ==
  /\ breaker' = [s \in Scopes |-> Aged(breaker[s])]
  /\ saved' = [saved EXCEPT !.breaker = [s \in Scopes |-> Aged(saved.breaker[s])]]
  /\ req' = [r \in Requests |-> IF req[r].grants = {} THEN req[r]
                                ELSE [req[r] EXCEPT !.age = Older(req[r].age, ProbeTimeout)]]
  /\ UNCHANGED <<known, restarts>>

Next ==
  \/ \E r \in Requests, m \in Models : Admit(r, m)
  \/ \E m \in Models : Refuse(m)
  \/ \E r \in Requests : RouterRecordsSuccess(r) \/ ProxyRecordsSuccess(r) \/ Abandon(r)
  \/ \E r \in Requests, outcome \in {"transient", "other"} : RecordFailure(r, outcome)
  \/ \E m \in Models, outcome \in {"success", "transient", "other"} : BackgroundProbe(m, outcome)
  \/ Persist \/ Restart \/ Tick

Spec == Init /\ [][Next]_vars

\* Time passes. Nothing else is assumed: clients may stop, attempts may hang.
FairSpec == Spec /\ WF_vars(Tick)

-----------------------------------------------------------------------------
(* Properties *)

\* Every breaker, in memory or in the settings row, keeps its fields in range:
\* the streak stays below the threshold that resets it and the level inside
\* the table of cooldowns.
TypeOK ==
  /\ breaker \in [Scopes -> Breaker]
  /\ known \subseteq Models
  /\ req \in [Requests -> Attempt]
  /\ saved \in [breaker : [Scopes -> Breaker], known : SUBSET Models]
  /\ restarts \in 0..MaxRestarts

\* A probe window exists only after a cooldown that has fully elapsed, however
\* late outcomes, background probes and restarts interleave with the grant
\* (HalfOpenSinceMs beside BreakerUntilMs).
HalfOpenIsElapsed == \A s \in Scopes : breaker[s].probe # None => breaker[s].cool = 0

Phase(b) == IF b.probe \in 0..ProbeTimeout THEN "half open"
            ELSE IF b.cool = None THEN "closed"
            ELSE IF b.cool = 0 THEN "elapsed" ELSE "open"

Moves == {<<"closed", "open">>,
          <<"open", "elapsed">>, <<"open", "closed">>,
          <<"elapsed", "half open">>, <<"elapsed", "open">>, <<"elapsed", "closed">>,
          <<"half open", "elapsed">>, <<"half open", "open">>, <<"half open", "closed">>}

\* Within one process a breaker never skips its cooldown or its probe: it goes
\* half-open only from an elapsed cooldown, and a cooldown starts only by
\* opening (the three states of runtime_health_breaker.go).
ThreeStates ==
  [][restarts' = restarts =>
       \A s \in Scopes : LET before == Phase(breaker[s])
                             after  == Phase(breaker'[s])
                         IN  before = after \/ <<before, after>> \in Moves]_vars

\* No attempt leaves for a site, or for a model under the name it is recorded
\* by, while that breaker is open or its probe is out ("open now means no
\* traffic until the cooldown expires", TryAdmitSiteModelRuntimeRequest).
NoTrafficWhileOpen ==
  [][\A r \in Requests :
       req[r].phase = "idle" /\ req'[r].phase = "sent" =>
         \A s \in {Site, req'[r].model} : Phase(breaker[s]) \in {"closed", "elapsed"}]_vars

\* At most one probe of a breaker is out inside its window ("Exactly one probe
\* passes; the rest keep being rejected", TryAdmitSiteModelRuntimeRequest).
OneProbePasses ==
  \A s \in Scopes, r1, r2 \in Requests :
    (/\ s \in req[r1].grants /\ req[r1].age <= ProbeTimeout
     /\ s \in req[r2].grants /\ req[r2].age <= ProbeTimeout) => r1 = r2

\* No model is refused for ever while time passes: cooldowns end and the window
\* of a probe whose outcome never arrives is given up (ProbeTimeout).  Background
\* probes that keep failing may isolate a model, so an instance has none.
NeverIsolated == \A m \in Models : []<>Admissible(m)
=============================================================================
