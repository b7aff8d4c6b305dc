---------------------------- MODULE RefreshFamily ----------------------------
(***************************************************************************)
(* Refreshing OAuth credentials whose refresh token is consumed by use.    *)
(* Several records (accounts, direct credentials) may hold the same token, *)
(* several gateway processes refresh them, and any of them may crash, lose *)
(* its lease or lose the acknowledgement of a commit at any point.         *)
(*                                                                         *)
(* The database keeps a journal (store/credential_refresh_family.go): a    *)
(* family per chain of rotated tokens, an alias per token, and leases      *)
(* (store/credential_refresh_lease.go). An attempt is one run of           *)
(* refreshDirectCredentialSnapshot or refreshManagedAccount                *)
(* (service/oauth); each database statement or transaction and the token   *)
(* request are one step. An expired lease row and an absent one behave     *)
(* alike, so expiry removes the row. A family row and an alias row that    *)
(* were never written are represented by the values they are first         *)
(* inserted with.                                                          *)
(***************************************************************************)
EXTENDS Naturals, FiniteSets

CONSTANTS
  Attempts,    \* refresh attempts, by the nonce that owns their leases
  Records,     \* credential records
  Tokens,      \* refresh tokens, by fingerprint
  FirstToken,  \* the token every record is imported with
  NoAttempt, NoRecord,
  Reusable,    \* CredentialRefreshReusable: the issuer does not consume the token
  MaxPublish,  \* tries of a publication: 3 in publishRefreshedCredential
  MaxImports   \* bound: operator imports

ASSUME NullAssumption == NoAttempt \notin Attempts /\ NoRecord \notin Records
ASSUME TokenAssumption == FirstToken \in Tokens
ASSUME ModeAssumption == Reusable \in BOOLEAN
ASSUME BoundAssumption == MaxPublish \in Nat /\ MaxImports \in Nat

VARIABLES
  rec, enabled,          \* credential rows: refresh token and access token
  expired,               \* access tokens that are near their expiry
  nextAt,                \* access tokens are numbered in order of issue
  known, alias, retired, \* alias rows: which exist, their family, their flag
  fam,                   \* family rows
  recLease, famLease,    \* unexpired lease rows
  consumed, issued,      \* the issuer's view of refresh tokens
  seen,                  \* tokens that some record has held
  imported,              \* history: the token an operator last put into each record
  edited,                \* history: families whose result record was replaced since
  imports,
  pc, target, snap,        \* per attempt: record, and the row it read first
  loc,                     \* per attempt: the CredentialRefreshFamily value
  got, tries,              \* per attempt: token to publish
  forced, aged, reuse      \* attempts with force, with Retired, with a token to reuse

store == <<rec, enabled, expired, nextAt, seen, imported, edited, imports>>
journal == <<known, alias, retired, fam>>
leases == <<recLease, famLease>>
issuer == <<consumed, issued>>
input == <<target, forced, snap>>
locals == <<pc, input, loc, got, tries, aged, reuse>>
vars == <<store, journal, leases, issuer, locals>>

Row == [rt : Tokens, at : Nat]
States == {"active", "refreshing", "uncertain"}
Family == [current : Tokens, generation : Nat, state : States,
           attempt : Attempts \cup {NoAttempt}, result : Records \cup {NoRecord}]
Local == [id : Tokens, current : Tokens, generation : Nat, state : States,
          attempt : Attempts \cup {NoAttempt}, result : Records \cup {NoRecord}]

NewFamily(t) == [current |-> t, generation |-> 0, state |-> "active",
                 attempt |-> NoAttempt, result |-> NoRecord]
NoLocal == [id |-> FirstToken, current |-> FirstToken, generation |-> 0, state |-> "active",
            attempt |-> NoAttempt, result |-> NoRecord]
NoRow == [rt |-> FirstToken, at |-> 0]

Goto(a, label) == pc' = [pc EXCEPT ![a] = label]

\* The attempt returns or its process dies; its variables are gone.
End(a) ==
  /\ Goto(a, "end")
  /\ target' = [target EXCEPT ![a] = NoRecord]
  /\ snap' = [snap EXCEPT ![a] = NoRow]
  /\ loc' = [loc EXCEPT ![a] = NoLocal] /\ got' = [got EXCEPT ![a] = NoRow]
  /\ tries' = [tries EXCEPT ![a] = 0]
  /\ forced' = forced \ {a} /\ aged' = aged \ {a} /\ reuse' = reuse \ {a}

-----------------------------------------------------------------------------
(* The attempt: record lease and reload *)

\* ResolveDirectCredential reads the row before it waits for any lease.
Start(a, r, f) ==
  /\ pc[a] = "idle"
  /\ r \in enabled
  /\ f \/ rec[r].at \in expired
  /\ target' = [target EXCEPT ![a] = r]
  /\ forced' = IF f THEN forced \cup {a} ELSE forced
  /\ snap' = [snap EXCEPT ![a] = rec[r]]
  /\ Goto(a, "record")
  /\ UNCHANGED <<store, journal, leases, issuer, loc, got, tries, aged, reuse>>

\* The upsert wins when the row is absent or expired.
AcquireRecord(a) ==
  /\ pc[a] = "record"
  /\ recLease[target[a]] = NoAttempt
  /\ recLease' = [recLease EXCEPT ![target[a]] = a]
  /\ Goto(a, "reload")
  /\ UNCHANGED <<store, journal, famLease, issuer, input, loc, got, tries, aged, reuse>>

\* The attempt gives up after 30 seconds of waiting, or when the statement fails,
\* which it may do although the row was written.
AcquireRecordFails(a) ==
  /\ pc[a] = "record"
  /\ \/ recLease' = recLease
     \/ recLease[target[a]] = NoAttempt /\ recLease' = [recLease EXCEPT ![target[a]] = a]
  /\ End(a)
  /\ UNCHANGED <<store, journal, famLease, issuer>>

\* Another attempt may have published meanwhile: then its token is returned, or
\* the caller is told that the credential changed. Neither refreshes.
Reload(a) ==
  /\ pc[a] = "reload"
  /\ IF target[a] \in enabled /\ rec[target[a]] = snap[a]
     THEN Goto(a, "family") \/ Goto(a, "releaseRecord")
     ELSE Goto(a, "releaseRecord")
  /\ UNCHANGED <<store, journal, leases, issuer, input, loc, got, tries, aged, reuse>>

-----------------------------------------------------------------------------
(* AcquireCredentialRefreshFamily *)

\* The first transaction inserts the alias and its family unless they exist.
RegisterAlias(a) ==
  /\ pc[a] = "family"
  /\ \/ /\ known' = known \cup {snap[a].rt}
        /\ Goto(a, "famLease") \/ Goto(a, "releaseRecord")
     \/ known' = known /\ Goto(a, "releaseRecord")
  /\ UNCHANGED <<store, alias, retired, fam, leases, issuer, input, loc, got, tries, aged, reuse>>

AcquireFamily(a) ==
  LET id == alias[snap[a].rt] IN
  /\ pc[a] = "famLease"
  /\ \/ /\ famLease[id] = NoAttempt
        /\ famLease' = [famLease EXCEPT ![id] = a]
        /\ loc' = [loc EXCEPT ![a].id = id]
        /\ Goto(a, "load") \/ Goto(a, "releaseRecord")
     \/ UNCHANGED <<famLease, loc>> /\ Goto(a, "releaseRecord")
  /\ UNCHANGED <<store, journal, recLease, issuer, input, got, tries, aged, reuse>>

\* The join of the alias with its family, and the decisions that follow it.
LoadFamily(a) ==
  LET id == alias[snap[a].rt]
      f == fam[id]
      old == snap[a].rt \in retired
  IN /\ pc[a] = "load"
     /\ loc' = [loc EXCEPT ![a] =
          [id |-> id, current |-> f.current, generation |-> f.generation, state |-> f.state,
           attempt |-> f.attempt, result |-> f.result]]
     /\ aged' = IF old THEN aged \cup {a} ELSE aged
     /\ \/ Goto(a, "releaseFamily")           \* the read fails
        \/ /\ f.state = "active"
           /\ old \/ f.current = snap[a].rt   \* else ErrRefreshFamilyChanged
           /\ Goto(a, "winner")
        \/ /\ f.state # "active" /\ Reusable  \* else ErrRefreshUncertain
           /\ ~old /\ f.current = snap[a].rt
           /\ Goto(a, "resume")
     /\ UNCHANGED <<store, journal, leases, issuer, input, got, tries, reuse>>

\* The row lease of the family is still ours and the row is the one we read, in
\* the state we expect: BeginFencedTx and the compare-and-set of currentTx.
Fenced(a) == famLease[loc[a].id] = a
CurrentTx_Bug(a, state) == loc[a].id \in Tokens
CurrentTx_Bug2(a, state) == fam[loc[a].id].generation = loc[a].generation
CurrentTx(a, state) ==
  LET f == fam[loc[a].id] IN
  /\ Fenced(a)
  /\ f.generation = loc[a].generation
  /\ f.current = loc[a].current
  /\ f.state = state
  /\ f.attempt = loc[a].attempt

\* What a transaction does to the family row and to the value in memory, when it
\* commits with (next) or without (lost) an acknowledgement, or does not (fail).
Mark(a, state, attempt) ==
  fam' = [fam EXCEPT ![loc[a].id].state = state, ![loc[a].id].attempt = attempt]

ResumeReusable(a) ==
  /\ pc[a] = "resume"
  /\ \/ /\ CurrentTx(a, loc[a].state)
        /\ Mark(a, "active", NoAttempt)
        /\ \/ /\ loc' = [loc EXCEPT ![a].state = "active", ![a].attempt = NoAttempt]
              /\ Goto(a, "winner")
           \/ loc' = loc /\ Goto(a, "releaseFamily")
     \/ UNCHANGED <<fam, loc>> /\ Goto(a, "releaseFamily")
  /\ UNCHANGED <<store, known, alias, retired, leases, issuer, input, got, tries, aged, reuse>>

-----------------------------------------------------------------------------
(* refreshFamilyWinner: reuse what another record already obtained *)

Winner(a) ==
  LET r == loc[a].result
      valid == /\ loc[a].generation > 0
               /\ r # NoRecord
               /\ rec[r].rt = loc[a].current
               /\ rec[r].at \notin expired
               /\ ~(a \in forced /\ rec[r].at = snap[a].at)
  IN /\ pc[a] = "winner"
     /\ \/ Goto(a, "releaseFamily") /\ UNCHANGED <<got, reuse>>
        \/ /\ valid
           /\ got' = [got EXCEPT ![a] = rec[r]]
           /\ reuse' = reuse \cup {a}
           /\ Goto(a, "publish")
        \/ /\ ~valid /\ a \notin aged        \* a retired token is never sent
           /\ Goto(a, "begin")
           /\ UNCHANGED <<got, reuse>>
     /\ UNCHANGED <<store, journal, leases, issuer, input, loc, tries, aged>>

-----------------------------------------------------------------------------
(* refreshFamilyWithRetry: intent, token request, outcome *)

\* Begin commits the intent before the request. Without the acknowledgement the
\* token is not sent and the intent stays. The flag f.started is the label: it is
\* set from "exchange" on and cleared when FailDefinite returns to "begin".
Begin(a) ==
  /\ pc[a] = "begin"
  /\ \/ /\ a \notin aged /\ snap[a].rt = loc[a].current
        /\ CurrentTx(a, "active")
        /\ Mark(a, "refreshing", a)
        /\ \/ /\ loc' = [loc EXCEPT ![a].state = "refreshing", ![a].attempt = a]
              /\ Goto(a, "exchange")
           \/ loc' = loc /\ Goto(a, "releaseFamily")
     \/ UNCHANGED <<fam, loc>> /\ Goto(a, "releaseFamily")
  /\ UNCHANGED <<store, known, alias, retired, leases, issuer, input, got, tries, aged, reuse>>

\* The issuer answers. A definite refusal means that it did not consume the token;
\* any other failure says nothing about that. A success may return a new token or
\* the same one (Codex may also be renewed through its web session: no token is sent).
Refused(a) == Goto(a, "refused") /\ UNCHANGED <<issuer, got, nextAt>>

Answered(a) ==
  /\ \/ /\ UNCHANGED issuer
        /\ got' = [got EXCEPT ![a] = [rt |-> snap[a].rt, at |-> nextAt]]
     \/ \E t \in Tokens \ issued :
          /\ ~Reusable
          /\ consumed' = consumed \cup {snap[a].rt}
          /\ issued' = issued \cup {t}
          /\ got' = [got EXCEPT ![a] = [rt |-> t, at |-> nextAt]]
  /\ nextAt' = nextAt + 1
  /\ Goto(a, "publish")

Unanswered(a) ==
  /\ consumed' \in {consumed, consumed \cup (IF Reusable THEN {} ELSE {snap[a].rt})}
  /\ Goto(a, IF Reusable THEN "refused" ELSE "doubt")
  /\ UNCHANGED <<issued, got, nextAt>>

Exchange(a) ==
  /\ pc[a] = "exchange"
  /\ Refused(a) \/ Answered(a) \/ Unanswered(a)
  /\ UNCHANGED <<rec, enabled, expired, seen, imported, edited, imports, journal, leases,
                 input, loc, tries, aged, reuse>>

\* Fail commits, with the value in memory following it, or it has no effect there.
Fail(a, state, attempt) ==
  \/ /\ CurrentTx(a, "refreshing")
     /\ Mark(a, state, attempt)
     /\ \/ loc' = [loc EXCEPT ![a].state = state, ![a].attempt = attempt]
        \/ loc' = loc
  \/ UNCHANGED <<fam, loc>>

\* Fail(definite): only when it is known to have worked the request is retried.
FailDefinite(a) ==
  /\ pc[a] = "refused"
  /\ Fail(a, "active", NoAttempt)
  /\ \/ loc'[a].state = "active" /\ Goto(a, "begin")
     \/ Goto(a, "cleanup")
  /\ UNCHANGED <<store, known, alias, retired, leases, issuer, input, got, tries, aged, reuse>>

FailUncertain_Bug(a) ==
  /\ pc[a] = "doubt"
  /\ Fail(a, "active", NoAttempt)
  /\ Goto(a, "cleanup")
  /\ UNCHANGED <<store, known, alias, retired, leases, issuer, input, got, tries, aged, reuse>>
FailUncertain(a) ==
  /\ pc[a] = "doubt"
  /\ Fail(a, "uncertain", loc[a].attempt)
  /\ Goto(a, "cleanup")
  /\ UNCHANGED <<store, known, alias, retired, leases, issuer, input, got, tries, aged, reuse>>

-----------------------------------------------------------------------------
(* publishRefreshedCredential *)

\* The record is still the row that was read and its lease is still ours.
RecordUnchanged_Bug(a) == recLease[target[a]] = a /\ target[a] \in enabled
RecordUnchanged(a) ==
  /\ recLease[target[a]] = a
  /\ target[a] \in enabled
  /\ rec[target[a]] = snap[a]

WriteRecord(a) ==
  /\ rec' = [rec EXCEPT ![target[a]] = got[a]]
  /\ seen' = seen \cup {got[a].rt}
  /\ edited' = edited \ {loc[a].id}

\* FinishTx: the new token becomes current and the old one is retired.
FinishTx_Bug(a) ==
  /\ CurrentTx(a, "refreshing")
  /\ known' = known \cup {got[a].rt}
  /\ alias' = [alias EXCEPT ![got[a].rt] = loc[a].id]
  /\ retired' = retired
  /\ fam' = [fam EXCEPT ![loc[a].id] =
       [current |-> got[a].rt, generation |-> loc[a].generation + 1, state |-> "active",
        attempt |-> a, result |-> target[a]]]
FinishTx(a) ==
  LET old == snap[a].rt
      new == got[a].rt
      id == loc[a].id
  IN /\ CurrentTx(a, "refreshing")
     /\ IF new = old THEN UNCHANGED <<known, alias, retired>>
        ELSE /\ new \notin known
             /\ known' = known \cup {new}
             /\ alias' = [alias EXCEPT ![new] = id]
             /\ retired' = retired \cup {old}
     /\ fam' = [fam EXCEPT ![id] =
          [current |-> new, generation |-> loc[a].generation + 1, state |-> "active",
           attempt |-> a, result |-> target[a]]]

PointResultTx(a) ==
  /\ CurrentTx(a, "active")
  /\ fam' = [fam EXCEPT ![loc[a].id].result = target[a], ![loc[a].id].attempt = a]
  /\ UNCHANGED <<known, alias, retired>>

\* One transaction for the record, its lease, the family and its lease. A
\* transaction that did not report success is looked up in the next step.
Publish(a) ==
  /\ pc[a] = "publish"
  /\ \/ /\ RecordUnchanged(a)
        /\ IF a \in reuse THEN PointResultTx(a) ELSE FinishTx(a)
        /\ WriteRecord(a)
        /\ \/ loc' = [loc EXCEPT ![a].state = "active"] /\ Goto(a, "releaseFamily")
           \/ loc' = loc /\ Goto(a, "lookup")
     \/ /\ UNCHANGED <<rec, seen, edited, journal, loc>>
        /\ Goto(a, "lookup")
  /\ tries' = [tries EXCEPT ![a] = @ + 1]
  /\ UNCHANGED <<enabled, expired, nextAt, imported, imports, leases, issuer, input, got, aged, reuse>>

\* PublicationMatches: the family row carries our nonce and our result.
PublicationMatches(a) ==
  LET f == fam[loc[a].id] IN
  /\ f.state = "active"
  /\ f.generation = loc[a].generation + (IF a \in reuse THEN 0 ELSE 1)
  /\ f.current = got[a].rt
  /\ f.attempt = a
  /\ f.result = target[a]

Lookup(a) ==
  /\ pc[a] = "lookup"
  /\ \/ /\ PublicationMatches(a)
        /\ loc' = [loc EXCEPT ![a].state = "active"]
        /\ Goto(a, "releaseFamily")
     \/ /\ loc' = loc
        /\ \/ tries[a] < MaxPublish /\ Goto(a, "publish")
           \/ Goto(a, "cleanup")
  /\ UNCHANGED <<store, journal, leases, issuer, input, got, tries, aged, reuse>>

-----------------------------------------------------------------------------
(* The deferred calls, and the environment *)

\* An attempt that may have consumed the token leaves the family uncertain.
MarkUncertain_Bug(a) ==
  /\ pc[a] = "cleanup"
  /\ IF loc[a].state = "refreshing" THEN Fail(a, "active", NoAttempt) ELSE UNCHANGED <<fam, loc>>
  /\ Goto(a, "releaseFamily")
  /\ UNCHANGED <<store, known, alias, retired, leases, issuer, input, got, tries, aged, reuse>>
MarkUncertain(a) ==
  /\ pc[a] = "cleanup"
  /\ IF loc[a].state = "refreshing" THEN Fail(a, "uncertain", loc[a].attempt)
     ELSE UNCHANGED <<fam, loc>>
  /\ Goto(a, "releaseFamily")
  /\ UNCHANGED <<store, known, alias, retired, leases, issuer, input, got, tries, aged, reuse>>

\* DELETE ... WHERE lease_key=? AND owner=?; its failure leaves the row to expiry.
ReleaseFamily(a) ==
  LET id == loc[a].id IN
  /\ pc[a] = "releaseFamily"
  /\ famLease' \in {famLease, IF famLease[id] = a THEN [famLease EXCEPT ![id] = NoAttempt] ELSE famLease}
  /\ Goto(a, "releaseRecord")
  /\ UNCHANGED <<store, journal, recLease, issuer, input, loc, got, tries, aged, reuse>>

ReleaseRecord(a) ==
  LET r == target[a] IN
  /\ pc[a] = "releaseRecord"
  /\ recLease' \in {recLease, IF recLease[r] = a THEN [recLease EXCEPT ![r] = NoAttempt] ELSE recLease}
  /\ End(a)
  /\ UNCHANGED <<store, journal, famLease, issuer>>

Crash(a) ==
  /\ pc[a] \notin {"idle", "end"}
  /\ End(a)
  /\ UNCHANGED <<store, journal, leases, issuer>>

\* 180 seconds pass, whatever the owner is doing.
ExpireLease ==
  /\ \/ \E r \in Records : recLease[r] # NoAttempt /\ recLease' = [recLease EXCEPT ![r] = NoAttempt]
                           /\ famLease' = famLease
     \/ \E t \in Tokens : famLease[t] # NoAttempt /\ famLease' = [famLease EXCEPT ![t] = NoAttempt]
                          /\ recLease' = recLease
  /\ UNCHANGED <<store, journal, issuer, locals>>

ExpireAccess(r) ==
  /\ rec[r].at \notin expired
  /\ expired' = expired \cup {rec[r].at}
  /\ UNCHANGED <<rec, enabled, nextAt, seen, imported, edited, imports, journal, leases, issuer, locals>>

\* The operator logs in again, or imports a token that some record has held before.
Import(r, t) ==
  /\ imports < MaxImports
  /\ t \in seen \/ t \notin issued
  /\ imports' = imports + 1
  /\ issued' = issued \cup {t}
  /\ seen' = seen \cup {t}
  /\ imported' = [imported EXCEPT ![r] = t]
  /\ edited' = edited \cup {g \in Tokens : fam[g].result = r}
  /\ rec' = [rec EXCEPT ![r] = [rt |-> t, at |-> nextAt]]
  /\ nextAt' = nextAt + 1
  /\ UNCHANGED <<enabled, expired, consumed, journal, leases, locals>>

Toggle(r) ==
  /\ imports < MaxImports
  /\ imports' = imports + 1
  /\ enabled' = IF r \in enabled THEN enabled \ {r} ELSE enabled \cup {r}
  /\ UNCHANGED <<rec, expired, nextAt, seen, imported, edited, journal, leases, issuer, locals>>

-----------------------------------------------------------------------------
Init ==
  /\ rec = [r \in Records |-> NoRow] /\ enabled = Records /\ expired = {} /\ nextAt = 1
  /\ seen = {FirstToken} /\ imported = [r \in Records |-> FirstToken] /\ edited = {} /\ imports = 0
  /\ known = {} /\ alias = [t \in Tokens |-> t] /\ retired = {}
  /\ fam = [t \in Tokens |-> NewFamily(t)]
  /\ recLease = [r \in Records |-> NoAttempt] /\ famLease = [t \in Tokens |-> NoAttempt]
  /\ consumed = {} /\ issued = {FirstToken}
  /\ pc = [a \in Attempts |-> "idle"] /\ target = [a \in Attempts |-> NoRecord]
  /\ forced = {} /\ aged = {} /\ reuse = {}
  /\ snap = [a \in Attempts |-> NoRow]
  /\ loc = [a \in Attempts |-> NoLocal] /\ got = [a \in Attempts |-> NoRow]
  /\ tries = [a \in Attempts |-> 0]

Step(a) ==
  \/ \E r \in Records, f \in BOOLEAN : Start(a, r, f)
  \/ AcquireRecord(a) \/ AcquireRecordFails(a) \/ Reload(a)
  \/ RegisterAlias(a) \/ AcquireFamily(a) \/ LoadFamily(a) \/ ResumeReusable(a)
  \/ Winner(a) \/ Begin(a) \/ Exchange(a) \/ FailDefinite(a) \/ FailUncertain(a)
  \/ Publish(a) \/ Lookup(a)
  \/ MarkUncertain(a) \/ ReleaseFamily(a) \/ ReleaseRecord(a)

Environment ==
  \/ \E a \in Attempts : Crash(a)
  \/ ExpireLease
  \/ \E r \in Records : ExpireAccess(r) \/ Toggle(r)
  \/ \E r \in Records, t \in Tokens : Import(r, t)

Next == (\E a \in Attempts : Step(a)) \/ Environment

Spec == Init /\ [][Next]_vars

-----------------------------------------------------------------------------
(* Properties *)

\* The attempt committed an intent and has not yet told the journal the outcome.
Unsettled(a) == \/ pc[a] \in {"exchange", "refused", "doubt"}
                \/ pc[a] = "publish" /\ a \notin reuse /\ tries[a] = 0

\* Rows and local values keep their shape.
TypeOK ==
  /\ rec \in [Records -> Row] /\ enabled \subseteq Records
  /\ expired \subseteq Nat /\ nextAt \in Nat /\ imports \in Nat
  /\ seen \subseteq Tokens /\ edited \subseteq Tokens /\ imported \in [Records -> Tokens]
  /\ known \subseteq Tokens /\ retired \subseteq Tokens
  /\ alias \in [Tokens -> Tokens] /\ fam \in [Tokens -> Family]
  /\ recLease \in [Records -> Attempts \cup {NoAttempt}]
  /\ famLease \in [Tokens -> Attempts \cup {NoAttempt}]
  /\ consumed \subseteq Tokens /\ issued \subseteq Tokens
  /\ pc \in [Attempts -> {"idle", "record", "reload", "family", "famLease", "load", "resume",
                          "winner", "begin", "exchange", "refused", "doubt", "publish",
                          "lookup", "cleanup", "releaseFamily", "releaseRecord", "end"}]
  /\ target \in [Attempts -> Records \cup {NoRecord}]
  /\ snap \in [Attempts -> Row] /\ loc \in [Attempts -> Local]
  /\ got \in [Attempts -> Row] /\ tries \in [Attempts -> Nat]
  /\ forced \subseteq Attempts /\ aged \subseteq Attempts /\ reuse \subseteq Attempts

\* A consumed refresh token is never sent to the issuer again, by whatever attempt
\* from whatever record (credential_refresh_family.go 207-210 and 255-260).
NoReplay == \A a \in Attempts : pc[a] = "exchange" => snap[a].rt \notin consumed

\* At any moment at most one attempt has an unsettled intent for a family, although
\* leases expire under their owners (credential_refresh_family.go 236-253).
OneIntent == ~Reusable =>
  \A a, b \in Attempts : Unsettled(a) /\ Unsettled(b) /\ loc[a].id = loc[b].id => a = b

\* The journal never takes a consumed token for a usable one: it is retired or its
\* family is not active, also after a crash between request and publication.
JournalKnowsConsumed == \A t \in consumed : t \in retired \/ fam[alias[t]].state # "active"

\* No token is lost. The record that an active family points to holds the newest
\* token of that family, unless an operator replaced that record since: both are
\* published together (refresh_family.go 55-82). And the token that an operator put
\* into a record stays there until it is consumed: a late answer to an older one
\* never overwrites it (direct_credential.go 367-383).
NewestTokenStored ==
  /\ \A t \in Tokens : LET f == fam[t] IN
       f.state = "active" /\ f.generation > 0 /\ t \notin edited => rec[f.result].rt = f.current
  /\ \A r \in Records : rec[r].rt = imported[r] \/ imported[r] \in consumed

\* A late owner cannot publish after expiry or takeover: only the attempt that owns
\* the family lease changes the family row (credential_refresh_lease.go 84-85).
LateOwnerHarmless ==
  [][\A t \in Tokens : fam'[t] # fam[t] =>
       \E a \in Attempts : famLease[t] = a /\ pc'[a] # pc[a]]_vars

\* The journal implements the one-time token: a token is usable exactly while its
\* family is active and it is not retired.
Status(t) == LET f == fam[alias[t]] IN
  CASE t \in retired -> "retired"
    [] t \notin retired /\ f.state = "active" -> "usable"
    [] t \notin retired /\ f.state = "refreshing" -> "spending"
    [] OTHER -> "doubtful"
Spender(t) == IF Status(t) \in {"spending", "doubtful"} THEN fam[alias[t]].attempt ELSE NoAttempt

OneTime == INSTANCE OneTimeToken WITH
  status <- [t \in Tokens |-> Status(t)],
  spender <- [t \in Tokens |-> Spender(t)]
ImplementsOneTimeToken == OneTime!Spec
=============================================================================
