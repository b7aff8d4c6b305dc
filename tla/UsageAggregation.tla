-------------------------- MODULE UsageAggregation --------------------------
(***************************************************************************)
(* The projection of the attempt records into the usage aggregates         *)
(* (scheduler/usage_aggregation.go), over the table that LogWriter fills.  *)
(* Processes that share a database take a lease in the row of the          *)
(* checkpoint, read its watermark and apply batch after batch: one         *)
(* transaction adds a batch to the three tables of aggregates and moves    *)
(* the watermark.  A requested recompute deletes aggregates from a day on, *)
(* table by table, and moves the watermark back.                           *)
(***************************************************************************)
EXTENDS LogWriter, FiniteSetsExt

CONSTANTS
  Instances,    \* processes that run the scheduler on one database
  NoInstance,   \* the holder of a lease nobody holds
  Fetch,        \* usageProjectionBatchSize
  MaxBatches,   \* usageProjectionMaxBatches
  Orphans,      \* entries without an account or a site
  RowsPerDay,   \* ids written on one day
  Rewinds,      \* ids from which a recompute is requested
  MaxEvents     \* bound on crashes, slow passes, recomputes, deletions, resets and a close of the database together

ASSUME UsageAssumption ==
  /\ NoInstance \notin Instances /\ Orphans \subseteq Entries
  /\ Fetch \in Nat \ {0} /\ MaxBatches \in Nat \ {0} /\ RowsPerDay \in Nat \ {0}
  /\ Rewinds \subseteq Nat \ {0} /\ MaxEvents \in Nat

VARIABLES
  checkpoint, \* the row of analytics_projection_checkpoints
  present,    \* that row exists
  agg,        \* agg[t]: ids counted in table t
  twice,      \* twice[t]: ids counted there more than once
  pass,       \* the projection pass of each process
  request,    \* the id a RequestRecompute is about to store, or 0
  spent,      \* how many of those events happened
  late,       \* ids that were not visible when the watermark went past them (history)
  cut,        \* ids that a recompute has deleted and does not count again (history)
  spoiled     \* a pass ran beside another, or took a failed read for an empty one (history)

usageVars == <<checkpoint, present, agg, twice, pass, request, spent, late, cut, spoiled>>
vars == <<logVars, usageVars>>

-----------------------------------------------------------------------------
\* site_day_usage, site_hour_usage, model_day_usage
Tables == 1..3
Day(id) == (id - 1) \div RowsPerDay

NoCheckpoint == [last |-> 0, recompute |-> 0, holder |-> NoInstance, expired |-> FALSE]
NoPass == [step |-> "idle", mark |-> 0, from |-> 0, rows |-> {}, sites |-> {}, batches |-> 0, deleted |-> 0]
Running(p) == pass[p].step # "idle"

Goto(p, step) == pass' = [pass EXCEPT ![p].step = step]
Spend == spent < MaxEvents /\ spent' = spent + 1

\* A statement fails; nothing of it remains.
Fail == /\ failures < MaxFailures /\ failures' = failures + 1
        /\ UNCHANGED <<producer, writer, mode, loop, queue, buf, rowwise, rows, open, cleared, repeated, database>>

\* The rows from an id on, and the next batch above a watermark.
From(id) == {i \in Ids : Visible(i) /\ i >= id}
NextBatch(mark) == {i \in From(mark + 1) : Cardinality({j \in From(mark + 1) : j <= i}) <= Fetch}

\* The watermark moves to an id past visible rows that are in no batch.
Skipped(id, batch) == {i \in Ids : Visible(i) /\ checkpoint.last < i /\ i <= id} \ batch

-----------------------------------------------------------------------------
(* A pass *)

\* tryAcquireLease creates a missing row, then takes the lease when nobody
\* holds it or it has expired.
Acquire_Bug(p) ==
  /\ ~Running(p)
  /\ checkpoint.holder = NoInstance
  /\ checkpoint' = [checkpoint EXCEPT !.holder = p, !.expired = FALSE] /\ present' = TRUE
  /\ pass' = [pass EXCEPT ![p] = [NoPass EXCEPT !.step = "read"]]
  /\ UNCHANGED <<logVars, agg, twice, request, spent, late, cut, spoiled>>
Acquire(p) ==
  /\ ~Running(p)
  /\ checkpoint.holder = NoInstance \/ checkpoint.expired
  /\ checkpoint' = [checkpoint EXCEPT !.holder = p, !.expired = FALSE] /\ present' = TRUE
  /\ pass' = [pass EXCEPT ![p] = [NoPass EXCEPT !.step = "read"]]
  /\ spoiled' = (spoiled \/ \E q \in Instances : Running(q))
  /\ UNCHANGED <<logVars, agg, twice, request, spent, late, cut>>

ReadCheckpoint(p) ==
  /\ pass[p].step = "read"
  /\ pass' = [pass EXCEPT ![p].mark = checkpoint.last, ![p].from = checkpoint.recompute,
                          ![p].step = IF checkpoint.recompute = 0 THEN "fetch" ELSE "find"]
  /\ UNCHANGED <<logVars, checkpoint, present, agg, twice, request, spent, late, cut, spoiled>>

\* A failed read of the checkpoint reads as watermark 0 and no recompute; a
\* failed look-up of the affected row reads as a row that is gone.
ReadFails(p) ==
  /\ pass[p].step \in {"read", "find"}
  /\ Fail
  /\ Goto(p, IF pass[p].step = "read" THEN "fetch" ELSE "clear")
  /\ spoiled' = TRUE
  /\ UNCHANGED <<checkpoint, present, agg, twice, request, spent, late, cut>>

\* Any other failed statement ends the pass; it resumes from the watermark.
PassFails(p) ==
  /\ pass[p].step \in {"clear", "delete", "rewind", "fetch", "apply"}
  /\ Fail
  /\ Goto(p, "release")
  /\ UNCHANGED <<checkpoint, present, agg, twice, request, spent, late, cut, spoiled>>

FetchBatch(p) ==
  /\ pass[p].step = "fetch"
  /\ LET batch == NextBatch(pass[p].mark)
     IN  pass' = [pass EXCEPT ![p].rows = batch, ![p].sites = {i \in batch : rows[i] \notin Orphans},
                              ![p].step = IF batch = {} THEN "release" ELSE "apply"]
  /\ UNCHANGED <<logVars, checkpoint, present, agg, twice, request, spent, late, cut, spoiled>>

EndsPass(p) == Cardinality(pass[p].rows) < Fetch \/ pass[p].batches + 1 = MaxBatches

\* One transaction: the three tables and the watermark.  Without its row the
\* checkpoint cannot move, and the transaction is rolled back.
ApplyBatch_Bug(p) ==
  /\ pass[p].step = "apply"
  /\ agg' = [t \in Tables |-> agg[t] \cup pass[p].sites]
  /\ twice' = [t \in Tables |-> twice[t] \cup (agg[t] \cap pass[p].sites)]
  /\ IF present THEN checkpoint' = [checkpoint EXCEPT !.last = Max(pass[p].rows)] ELSE UNCHANGED checkpoint
  /\ late' = late \cup Skipped(Max(pass[p].rows), pass[p].rows)
  /\ pass' = [pass EXCEPT ![p].mark = Max(pass[p].rows), ![p].batches = @ + 1,
                          ![p].step = IF EndsPass(p) THEN "release" ELSE "fetch"]
  /\ UNCHANGED <<logVars, present, request, spent, cut, spoiled>>
ApplyBatch(p) ==
  /\ pass[p].step = "apply" /\ present
  /\ agg' = [t \in Tables |-> agg[t] \cup pass[p].sites]
  /\ twice' = [t \in Tables |-> twice[t] \cup (agg[t] \cap pass[p].sites)]
  /\ checkpoint' = [checkpoint EXCEPT !.last = Max(pass[p].rows)]
  /\ late' = late \cup Skipped(Max(pass[p].rows), pass[p].rows)
  /\ pass' = [pass EXCEPT ![p].mark = Max(pass[p].rows), ![p].batches = @ + 1,
                          ![p].step = IF EndsPass(p) THEN "release" ELSE "fetch"]
  /\ UNCHANGED <<logVars, present, request, spent, cut, spoiled>>

NoRow(p) ==
  /\ pass[p].step \in {"apply", "rewind"} /\ ~present
  /\ Goto(p, "release")
  /\ UNCHANGED <<logVars, checkpoint, present, agg, twice, request, spent, late, cut, spoiled>>

\* The lease is given back only by the token that took it.
ReleaseLease(p) ==
  /\ pass[p].step = "release"
  /\ checkpoint' = IF checkpoint.holder = p
                   THEN [checkpoint EXCEPT !.holder = NoInstance, !.expired = FALSE] ELSE checkpoint
  /\ pass' = [pass EXCEPT ![p] = NoPass]
  /\ UNCHANGED <<logVars, present, agg, twice, request, spent, late, cut, spoiled>>

ReleaseFails(p) ==
  /\ pass[p].step = "release"
  /\ Fail
  /\ pass' = [pass EXCEPT ![p] = NoPass]
  /\ UNCHANGED <<checkpoint, present, agg, twice, request, spent, late, cut, spoiled>>

-----------------------------------------------------------------------------
(* applyRecompute *)

FindAffected(p) ==
  /\ pass[p].step = "find"
  /\ IF From(pass[p].from) = {} THEN Goto(p, "clear")
     ELSE pass' = [pass EXCEPT ![p].from = Min(From(@)), ![p].step = "delete"]
  /\ UNCHANGED <<logVars, checkpoint, present, agg, twice, request, spent, late, cut, spoiled>>

ClearRequest(p) ==
  /\ pass[p].step = "clear"
  /\ checkpoint' = [checkpoint EXCEPT !.recompute = 0]
  /\ Goto(p, "fetch")
  /\ UNCHANGED <<logVars, present, agg, twice, request, spent, late, cut, spoiled>>

\* Three statements of their own, each idempotent.  They delete whole days: rows of
\* the first one that come before the affected row go too, and are not counted again.
DeleteAggregates(p) ==
  /\ pass[p].step = "delete"
  /\ LET t == pass[p].deleted + 1
         Kept(ids) == {id \in ids : Day(id) < Day(pass[p].from)}
     IN  /\ agg' = [agg EXCEPT ![t] = Kept(@)]
         /\ twice' = [twice EXCEPT ![t] = Kept(@)]
         /\ cut' = cut \cup {id \in agg[t] \ Kept(agg[t]) : id < pass[p].from}
         /\ pass' = [pass EXCEPT ![p].deleted = t, ![p].step = IF t = 3 THEN "rewind" ELSE "delete"]
  /\ UNCHANGED <<logVars, checkpoint, present, request, spent, late, spoiled>>

Rewind(p) ==
  /\ pass[p].step = "rewind" /\ present
  /\ checkpoint' = [checkpoint EXCEPT !.last = pass[p].from - 1, !.recompute = 0]
  /\ pass' = [pass EXCEPT ![p].mark = pass[p].from - 1, ![p].step = "fetch"]
  /\ late' = {id \in late \cup Skipped(pass[p].from - 1, {}) : id < pass[p].from}
  /\ cut' = {id \in cut : id < pass[p].from}
  /\ UNCHANGED <<logVars, present, agg, twice, request, spent, spoiled>>

\* RequestRecompute reads the checkpoint, keeps the smaller id and stores it.
RequestRecompute(id) ==
  /\ request = 0
  /\ Spend
  /\ request' = IF checkpoint.recompute # 0 /\ checkpoint.recompute < id THEN checkpoint.recompute ELSE id
  /\ UNCHANGED <<logVars, checkpoint, present, agg, twice, pass, late, cut, spoiled>>

\* A failed read of the checkpoint reads as no request; a smaller one is lost.
RequestBlindly(id) ==
  /\ request = 0
  /\ Spend /\ Fail
  /\ request' = id
  /\ spoiled' = (spoiled \/ (checkpoint.recompute # 0 /\ checkpoint.recompute < id))
  /\ UNCHANGED <<checkpoint, present, agg, twice, pass, late, cut>>

StoreRequest ==
  /\ request # 0
  /\ checkpoint' = IF present THEN [checkpoint EXCEPT !.recompute = request] ELSE checkpoint
  /\ request' = 0
  /\ UNCHANGED <<logVars, present, agg, twice, pass, spent, late, cut, spoiled>>

StoreFails ==
  /\ request # 0
  /\ Fail
  /\ request' = 0
  /\ UNCHANGED <<checkpoint, present, agg, twice, pass, spent, late, cut, spoiled>>

-----------------------------------------------------------------------------
(* Around it *)

\* Ten minutes pass: at any time when the holder is gone, and as often as the
\* bound allows when its pass still runs.
LeaseExpires ==
  /\ checkpoint.holder # NoInstance /\ ~checkpoint.expired
  /\ checkpoint' = [checkpoint EXCEPT !.expired = TRUE]
  /\ IF Running(checkpoint.holder) THEN Spend ELSE UNCHANGED spent
  /\ UNCHANGED <<logVars, present, agg, twice, pass, request, late, cut, spoiled>>

Crash(p) ==
  /\ Running(p)
  /\ Spend
  /\ pass' = [pass EXCEPT ![p] = NoPass]
  /\ UNCHANGED <<logVars, checkpoint, present, agg, twice, request, late, cut, spoiled>>

\* clearUsage deletes the attempt records and leaves the aggregates alone.
ClearUsage ==
  /\ Spend
  /\ cleared' = {id \in Ids : id \in cleared \/ Visible(id)}
  /\ UNCHANGED <<producer, writer, mode, loop, queue, buf, rowwise, rows, open, repeated, database, failures>>
  /\ UNCHANGED <<checkpoint, present, agg, twice, pass, request, late, cut, spoiled>>

\* store.FactoryReset empties every table and restarts the ids, while no insert
\* is open.
FactoryReset ==
  /\ open = {}
  /\ Spend
  /\ rows' = <<>> /\ cleared' = {} /\ repeated' = {}
  /\ producer' = [e \in Entries |-> IF Copies(e) # {} /\ ~Queued(e) THEN "erased" ELSE producer[e]]
  /\ checkpoint' = NoCheckpoint /\ present' = FALSE
  /\ agg' = [t \in Tables |-> {}] /\ twice' = [t \in Tables |-> {}] /\ late' = {} /\ cut' = {}
  /\ UNCHANGED <<writer, mode, loop, queue, buf, rowwise, open, database, failures>>
  /\ UNCHANGED <<pass, request, spoiled>>

\* A step of the writers; a row may commit below the watermark.
Beside ==
  /\ late' = late \cup {id \in open \ open' : id <= checkpoint.last}
  /\ IF database' = database THEN UNCHANGED spent ELSE Spend
  /\ UNCHANGED <<checkpoint, present, agg, twice, pass, request, cut, spoiled>>
Log == LogNext /\ Beside

-----------------------------------------------------------------------------
Init ==
  /\ LogInit
  /\ checkpoint = NoCheckpoint /\ present = FALSE
  /\ agg = [t \in Tables |-> {}] /\ twice = [t \in Tables |-> {}]
  /\ pass = [p \in Instances |-> NoPass]
  /\ request = 0
  /\ spent = 0
  /\ late = {} /\ cut = {} /\ spoiled = FALSE

PassStep(p) ==
  \/ ReadCheckpoint(p) \/ FindAffected(p) \/ ClearRequest(p) \/ DeleteAggregates(p) \/ Rewind(p)
  \/ FetchBatch(p) \/ ApplyBatch(p) \/ NoRow(p) \/ ReleaseLease(p)

Next ==
  \/ Log
  \/ \E p \in Instances : Acquire(p) \/ PassStep(p)
  \/ \E p \in Instances : ReadFails(p) \/ PassFails(p) \/ ReleaseFails(p) \/ Crash(p)
  \/ \E id \in Rewinds : RequestRecompute(id) \/ RequestBlindly(id)
  \/ StoreRequest \/ StoreFails \/ LeaseExpires \/ ClearUsage \/ FactoryReset

Spec == Init /\ [][Next]_vars

\* The drain goroutine runs; while a pass runs some pass moves on, otherwise the
\* ticker of some process starts one or a lease that was not given back expires.
Project == LeaseExpires \/ \E p \in Instances : Acquire(p) \/ PassStep(p)
FairSpec == Spec /\ WF_vars(Drain /\ Beside) /\ WF_vars(Project)

-----------------------------------------------------------------------------
(* Properties *)

\* Watermarks, leases and passes are well formed, together with the writer's
\* state; a table counts only ids that exist or existed.
Checkpoint == [last : Nat, recompute : Nat, holder : Instances \cup {NoInstance}, expired : BOOLEAN]
Pass == [step : {"idle", "read", "find", "clear", "delete", "rewind", "fetch", "apply", "release"},
         mark : Nat, from : Nat, rows : SUBSET Nat, sites : SUBSET Nat, batches : 0..MaxBatches, deleted : 0..3]
TypeOK ==
  /\ LogTypeOK
  /\ checkpoint \in Checkpoint /\ present \in BOOLEAN /\ (~present => checkpoint = NoCheckpoint)
  /\ agg \in [Tables -> SUBSET Nat] /\ twice \in [Tables -> SUBSET Nat]
  /\ pass \in [Instances -> Pass]
  /\ request \in Nat /\ spent \in 0..MaxEvents /\ late \subseteq Nat /\ cut \subseteq Nat
  /\ spoiled \in BOOLEAN

\* Rows that a recompute has yet to count again.
Rewinding(id) == checkpoint.recompute # 0 /\ id >= checkpoint.recompute

\* A committed row with an account and a site, cleared since or not.
Counts(id) == id \in Ids \ open /\ rows[id] \in Entries \ Orphans

\* As long as no pass runs beside another and no failed read is taken for an empty
\* one, no row is counted twice in any table, only committed rows up to the
\* watermark are counted, and every visible one of them is ("no increment is lost
\* and the watermark never moves past un-persisted rows", applyBatch), whatever
\* fails, crashes, is cleared, reset or rewound in between.  Missing are: the rows
\* that a concurrent Postgres statement shows after the watermark went past their
\* id (late), rows of the same day before the row that a recompute starts at (cut),
\* and rows from the id of a pending recompute on.
CountedOnce ==
  ~spoiled =>
    \A t \in Tables :
      /\ twice[t] = {}
      /\ \A id \in agg[t] : Counts(id) /\ id <= checkpoint.last
      /\ \A id \in Ids : (Visible(id) /\ Counts(id) /\ id <= checkpoint.last)
                           => id \in agg[t] \cup late \cup cut \/ Rewinding(id)

\* Again and again every visible row is counted in all tables: a crash, a failed
\* statement or a recompute delays it, and the next pass takes it up from the
\* watermark (120-batch passes, lease and retry of runPass).
Counted(id) == \A t \in Tables : id \in agg[t]
EventuallyCounted ==
  []<>(spoiled \/ \A id \in Ids : (Visible(id) /\ Counts(id)) => Counted(id) \/ id \in late \cup cut)
=============================================================================
