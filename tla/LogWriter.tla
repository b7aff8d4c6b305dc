------------------------------ MODULE LogWriter ------------------------------
(***************************************************************************)
(* The batch writer of attempt records (handler/proxy/proxy_log_batch.go)  *)
(* and the table it fills.  Producers hand an entry to a bounded channel   *)
(* without blocking and insert it themselves when the channel is full; one *)
(* goroutine drains the channel and inserts in batches, row by row after a *)
(* batch that failed; a shutdown drains once more, and closes the database *)
(* whether or not the drain has ended.  A statement takes its ids when it  *)
(* starts and shows its rows when it commits; it may commit and return an  *)
(* error all the same.                                                     *)
(***************************************************************************)
EXTENDS Naturals, Sequences, SequencesExt, FiniteSets

CONSTANTS
  Entries,     \* attempt records, one per finished attempt
  Capacity,    \* of the channel (4 * batchSize)
  BatchSize,   \* PROXY_LOG_BATCH_SIZE
  Serial,      \* one statement inserts at a time (SQLite), or several do (Postgres)
  MaxFailures, \* bound on statements that fail
  Gone         \* the place of an id without a row

ASSUME LogAssumption ==
  /\ Capacity \in Nat \ {0} /\ BatchSize \in Nat \ {0} /\ MaxFailures \in Nat
  /\ Serial \in BOOLEAN /\ Gone \notin Entries

VARIABLES
  producer, \* where the request that made the entry stands; "erased": its row was reset away
  writer,   \* proxyLogBatchWriterInst is set and its stop channel open
  mode,     \* whether the drain goroutine serves, drains or flushes for the last time
  loop,     \* what it is doing
  queue,    \* ch
  buf,      \* the entries taken from it and not written
  rowwise,  \* a batch failed and its entries are inserted one by one
  rows,     \* proxy_logs: rows[id] is the entry, or Gone
  open,     \* ids whose statement has not ended
  cleared,  \* ids deleted by an operator
  repeated, \* ids of batches that committed though an error was returned: their
            \* entries are inserted once more (history)
  database, \* store.GetDB() is not nil
  failures

table == <<rows, open, cleared, repeated, database, failures>>
logVars == <<producer, writer, mode, loop, queue, buf, rowwise, rows, open, cleared, repeated, database, failures>>

-----------------------------------------------------------------------------
(* The table *)

Ids == DOMAIN rows
Visible(id) == id \in Ids /\ id \notin open /\ id \notin cleared /\ rows[id] # Gone
IdsOf(S) == {id \in open : rows[id] \in S}

\* An INSERT takes the next ids; SQLite admits one writer at a time.
StartInsert(entries) ==
  /\ Serial => open = {}
  /\ rows' = rows \o entries
  /\ open' = open \cup (Len(rows) + 1)..(Len(rows) + Len(entries))

\* It commits, fails and leaves nothing, or commits and the acknowledgement is
\* lost on the way from the server.
Outcomes == {"ok", "failed", "unacknowledged"}
EndInsert(ids, outcome) ==
  /\ Serial => outcome # "unacknowledged"
  /\ outcome # "ok" => failures < MaxFailures
  /\ open' = open \ ids
  /\ rows' = IF outcome = "failed" THEN [id \in Ids |-> IF id \in ids THEN Gone ELSE rows[id]] ELSE rows
  /\ failures' = IF outcome = "ok" THEN failures ELSE failures + 1

-----------------------------------------------------------------------------
(* Producers *)

\* EnqueueProxyLog reads the global writer under its mutex and uses it after.
TakeWriter(e) ==
  /\ producer[e] = "new"
  /\ producer' = [producer EXCEPT ![e] = IF writer THEN "holds" ELSE "direct"]
  /\ UNCHANGED <<writer, mode, loop, queue, buf, rowwise, table>>

\* The send never blocks: a full channel means a synchronous insert.
Enqueue(e) ==
  /\ producer[e] = "holds"
  /\ IF Len(queue) < Capacity
     THEN producer' = [producer EXCEPT ![e] = "sent"] /\ queue' = Append(queue, e)
     ELSE producer' = [producer EXCEPT ![e] = "direct"] /\ UNCHANGED queue
  /\ UNCHANGED <<writer, mode, loop, buf, rowwise, table>>

DirectInsert(e) ==
  /\ producer[e] = "direct" /\ database
  /\ StartInsert(<<e>>)
  /\ producer' = [producer EXCEPT ![e] = "inserting"]
  /\ UNCHANGED <<writer, mode, loop, queue, buf, rowwise, cleared, repeated, database, failures>>

\* The caller gets the error of its own insert, and does not repeat it.
DirectInsertEnds(e, outcome) ==
  /\ producer[e] = "inserting"
  /\ EndInsert(IdsOf({e}), outcome)
  /\ producer' = [producer EXCEPT ![e] = IF outcome = "ok" THEN "sent" ELSE "failed"]
  /\ UNCHANGED <<writer, mode, loop, queue, buf, rowwise, cleared, repeated, database>>

\* Without a database the insert is no statement and no error.
DirectDrop(e) ==
  /\ producer[e] = "direct" /\ ~database
  /\ producer' = [producer EXCEPT ![e] = "sent"]
  /\ UNCHANGED <<writer, mode, loop, queue, buf, rowwise, table>>

-----------------------------------------------------------------------------
(* The drain goroutine *)

Receive ==
  /\ loop = "select" /\ queue # <<>>
  /\ queue' = Tail(queue) /\ buf' = Append(buf, Head(queue))
  /\ loop' = IF Len(buf') >= BatchSize THEN "flush" ELSE "select"
  /\ UNCHANGED <<producer, writer, mode, rowwise, table>>

Ticker ==
  /\ loop = "select" /\ mode = "serve" /\ buf # <<>>
  /\ loop' = "flush"
  /\ UNCHANGED <<producer, writer, mode, queue, buf, rowwise, table>>

NoticeStop ==
  /\ loop = "select" /\ mode = "serve" /\ ~writer
  /\ mode' = "drain"
  /\ UNCHANGED <<producer, writer, loop, queue, buf, rowwise, table>>

\* The channel is found empty once; whatever comes later is not looked for.
Drained_Bug ==
  /\ loop = "select" /\ mode = "drain"
  /\ mode' = "last"
  /\ loop' = IF buf = <<>> THEN "done" ELSE "flush"
  /\ UNCHANGED <<producer, writer, queue, buf, rowwise, table>>
Drained ==
  /\ loop = "select" /\ mode = "drain" /\ queue = <<>>
  /\ mode' = "last"
  /\ loop' = IF buf = <<>> THEN "done" ELSE "flush"
  /\ UNCHANGED <<producer, writer, queue, buf, rowwise, table>>

Batch == IF rowwise THEN <<Head(buf)>> ELSE buf
Remaining == IF rowwise THEN Tail(buf) ELSE <<>>

FlushBatch ==
  /\ loop = "flush" /\ database
  /\ StartInsert(Batch)
  /\ loop' = "inserting"
  /\ UNCHANGED <<producer, writer, mode, queue, buf, rowwise, cleared, repeated, database, failures>>

Written == /\ buf' = Remaining
           /\ rowwise' = (Remaining # <<>>)
           /\ loop' = IF Remaining # <<>> THEN "flush" ELSE IF mode = "last" THEN "done" ELSE "select"

\* A row that fails on its own is logged and forgotten; a batch that returns an
\* error is inserted again row by row, whether or not it committed.
FlushEnds_Bug(outcome) ==
  /\ loop = "inserting"
  /\ EndInsert(IdsOf(ToSet(Batch)), outcome)
  /\ Written
  /\ UNCHANGED <<producer, writer, mode, queue, cleared, repeated, database>>
FlushEnds(outcome) ==
  /\ loop = "inserting"
  /\ EndInsert(IdsOf(ToSet(Batch)), outcome)
  /\ IF outcome = "ok" \/ Len(Batch) = 1
     THEN Written /\ UNCHANGED repeated
     ELSE /\ rowwise' = TRUE /\ loop' = "flush" /\ UNCHANGED buf
          /\ repeated' = IF outcome = "failed" THEN repeated ELSE repeated \cup IdsOf(ToSet(Batch))
  /\ UNCHANGED <<producer, writer, mode, queue, cleared, database>>

\* A batch that finds no database is dropped; a row of a batch that is being
\* retried meets the closed handle, and is forgotten.
DropBatch ==
  /\ loop = "flush" /\ ~database
  /\ Written
  /\ UNCHANGED <<producer, writer, mode, queue, table>>

\* ShutdownProxyLogBatchWriter forgets the writer and closes its stop channel.
Shutdown ==
  /\ writer
  /\ writer' = FALSE
  /\ UNCHANGED <<producer, mode, loop, queue, buf, rowwise, table>>

\* The shutdown waits for the drain, but not for ever, and closes the database.
CloseDatabase ==
  /\ ~writer /\ database
  /\ database' = FALSE
  /\ UNCHANGED <<producer, writer, mode, loop, queue, buf, rowwise, rows, open, cleared, repeated, failures>>

-----------------------------------------------------------------------------
LogInit ==
  /\ producer = [e \in Entries |-> "new"]
  /\ writer = TRUE
  /\ mode = "serve" /\ loop = "select" /\ queue = <<>> /\ buf = <<>> /\ rowwise = FALSE
  /\ rows = <<>> /\ open = {} /\ cleared = {} /\ repeated = {} /\ database = TRUE /\ failures = 0

Drain ==
  \/ Receive \/ Ticker \/ NoticeStop \/ Drained \/ FlushBatch \/ DropBatch
  \/ \E outcome \in Outcomes : FlushEnds(outcome)
Produce(e) ==
  \/ TakeWriter(e) \/ Enqueue(e) \/ DirectInsert(e) \/ DirectDrop(e)
  \/ \E outcome \in Outcomes : DirectInsertEnds(e, outcome)

LogNext == Drain \/ Shutdown \/ CloseDatabase \/ \E e \in Entries : Produce(e)
LogSpec == LogInit /\ [][LogNext]_logVars

-----------------------------------------------------------------------------
(* Properties *)

\* The writer's state is well formed: a batch never outgrows BatchSize, the
\* channel never its capacity, and only the drain goroutine holds a batch.
LogTypeOK ==
  /\ producer \in [Entries -> {"new", "holds", "sent", "direct", "inserting", "failed", "erased"}]
  /\ writer \in BOOLEAN /\ rowwise \in BOOLEAN
  /\ mode \in {"serve", "drain", "last"}
  /\ loop \in {"select", "flush", "inserting", "done"}
  /\ queue \in Seq(Entries) /\ Len(queue) <= Capacity
  /\ buf \in Seq(Entries) /\ Len(buf) <= BatchSize
  /\ loop \in {"flush", "inserting"} => buf # <<>>
  /\ rows \in Seq(Entries \cup {Gone}) /\ open \subseteq Ids /\ cleared \subseteq Ids
  /\ repeated \subseteq Ids /\ database \in BOOLEAN
  /\ failures \in 0..MaxFailures

Queued(e) == e \in ToSet(queue) \cup ToSet(buf)
Copies(e) == {id \in Ids : rows[id] = e}
Vanished == {e \in Entries : producer[e] = "sent" /\ ~Queued(e) /\ Copies(e) = {}}

\* However batches, retries and synchronous inserts interleave, an entry has one
\* row, and a second one only when a batch committed and its error came back all
\* the same: a retried batch leaves at most the row of the batch and the row of the
\* retry.  As long as the database is open, one failed statement costs at most one
\* entry ("one bad row cannot sink the whole batch", proxy_log_batch.go 193-195).
OneRowPerEntry ==
  /\ \A e \in Entries : /\ Cardinality(Copies(e) \ repeated) <= 1
                        /\ Cardinality(Copies(e) \cap repeated) <= 1
  /\ database => Cardinality(Vanished) <= failures

\* What is queued before a shutdown starts leaves the queue: the drain goroutine
\* does not return over it ("drain anything still queued", proxy_log_batch.go
\* 137-138), be it to drop it when the database was closed meanwhile.  An entry
\* sent after the drain stays in the channel for ever.
QueueDrained == \A e \in Entries : Queued(e) /\ writer ~> ~Queued(e)
=============================================================================
