----------------------- MODULE UsageAggregation_proofs -----------------------
(***************************************************************************)
(* Proofs about the log writer and the projection of usage: their state is *)
(* well formed; an entry has a second row only after a batch committed     *)
(* without its acknowledgement, and a failed statement costs at most one;  *)
(* and as long as no pass runs beside another no row is counted twice, or  *)
(* left out below the watermark except where a recompute or a late commit  *)
(* leaves it out.                                                          *)
(***************************************************************************)
EXTENDS UsageAggregation, DataLemmas

USE LogAssumption, UsageAssumption

-----------------------------------------------------------------------------
(* The largest and the smallest id of a set *)

\* Counting the smaller elements of each element maps a finite set of ids one to
\* one to an interval, whose end is the count of the largest.
LEMMA MaxExists ==
  ASSUME NEW S \in SUBSET Nat, IsFiniteSet(S), S # {}
  PROVE  \E x \in S : \A y \in S : x >= y
<1> DEFINE n == Cardinality(S)
<1> DEFINE Below(x) == {y \in S : y < x}
<1> DEFINE rank == [x \in S |-> Cardinality(Below(x))]
<1>1. n \in Nat /\ n > 0
  BY FS_CardinalityType, FS_EmptySet
<1>2. ASSUME NEW x \in S PROVE IsFiniteSet(Below(x)) /\ Cardinality(Below(x)) \in Nat
  <2>1. Below(x) \in SUBSET S
    OBVIOUS
  <2> QED BY <2>1, FS_Subset, FS_CardinalityType
<1>3. ASSUME NEW x \in S, NEW T \in SUBSET S, Below(x) \subseteq T, x \notin Below(x), x \in T
      PROVE  Cardinality(Below(x)) < Cardinality(T)
  <2>1. IsFiniteSet(T) /\ Below(x) \in SUBSET T /\ Below(x) # T
    BY <1>3, FS_Subset
  <2>2. Cardinality(T) \in Nat
    BY <2>1, FS_CardinalityType
  <2> HIDE DEF Below
  <2> QED BY <1>2, <2>1, <2>2, FS_Subset
<1>4. ASSUME NEW x \in S PROVE rank[x] \in 0..(n-1)
  <2>1. Cardinality(Below(x)) < n
    BY <1>3
  <2> HIDE DEF Below, n
  <2> QED BY <1>1, <1>2, <2>1
<1>5. ASSUME NEW x \in S, NEW y \in S, x < y PROVE rank[x] < rank[y]
  <2>1. Below(y) \in SUBSET S /\ x \in Below(y) /\ x \notin Below(x)
    BY <1>5
  <2>2. \A z \in Below(x) : z \in Below(y)
    BY <1>5
  <2> HIDE DEF Below
  <2> QED BY <1>3, <2>1, <2>2
<1>6. rank \in Injection(S, 0..(n-1))
  <2>1. rank \in [S -> 0..(n-1)]
    BY <1>4
  <2>2. \A x, y \in S : x # y => rank[x] # rank[y]
    <3> SUFFICES ASSUME NEW x \in S, NEW y \in S, x < y PROVE rank[x] # rank[y]
      OBVIOUS
    <3>1. rank[x] \in Nat /\ rank[y] \in Nat
      BY <1>4, <1>1
    <3> HIDE DEF rank
    <3> QED BY <1>5, <3>1
  <2> HIDE DEF rank, n
  <2> QED BY <2>1, <2>2 DEF Injection, IsInjective
<1>7. IsFiniteSet(0..(n-1)) /\ Cardinality(0..(n-1)) = n
  <2> HIDE DEF n
  <2> QED BY <1>1, FS_Interval
<1>8. rank \in Surjection(S, 0..(n-1))
  <2> HIDE DEF rank
  <2> QED BY <1>6, <1>7, FS_Injection
<1>9. PICK x \in S : rank[x] = n - 1
  <2>1. n - 1 \in 0..(n-1)
    <3> HIDE DEF n
    <3> QED BY <1>1
  <2> HIDE DEF rank, n
  <2> QED BY <1>8, <2>1 DEF Surjection
<1>10. \A y \in S : x >= y
  <2> SUFFICES ASSUME NEW y \in S, x < y PROVE FALSE
    OBVIOUS
  <2>1. rank[y] \in 0..(n-1) /\ rank[x] < rank[y]
    BY <1>4, <1>5
  <2> HIDE DEF rank, n
  <2> QED BY <1>1, <1>9, <2>1
<1> QED BY <1>10

LEMMA MaxMember ==
  ASSUME NEW S \in SUBSET Nat, IsFiniteSet(S), S # {}
  PROVE  Max(S) \in S /\ Max(S) \in Nat /\ \A y \in S : y <= Max(S)
  BY MaxExists DEF Max

LEMMA MinMember ==
  ASSUME NEW S \in SUBSET Nat, IsFiniteSet(S), S # {}
  PROVE  Min(S) \in S /\ Min(S) \in Nat /\ \A y \in S : Min(S) <= y
<1> DEFINE top == Max(S)
<1> DEFINE T == {top - x : x \in S}
<1>1. top \in S /\ top \in Nat /\ \A y \in S : y <= top
  BY MaxMember
<1>2. T \in SUBSET Nat /\ T # {}
  <2> HIDE DEF top
  <2> QED BY <1>1
<1>3. IsFiniteSet(T)
  <2> DEFINE f == [x \in S |-> top - x]
  <2>1. f \in Surjection(S, T)
    <3> HIDE DEF top
    <3> QED BY DEF Surjection
  <2> HIDE DEF f, T
  <2> QED BY <2>1, FS_Surjection
<1>4. PICK x \in S : \A y \in S : top - x >= top - y
  <2>1. PICK z \in T : \A y \in T : z >= y
    <3> HIDE DEF T
    <3> QED BY <1>2, <1>3, MaxExists
  <2> HIDE DEF top
  <2> QED BY <2>1
<1>5. \A y \in S : x <= y
  <2> HIDE DEF top
  <2> QED BY <1>1, <1>4
<1> QED BY <1>5 DEF Min

-----------------------------------------------------------------------------
(* Days *)

LEMMA Days ==
  ASSUME NEW i \in Nat \ {0}
  PROVE  /\ Day(i) \in Nat
         /\ Day(i) * RowsPerDay \in Nat /\ Day(i) * RowsPerDay < i /\ i <= Day(i) * RowsPerDay + RowsPerDay
<1>1. i - 1 \in Nat /\ RowsPerDay \in Nat \ {0}
  OBVIOUS
<1>2. ASSUME NEW t \in Nat, NEW n \in Nat \ {0}
      PROVE  (t \div n) \in Nat /\ (t \div n) * n \in Nat /\ (t \div n) * n <= t /\ t < (t \div n) * n + n
  BY SMT
<1>3. /\ ((i - 1) \div RowsPerDay) \in Nat /\ ((i - 1) \div RowsPerDay) * RowsPerDay \in Nat
      /\ ((i - 1) \div RowsPerDay) * RowsPerDay <= i - 1
      /\ i - 1 < ((i - 1) \div RowsPerDay) * RowsPerDay + RowsPerDay
  BY <1>1, <1>2
<1> QED BY <1>3 DEF Day

LEMMA Multiples ==
  ASSUME NEW a \in Nat, NEW b \in Nat, NEW n \in Nat, a < b
  PROVE  a * n + n <= b * n
  BY SMT

LEMMA LaterDay ==
  ASSUME NEW i \in Nat \ {0}, NEW j \in Nat \ {0}, Day(i) < Day(j)
  PROVE  i < j
<1> DEFINE a == Day(i)
<1> DEFINE b == Day(j)
<1>1. a \in Nat /\ b \in Nat /\ a < b /\ RowsPerDay \in Nat /\ b * RowsPerDay \in Nat /\ a * RowsPerDay \in Nat
  BY Days
<1>2. i <= a * RowsPerDay + RowsPerDay /\ b * RowsPerDay < j
  BY Days
<1>3. a * RowsPerDay + RowsPerDay <= b * RowsPerDay
  <2> HIDE DEF a, b
  <2> QED BY <1>1, Multiples
<1> HIDE DEF a, b
<1> QED BY <1>1, <1>2, <1>3

-----------------------------------------------------------------------------
(* The writer *)

\* A batch is shorter than BatchSize while the goroutine waits for more.
WriterInv == LogTypeOK /\ (loop = "select" => Len(buf) < BatchSize)

\* Rows whose statement has ended stay what they are, and new ones are open.
Keeps == /\ Len(rows) <= Len(rows') /\ cleared' = cleared
         /\ \A id \in Ids : /\ rows'[id] = rows[id] \/ rows'[id] = Gone
                            /\ id \notin open => id \notin open' /\ rows'[id] = rows[id]
         /\ \A id \in Ids' : id \in Ids \/ id \in open'

TableOK ==
  /\ rows \in Seq(Entries \cup {Gone}) /\ open \subseteq Ids /\ cleared \subseteq Ids /\ repeated \subseteq Ids
  /\ database \in BOOLEAN /\ failures \in 0..MaxFailures

LEMMA StartKeeps ==
  ASSUME TableOK, NEW s \in Seq(Entries), StartInsert(s), UNCHANGED <<cleared, repeated, database, failures>>
  PROVE  TableOK' /\ Keeps
<1>1. s \in Seq(Entries \cup {Gone}) /\ rows \in Seq(Entries \cup {Gone}) /\ rows' = rows \o s
  BY DEF TableOK, StartInsert
<1>2. /\ rows' \in Seq(Entries \cup {Gone}) /\ Len(rows') = Len(rows) + Len(s)
      /\ \A i \in 1..Len(rows) : rows'[i] = rows[i]
  BY <1>1, ConcatProperties
<1>3. Len(rows) \in Nat /\ Len(s) \in Nat /\ Ids = 1..Len(rows) /\ Ids' = 1..Len(rows')
  BY <1>1, <1>2, LenProperties DEF Ids
<1>4. open' = open \cup (Len(rows) + 1)..(Len(rows) + Len(s))
  BY DEF StartInsert
<1>5. /\ open \subseteq 1..Len(rows) /\ cleared \subseteq 1..Len(rows) /\ repeated \subseteq 1..Len(rows)
      /\ cleared' = cleared /\ repeated' = repeated /\ failures' = failures /\ failures \in 0..MaxFailures
      /\ database' = database /\ database \in BOOLEAN
  BY <1>3 DEF TableOK
<1>6. open' \subseteq 1..Len(rows') /\ cleared' \subseteq 1..Len(rows') /\ repeated' \subseteq 1..Len(rows')
  <2> DEFINE n == Len(rows)
  <2> DEFINE m == Len(s)
  <2>1. Len(rows') = n + m /\ n \in Nat /\ m \in Nat
    BY <1>2, <1>3
  <2>2. 1..n \subseteq 1..(n + m) /\ (n + 1)..(n + m) \subseteq 1..(n + m)
    <3> HIDE DEF n, m
    <3> QED BY <2>1
  <2> HIDE DEF n, m
  <2> QED BY <1>4, <1>5, <2>1, <2>2 DEF n, m
<1>7. TableOK'
  BY <1>2, <1>3, <1>5, <1>6 DEF TableOK
<1>8. Keeps
  <2>1. \A id \in 1..Len(rows') : id \in 1..Len(rows) \/ id \in open'
    BY <1>2, <1>3, <1>4
  <2>2. \A id \in 1..Len(rows) : id \notin open => id \notin open'
    BY <1>3, <1>4
  <2> HIDE DEF TableOK
  <2> QED BY <1>2, <1>3, <1>5, <2>1, <2>2 DEF Keeps
<1> QED BY <1>7, <1>8

LEMMA EndKeeps ==
  ASSUME TableOK, NEW S, NEW outcome \in Outcomes, EndInsert(IdsOf(S), outcome), UNCHANGED <<cleared, database>>,
         repeated' \subseteq repeated \cup IdsOf(S)
  PROVE  TableOK' /\ Keeps
<1>1. rows \in Seq(Entries \cup {Gone}) /\ Len(rows) \in Nat /\ Ids = 1..Len(rows) /\ rows \in [1..Len(rows) -> Entries \cup {Gone}]
  BY LenProperties DEF TableOK, Ids
<1>2. rows' \in [1..Len(rows) -> Entries \cup {Gone}]
  BY <1>1 DEF EndInsert
<1>3. rows' \in Seq(Entries \cup {Gone})
  BY <1>1, <1>2, SeqDef
<1>4. Len(rows') = Len(rows) /\ Ids' = Ids
  BY <1>1, <1>2, <1>3, LenProperties DEF Ids
<1>5. \A id \in Ids : rows'[id] = rows[id] \/ (rows'[id] = Gone /\ id \in open)
  BY <1>1 DEF EndInsert, IdsOf
<1>6. open' \subseteq open /\ failures' \in 0..MaxFailures
  BY DEF EndInsert, TableOK
<1>7. /\ cleared \subseteq Ids /\ open \subseteq Ids /\ cleared' = cleared /\ repeated' \subseteq Ids
      /\ database' \in BOOLEAN
  BY DEF TableOK, IdsOf
<1>8. TableOK'
  BY <1>3, <1>4, <1>6, <1>7 DEF TableOK
<1>9. Keeps
  <2> HIDE DEF TableOK
  <2> QED BY <1>1, <1>4, <1>5, <1>6, <1>7 DEF Keeps
<1> QED BY <1>8, <1>9

\* Every step of a writer, and what it does to the table.
LEMMA WriterStep ==
  ASSUME WriterInv, LogNext
  PROVE  WriterInv' /\ Keeps
<1> DEFINE Labels == {"new", "holds", "sent", "direct", "inserting", "failed", "erased"}
<1> USE DEF WriterInv, LogTypeOK
<1>1. TableOK /\ Len(queue) \in Nat /\ Len(buf) \in Nat
  BY DEF TableOK
<1>2. ASSUME UNCHANGED <<rows, open, cleared, repeated, failures>>, database' \in BOOLEAN PROVE TableOK' /\ Keeps
  <2>1. Ids' = Ids /\ rows' = rows /\ Len(rows) \in Nat
    BY <1>1, <1>2 DEF Ids, TableOK
  <2> QED BY <1>1, <1>2, <2>1 DEF TableOK, Keeps, Ids
<1>3. ASSUME TableOK', Keeps, NEW e \in Entries, NEW l \in Labels, producer' = [producer EXCEPT ![e] = l],
             UNCHANGED <<writer, mode, loop, buf, rowwise>>, queue' = queue \/ (Len(queue) < Capacity /\ queue' = Append(queue, e))
      PROVE  WriterInv' /\ Keeps
  <2>1. producer' \in [Entries -> Labels]
    BY <1>3
  <2>2. queue' \in Seq(Entries) /\ Len(queue') <= Capacity
    <3>1. CASE queue' = queue
      BY <3>1
    <3>2. CASE Len(queue) < Capacity /\ queue' = Append(queue, e)
      <4>1. queue \in Seq(Entries)
        OBVIOUS
      <4>2. Append(queue, e) \in Seq(Entries) /\ Len(Append(queue, e)) = Len(queue) + 1
        BY <4>1, AppendProperties
      <4> HIDE DEF WriterInv, LogTypeOK
      <4> QED BY <1>1, <3>2, <4>2
    <3> QED BY <1>3, <3>1, <3>2
  <2> QED BY <1>3, <2>1, <2>2 DEF TableOK
<1>4. ASSUME NEW e \in Entries, Produce(e) PROVE WriterInv' /\ Keeps
  <2>1. CASE TakeWriter(e)
    <3>1. \E l \in Labels : producer' = [producer EXCEPT ![e] = l]
      BY <2>1 DEF TakeWriter
    <3> QED BY <1>2, <1>3, <2>1, <3>1 DEF TakeWriter, table
  <2>2. CASE Enqueue(e)
    <3>1. \E l \in Labels : producer' = [producer EXCEPT ![e] = l]
      BY <2>2 DEF Enqueue
    <3> QED BY <1>2, <1>3, <2>2, <3>1 DEF Enqueue, table
  <2>3. CASE DirectInsert(e)
    <3>1. <<e>> \in Seq(Entries)
      OBVIOUS
    <3>2. TableOK' /\ Keeps
      BY <1>1, <2>3, <3>1, StartKeeps DEF DirectInsert
    <3> QED BY <1>3, <2>3, <3>2 DEF DirectInsert
  <2>4. ASSUME NEW outcome \in Outcomes, DirectInsertEnds(e, outcome) PROVE WriterInv' /\ Keeps
    <3>1. TableOK' /\ Keeps
      BY <1>1, <2>4, EndKeeps DEF DirectInsertEnds
    <3>2. \E l \in Labels : producer' = [producer EXCEPT ![e] = l]
      BY <2>4 DEF DirectInsertEnds
    <3> QED BY <1>3, <2>4, <3>1, <3>2 DEF DirectInsertEnds
  <2>5. CASE DirectDrop(e)
    <3>1. \E l \in Labels : producer' = [producer EXCEPT ![e] = l]
      BY <2>5 DEF DirectDrop
    <3> QED BY <1>2, <1>3, <2>5, <3>1 DEF DirectDrop, table
  <2> QED BY <1>4, <2>1, <2>2, <2>3, <2>4, <2>5 DEF Produce
<1>5. ASSUME TableOK', Keeps, UNCHANGED producer, writer' \in BOOLEAN, rowwise' \in BOOLEAN,
             mode' \in {"serve", "drain", "last"}, loop' \in {"select", "flush", "inserting", "done"},
             queue' \in Seq(Entries), Len(queue') <= Capacity, buf' \in Seq(Entries), Len(buf') <= BatchSize,
             loop' \in {"flush", "inserting"} => buf' # <<>>, loop' = "select" => Len(buf') < BatchSize
      PROVE  WriterInv' /\ Keeps
  BY <1>5 DEF TableOK
<1>6. CASE Receive
  <2>1. /\ Head(queue) \in Entries /\ Tail(queue) \in Seq(Entries) /\ Len(Tail(queue)) = Len(queue) - 1
        /\ Append(buf, Head(queue)) \in Seq(Entries) /\ Len(Append(buf, Head(queue))) = Len(buf) + 1
        /\ Append(buf, Head(queue)) # <<>>
    BY <1>6, HeadTailProperties, AppendProperties DEF Receive
  <2>2. TableOK' /\ Keeps
    BY <1>2, <1>6 DEF Receive, table
  <2> QED BY <1>1, <1>5, <1>6, <2>1, <2>2 DEF Receive
<1>7. CASE Ticker \/ NoticeStop \/ Drained \/ Shutdown \/ CloseDatabase
  <2> USE DEF Ticker, NoticeStop, Drained, Shutdown, CloseDatabase
  <2>1. TableOK' /\ Keeps
    BY <1>2, <1>7 DEF table
  <2>2. UNCHANGED <<producer, queue, buf, rowwise>>
    BY <1>7
  <2>3. writer' \in BOOLEAN /\ mode' \in {"serve", "drain", "last"}
    BY <1>7
  <2>4. loop' = loop \/ loop' = "done" \/ (loop' = "flush" /\ buf # <<>>)
    BY <1>7
  <2> QED BY <1>5, <2>1, <2>2, <2>3, <2>4
<1>8. CASE FlushBatch
  <2>1. Batch \in Seq(Entries)
    BY <1>8, HeadTailProperties DEF FlushBatch, Batch
  <2>2. TableOK' /\ Keeps
    BY <1>1, <1>8, <2>1, StartKeeps DEF FlushBatch
  <2> QED BY <1>5, <1>8, <2>2 DEF FlushBatch
<1>9. ASSUME Written, TableOK', Keeps, UNCHANGED <<producer, writer, mode, queue>>, buf # <<>>
      PROVE  WriterInv' /\ Keeps
  <2>1. /\ Tail(buf) \in Seq(Entries) /\ Len(Tail(buf)) = Len(buf) - 1 /\ <<>> \in Seq(Entries) /\ Len(<<>>) = 0
    BY <1>9, HeadTailProperties
  <2>2. Remaining \in Seq(Entries) /\ Len(Remaining) <= BatchSize /\ (Remaining = <<>> => Len(Remaining) < BatchSize)
    BY <1>1, <2>1 DEF Remaining
  <2> QED BY <1>5, <1>9, <2>2 DEF Written
<1>10. ASSUME NEW outcome \in Outcomes, FlushEnds(outcome) PROVE WriterInv' /\ Keeps
  <2>1. TableOK' /\ Keeps
    BY <1>1, <1>10, EndKeeps DEF FlushEnds
  <2>2. UNCHANGED <<producer, writer, mode, queue>> /\ buf # <<>>
    BY <1>10 DEF FlushEnds
  <2>3. CASE Written
    BY <1>9, <2>1, <2>2, <2>3
  <2>4. CASE rowwise' = TRUE /\ loop' = "flush" /\ UNCHANGED buf
    BY <1>5, <2>1, <2>2, <2>4
  <2> QED BY <1>10, <2>3, <2>4 DEF FlushEnds
<1>11. CASE DropBatch
  <2>1. TableOK' /\ Keeps
    BY <1>2, <1>11 DEF DropBatch, table
  <2> QED BY <1>9, <1>11, <2>1 DEF DropBatch
<1> QED BY <1>4, <1>6, <1>7, <1>8, <1>10, <1>11 DEF LogNext, Drain

-----------------------------------------------------------------------------
(* The state of the passes *)

\* What a pass knows at each of its steps.
PassOK(v) ==
  /\ v \in Pass /\ IsFiniteSet(v.rows)
  /\ v.step # "release" => v.batches < MaxBatches
  /\ v.step = "apply" => v.rows # {}
  /\ v.step \in {"read", "find"} => v.deleted = 0
  /\ v.step = "delete" => v.deleted < 3
  /\ v.step \in {"find", "clear"} => v.from \in Rewinds
  /\ v.step \in {"delete", "rewind"} => v.from > 0

TypeInv ==
  /\ WriterInv /\ TypeOK
  /\ \A p \in Instances : PassOK(pass[p])
  /\ checkpoint.recompute \in Rewinds \cup {0} /\ request \in Rewinds \cup {0}

\* One pass becomes v.
Becomes(p, v) == pass' = [pass EXCEPT ![p] = v]

LEMMA BecomesType ==
  ASSUME TypeInv, NEW p \in Instances, NEW v, PassOK(v), Becomes(p, v)
  PROVE  /\ pass' \in [Instances -> Pass] /\ \A q \in Instances : PassOK(pass'[q])
         /\ pass'[p] = v /\ \A q \in Instances \ {p} : pass'[q] = pass[q]
<1>1. pass \in [Instances -> Pass] /\ v \in Pass /\ \A q \in Instances : PassOK(pass[q])
  BY DEF TypeInv, TypeOK, PassOK
<1>2. pass' \in [Instances -> Pass] /\ pass'[p] = v /\ \A q \in Instances \ {p} : pass'[q] = pass[q]
  BY <1>1 DEF Becomes
<1>3. \A q \in Instances : pass'[q] = v \/ pass'[q] = pass[q]
  BY <1>2
<1> QED BY <1>1, <1>2, <1>3

LEMMA BatchFacts ==
  ASSUME TypeInv, NEW mark
  PROVE  /\ NextBatch(mark) \in SUBSET Ids /\ NextBatch(mark) \in SUBSET Nat /\ IsFiniteSet(NextBatch(mark))
         /\ From(mark) \in SUBSET Ids /\ From(mark) \in SUBSET Nat /\ IsFiniteSet(From(mark))
<1>1. Ids = 1..Len(rows) /\ Len(rows) \in Nat
  BY DEF TypeInv, WriterInv, LogTypeOK, Ids
<1>2. IsFiniteSet(Ids) /\ Ids \subseteq Nat
  BY <1>1, FS_Interval
<1>3. NextBatch(mark) \in SUBSET Ids /\ From(mark) \in SUBSET Ids
  BY DEF NextBatch, From
<1> QED BY <1>2, <1>3, FS_Subset

LEMMA EmptyPass == PassOK(NoPass) /\ PassOK([NoPass EXCEPT !.step = "read"])
  BY FS_EmptySet DEF PassOK, NoPass, Pass

\* What each step makes of its pass.
Read(v) == [v EXCEPT !.mark = checkpoint.last, !.from = checkpoint.recompute,
                     !.step = IF checkpoint.recompute = 0 THEN "fetch" ELSE "find"]
Found(v) == [v EXCEPT !.from = Min(From(v.from)), !.step = "delete"]
Deleted(v) == [v EXCEPT !.deleted = v.deleted + 1, !.step = IF v.deleted + 1 = 3 THEN "rewind" ELSE "delete"]
Rewound(v) == [v EXCEPT !.mark = v.from - 1, !.step = "fetch"]
Fetched(v) == LET batch == NextBatch(v.mark) IN
              [v EXCEPT !.rows = batch, !.sites = {i \in batch : rows[i] \notin Orphans},
                        !.step = IF batch = {} THEN "release" ELSE "apply"]
Applied(v) == [v EXCEPT !.mark = Max(v.rows), !.batches = v.batches + 1,
                        !.step = IF Cardinality(v.rows) < Fetch \/ v.batches + 1 = MaxBatches THEN "release" ELSE "fetch"]

LEMMA PassSteps ==
  ASSUME TypeInv, NEW p \in Instances
  PROVE  /\ ReadCheckpoint(p) => Becomes(p, Read(pass[p]))
         /\ FindAffected(p) => Becomes(p, IF From(pass[p].from) = {} THEN [pass[p] EXCEPT !.step = "clear"] ELSE Found(pass[p]))
         /\ DeleteAggregates(p) => Becomes(p, Deleted(pass[p]))
         /\ Rewind(p) => Becomes(p, Rewound(pass[p]))
         /\ FetchBatch(p) => Becomes(p, Fetched(pass[p]))
         /\ ApplyBatch(p) => Becomes(p, Applied(pass[p]))
<1> DEFINE v == pass[p]
<1>1. pass \in [Instances -> Pass] /\ v \in Pass
  BY DEF TypeInv, TypeOK
<1> USE DEF Becomes, Pass
<1>2. ReadCheckpoint(p) => Becomes(p, Read(pass[p]))
  BY <1>1 DEF ReadCheckpoint, Read
<1>3. FindAffected(p) => Becomes(p, IF From(pass[p].from) = {} THEN [pass[p] EXCEPT !.step = "clear"] ELSE Found(pass[p]))
  BY <1>1 DEF FindAffected, Found, Goto
<1>4. DeleteAggregates(p) => Becomes(p, Deleted(pass[p]))
  BY <1>1 DEF DeleteAggregates, Deleted
<1>5. Rewind(p) => Becomes(p, Rewound(pass[p]))
  BY <1>1 DEF Rewind, Rewound
<1>6. FetchBatch(p) => Becomes(p, Fetched(pass[p]))
  BY <1>1 DEF FetchBatch, Fetched
<1>7. ApplyBatch(p) => Becomes(p, Applied(pass[p]))
  BY <1>1 DEF ApplyBatch, Applied, EndsPass
<1> QED BY <1>2, <1>3, <1>4, <1>5, <1>6, <1>7

LEMMA PassesType ==
  ASSUME TypeInv, NEW p \in Instances
  PROVE  /\ pass[p].step = "read" => PassOK(Read(pass[p]))
         /\ pass[p].step = "find" /\ From(pass[p].from) # {} => PassOK(Found(pass[p])) /\ pass[p].from <= Found(pass[p]).from
         /\ pass[p].step = "delete" => PassOK(Deleted(pass[p]))
         /\ pass[p].step = "rewind" => PassOK(Rewound(pass[p]))
         /\ pass[p].step = "fetch" => PassOK(Fetched(pass[p]))
         /\ pass[p].step = "apply" => PassOK(Applied(pass[p]))
         /\ pass[p].step # "idle" => PassOK([pass[p] EXCEPT !.step = "release"])
         /\ pass[p].step = "find" => PassOK([pass[p] EXCEPT !.step = "clear"])
         /\ pass[p].step \in {"read", "clear"} => PassOK([pass[p] EXCEPT !.step = "fetch"])
<1> DEFINE v == pass[p]
<1>1. /\ v \in Pass /\ PassOK(v) /\ IsFiniteSet(v.rows)
      /\ v.step # "release" => v.batches < MaxBatches
      /\ checkpoint \in Checkpoint /\ checkpoint.recompute \in Rewinds \cup {0}
  BY DEF TypeInv, TypeOK, PassOK
<1>2. ASSUME v.step = "read" PROVE PassOK(Read(v))
  BY <1>1, <1>2 DEF Read, PassOK, Pass, Checkpoint
<1>3. ASSUME v.step = "find", From(v.from) # {} PROVE PassOK(Found(v)) /\ v.from <= Found(v).from
  <2> DEFINE m == Min(From(v.from))
  <2>1. m \in From(v.from) /\ m \in Nat
    BY <1>3, BatchFacts, MinMember
  <2>2. v.from \in Rewinds /\ v.from \in Nat /\ v.from > 0
    <3>1. v.from \in Rewinds
      BY <1>1, <1>3 DEF PassOK
    <3>2. \A id \in Rewinds : id \in Nat /\ id > 0
      OBVIOUS
    <3> QED BY <3>1, <3>2
  <2>3. m >= v.from
    <3> HIDE DEF m
    <3> QED BY <2>1 DEF From
  <2>4. [v EXCEPT !.from = m, !.step = "delete"] \in Pass
    <3> HIDE DEF m
    <3> QED BY <1>1, <2>1 DEF Pass
  <2> HIDE DEF m
  <2> QED BY <1>1, <1>3, <2>1, <2>2, <2>3, <2>4 DEF Found, PassOK, Pass, m
<1>4. ASSUME v.step = "delete" PROVE PassOK(Deleted(v))
  <2> DEFINE n == v.deleted + 1
  <2> DEFINE next == IF n = 3 THEN "rewind" ELSE "delete"
  <2>1. n \in 0..3 /\ (next = "delete" => n < 3) /\ next \in {"rewind", "delete"} /\ v.from > 0
    BY <1>1, <1>4 DEF PassOK, Pass
  <2>2. Deleted(v) = [v EXCEPT !.deleted = n, !.step = next]
    BY DEF Deleted
  <2> HIDE DEF n, next
  <2>3. [v EXCEPT !.deleted = n, !.step = next] \in Pass
    BY <1>1, <2>1 DEF Pass
  <2> QED BY <1>1, <1>4, <2>1, <2>2, <2>3 DEF PassOK, Pass
<1>5. ASSUME v.step = "rewind" PROVE PassOK(Rewound(v))
  <2> DEFINE m == v.from - 1
  <2>1. m \in Nat
    BY <1>1, <1>5 DEF PassOK, Pass
  <2>2. Rewound(v) = [v EXCEPT !.mark = m, !.step = "fetch"]
    BY DEF Rewound
  <2> HIDE DEF m
  <2>3. [v EXCEPT !.mark = m, !.step = "fetch"] \in Pass
    BY <1>1, <2>1 DEF Pass
  <2> QED BY <1>1, <1>5, <2>2, <2>3 DEF PassOK, Pass
<1>6. ASSUME v.step = "fetch" PROVE PassOK(Fetched(v))
  <2> DEFINE batch == NextBatch(v.mark)
  <2>1. batch \in SUBSET Nat /\ IsFiniteSet(batch)
    BY BatchFacts
  <2> HIDE DEF batch
  <2> QED BY <1>1, <1>6, <2>1 DEF Fetched, PassOK, Pass, batch
<1>7. ASSUME v.step = "apply" PROVE PassOK(Applied(v))
  <2> DEFINE m == Max(v.rows)
  <2>1. v.rows # {} /\ v.rows \in SUBSET Nat
    BY <1>1, <1>7 DEF PassOK, Pass
  <2>2. m \in Nat
    BY <1>1, <2>1, MaxMember
  <2>3. v.batches + 1 \in 0..MaxBatches
    BY <1>1, <1>7 DEF Pass
  <2> DEFINE next == IF Cardinality(v.rows) < Fetch \/ v.batches + 1 = MaxBatches THEN "release" ELSE "fetch"
  <2> DEFINE n == v.batches + 1
  <2>4. next \in {"release", "fetch"} /\ (next = "fetch" => n # MaxBatches)
    OBVIOUS
  <2>5. Applied(v) = [v EXCEPT !.mark = m, !.batches = n, !.step = next]
    BY DEF Applied
  <2> HIDE DEF m, n, next
  <2>6. [v EXCEPT !.mark = m, !.batches = n, !.step = next] \in Pass
    BY <1>1, <2>2, <2>3, <2>4 DEF Pass, n
  <2>7. n \in Nat /\ MaxBatches \in Nat /\ n <= MaxBatches
    BY <2>3 DEF n
  <2>8. next # "release" => n < MaxBatches
    BY <2>4, <2>7
  <2> DEFINE w == [v EXCEPT !.mark = m, !.batches = n, !.step = next]
  <2>9. w.batches = n /\ w.step = next /\ w.rows = v.rows
    BY <1>1 DEF Pass
  <2>10. w \in Pass
    BY <2>6
  <2>11. PassOK(w)
    <3> HIDE DEF w
    <3> QED BY <1>1, <2>4, <2>8, <2>9, <2>10 DEF PassOK
  <2> QED BY <2>5, <2>11
<1>8. v.step # "idle" => PassOK([v EXCEPT !.step = "release"])
  BY <1>1 DEF PassOK, Pass
<1>9. v.step = "find" => PassOK([v EXCEPT !.step = "clear"])
  BY <1>1 DEF PassOK, Pass
<1>10. v.step \in {"read", "clear"} => PassOK([v EXCEPT !.step = "fetch"])
  BY <1>1 DEF PassOK, Pass
<1> QED BY <1>2, <1>3, <1>4, <1>5, <1>6, <1>7, <1>8, <1>9, <1>10

LEMMA WriterStays ==
  ASSUME WriterInv, UNCHANGED logVars \/ Fail \/ ClearUsage \/ FactoryReset
  PROVE  WriterInv'
<1> USE DEF WriterInv, LogTypeOK
<1>1. CASE UNCHANGED logVars
  BY <1>1 DEF logVars, Ids
<1>2. CASE Fail
  BY <1>2 DEF Fail, Ids
<1>3. CASE ClearUsage
  BY <1>3 DEF ClearUsage, Ids, Spend
<1>4. CASE FactoryReset
  <2>1. rows' = <<>> /\ open' = {} /\ cleared' = {} /\ repeated' = {}
        /\ UNCHANGED <<writer, mode, loop, queue, buf, rowwise, database, failures>>
    BY <1>4 DEF FactoryReset
  <2>2. rows' \in Seq(Entries \cup {Gone})
    BY <2>1
  <2>3. producer' \in [Entries -> {"new", "holds", "sent", "direct", "inserting", "failed", "erased"}]
    <3>1. producer' = [e \in Entries |-> IF Copies(e) # {} /\ ~Queued(e) THEN "erased" ELSE producer[e]]
      BY <1>4 DEF FactoryReset
    <3> QED BY <3>1
  <2> QED BY <2>1, <2>2, <2>3
<1> QED BY <1>1, <1>2, <1>3, <1>4

\* What a step that leaves the passes well formed has to leave besides.
RestOK ==
  /\ checkpoint \in Checkpoint /\ present \in BOOLEAN /\ (~present => checkpoint = NoCheckpoint)
  /\ agg \in [Tables -> SUBSET Nat] /\ twice \in [Tables -> SUBSET Nat]
  /\ request \in Nat /\ spent \in 0..MaxEvents /\ late \subseteq Nat /\ cut \subseteq Nat /\ spoiled \in BOOLEAN
  /\ checkpoint.recompute \in Rewinds \cup {0} /\ request \in Rewinds \cup {0}

LEMMA TypeParts == TypeInv <=> WriterInv /\ RestOK /\ pass \in [Instances -> Pass] /\ \A p \in Instances : PassOK(pass[p])
  BY DEF TypeInv, TypeOK, WriterInv, RestOK

LEMMA SkippedType == TypeInv => \A id, batch : Skipped(id, batch) \subseteq Nat
  BY DEF TypeInv, WriterInv, LogTypeOK, Ids, Skipped

LEMMA PassStepType ==
  ASSUME TypeInv, NEW p \in Instances, PassStep(p) \/ ReadFails(p) \/ PassFails(p) \/ ReleaseFails(p) \/ Acquire(p) \/ Crash(p)
  PROVE  TypeInv'
<1> DEFINE v == pass[p]
<1>0. WriterInv /\ RestOK /\ pass \in [Instances -> Pass] /\ v \in Pass /\ \A q \in Instances : PassOK(pass[q])
  BY TypeParts
<1>1. ASSUME WriterInv', RestOK', NEW w, PassOK(w), Becomes(p, w) PROVE TypeInv'
  BY <1>1, BecomesType DEF TypeInv, TypeOK, WriterInv, RestOK
<1>2. UNCHANGED logVars \/ Fail => WriterInv'
  BY <1>0, WriterStays
<1> USE DEF RestOK
<1>3. CASE ReadCheckpoint(p)
  <2>1. RestOK' /\ UNCHANGED logVars /\ v.step = "read"
    BY <1>0, <1>3 DEF ReadCheckpoint
  <2> QED BY <1>1, <1>2, <1>3, <2>1, PassSteps, PassesType
<1>4. CASE FindAffected(p)
  <2>1. RestOK' /\ UNCHANGED logVars /\ v.step = "find"
    BY <1>0, <1>4 DEF FindAffected
  <2>2. CASE From(v.from) = {}
    BY <1>1, <1>2, <1>4, <2>1, <2>2, PassSteps, PassesType
  <2>3. CASE From(v.from) # {}
    BY <1>1, <1>2, <1>4, <2>1, <2>3, PassSteps, PassesType
  <2> QED BY <2>2, <2>3
<1>5. CASE DeleteAggregates(p)
  <2>1. UNCHANGED <<logVars, checkpoint, present, request, spent, late, spoiled>> /\ v.step = "delete"
    BY <1>5 DEF DeleteAggregates
  <2>2. \A ids \in SUBSET Nat : {id \in ids : Day(id) < Day(v.from)} \in SUBSET Nat
    OBVIOUS
  <2>3. agg' \in [Tables -> SUBSET Nat] /\ twice' \in [Tables -> SUBSET Nat]
    BY <1>0, <1>5, <2>2 DEF DeleteAggregates
  <2>4. cut' \subseteq Nat
    <3>1. v.deleted + 1 \in Tables
      BY <1>0, <2>1 DEF PassOK, Pass, Tables
    <3>2. agg[v.deleted + 1] \subseteq Nat /\ cut \subseteq Nat
      BY <1>0, <3>1
    <3> QED BY <1>5, <3>2 DEF DeleteAggregates
  <2>5. RestOK'
    BY <1>0, <2>1, <2>3, <2>4
  <2> QED BY <1>1, <1>2, <1>5, <2>1, <2>5, PassSteps, PassesType
<1>6. CASE Rewind(p)
  <2>1. v.step = "rewind" /\ present /\ UNCHANGED <<logVars, present, agg, twice, request, spent, spoiled>>
    BY <1>6 DEF Rewind
  <2>2. v.from - 1 \in Nat
    BY <1>0, <2>1 DEF PassOK, Pass
  <2>3. checkpoint' \in Checkpoint /\ checkpoint'.recompute = 0
    BY <1>0, <1>6, <2>2 DEF Rewind, Checkpoint
  <2>4. late' \subseteq Nat /\ cut' \subseteq Nat
    BY <1>0, <1>6, SkippedType DEF Rewind
  <2>5. RestOK'
    BY <1>0, <2>1, <2>3, <2>4
  <2> QED BY <1>1, <1>2, <1>6, <2>1, <2>5, PassSteps, PassesType
<1>7. CASE FetchBatch(p)
  <2>1. RestOK' /\ UNCHANGED logVars /\ v.step = "fetch"
    BY <1>0, <1>7 DEF FetchBatch
  <2> QED BY <1>1, <1>2, <1>7, <2>1, PassSteps, PassesType
<1>8. CASE ApplyBatch(p)
  <2>1. v.step = "apply" /\ present /\ UNCHANGED <<logVars, present, request, spent, cut, spoiled>>
    BY <1>8 DEF ApplyBatch
  <2>2. Max(v.rows) \in Nat
    BY <1>0, <2>1, MaxMember DEF PassOK, Pass
  <2>3. checkpoint' \in Checkpoint /\ checkpoint'.recompute = checkpoint.recompute
    BY <1>0, <1>8, <2>2 DEF ApplyBatch, Checkpoint
  <2>4. late' \subseteq Nat
    BY <1>0, <1>8, SkippedType DEF ApplyBatch
  <2>5. agg' \in [Tables -> SUBSET Nat] /\ twice' \in [Tables -> SUBSET Nat]
    <3>1. v.sites \in SUBSET Nat
      BY <1>0 DEF Pass
    <3> QED BY <1>0, <1>8, <3>1 DEF ApplyBatch
  <2>6. RestOK'
    BY <1>0, <2>1, <2>3, <2>4, <2>5
  <2> QED BY <1>1, <1>2, <1>8, <2>1, <2>6, PassSteps, PassesType
<1>9. CASE NoRow(p) \/ PassFails(p)
  <2>1. RestOK' /\ (UNCHANGED logVars \/ Fail) /\ v.step # "idle" /\ Becomes(p, [v EXCEPT !.step = "release"])
    BY <1>0, <1>9 DEF NoRow, PassFails, Goto, Becomes, Fail
  <2> QED BY <1>1, <1>2, <2>1, PassesType
<1>10. CASE ReleaseLease(p) \/ ReleaseFails(p)
  <2>1. (UNCHANGED logVars \/ Fail) /\ Becomes(p, NoPass)
        /\ UNCHANGED <<present, agg, twice, request, spent, late, cut, spoiled>>
    BY <1>10 DEF ReleaseLease, ReleaseFails, Becomes
  <2>2. checkpoint' \in Checkpoint /\ checkpoint'.recompute = checkpoint.recompute /\ (~present => checkpoint' = checkpoint)
    <3>1. checkpoint' = checkpoint
          \/ (checkpoint.holder = p /\ checkpoint' = [checkpoint EXCEPT !.holder = NoInstance, !.expired = FALSE])
      BY <1>10 DEF ReleaseLease, ReleaseFails
    <3>2. ~present => checkpoint.holder # p
      BY <1>0 DEF NoCheckpoint
    <3> QED BY <1>0, <3>1, <3>2 DEF Checkpoint
  <2>3. RestOK'
    BY <1>0, <2>1, <2>2
  <2> QED BY <1>1, <1>2, <2>1, <2>3, EmptyPass
<1>11. CASE ClearRequest(p)
  <2>1. UNCHANGED <<logVars, present, agg, twice, request, spent, late, cut, spoiled>> /\ v.step = "clear"
        /\ Becomes(p, [v EXCEPT !.step = "fetch"])
    BY <1>11 DEF ClearRequest, Goto, Becomes
  <2>2. checkpoint' \in Checkpoint /\ checkpoint'.recompute = 0 /\ (~present => checkpoint' = NoCheckpoint)
    <3>1. checkpoint' = [checkpoint EXCEPT !.recompute = 0]
      BY <1>11 DEF ClearRequest
    <3>2. checkpoint' \in Checkpoint /\ checkpoint'.recompute = 0
      BY <1>0, <3>1 DEF Checkpoint
    <3>3. \A c \in Checkpoint : c.recompute = 0 => [c EXCEPT !.recompute = 0] = c
      BY DEF Checkpoint
    <3>4. ~present => checkpoint.recompute = 0
      BY <1>0 DEF NoCheckpoint
    <3> QED BY <1>0, <3>1, <3>2, <3>3, <3>4
  <2>3. RestOK'
    BY <1>0, <2>1, <2>2
  <2> QED BY <1>1, <1>2, <2>1, <2>3, PassesType
<1>12. CASE ReadFails(p)
  <2>1. RestOK' /\ Fail /\ v.step \in {"read", "find"}
        /\ Becomes(p, [v EXCEPT !.step = IF v.step = "read" THEN "fetch" ELSE "clear"])
    BY <1>0, <1>12 DEF ReadFails, Goto, Becomes
  <2>2. CASE v.step = "read"
    BY <1>1, <1>2, <2>1, <2>2, PassesType
  <2>3. CASE v.step = "find"
    BY <1>1, <1>2, <2>1, <2>3, PassesType
  <2> QED BY <2>1, <2>2, <2>3
<1>13. CASE Acquire(p)
  <2>1. UNCHANGED <<logVars, agg, twice, request, spent, late, cut>> /\ present' = TRUE
        /\ Becomes(p, [NoPass EXCEPT !.step = "read"])
    BY <1>13 DEF Acquire, Becomes
  <2>2. checkpoint' \in Checkpoint /\ checkpoint'.recompute = checkpoint.recompute /\ spoiled' \in BOOLEAN
    BY <1>0, <1>13 DEF Acquire, Checkpoint
  <2>3. RestOK'
    BY <1>0, <2>1, <2>2
  <2> QED BY <1>1, <1>2, <2>1, <2>3, EmptyPass
<1>14. CASE Crash(p)
  <2>1. RestOK' /\ UNCHANGED logVars /\ Becomes(p, NoPass)
    BY <1>0, <1>14 DEF Crash, Spend, Becomes
  <2> QED BY <1>1, <1>2, <2>1, EmptyPass
<1> QED BY <1>3, <1>4, <1>5, <1>6, <1>7, <1>8, <1>9, <1>10, <1>11, <1>12, <1>13, <1>14 DEF PassStep

LEMMA TypeStep ==
  ASSUME TypeInv, [Next]_vars
  PROVE  TypeInv'
<1>0. WriterInv /\ RestOK /\ pass \in [Instances -> Pass] /\ \A q \in Instances : PassOK(pass[q])
  BY TypeParts
<1>1. ASSUME WriterInv', RestOK', UNCHANGED pass PROVE TypeInv'
  BY <1>0, <1>1 DEF TypeInv, TypeOK, WriterInv, RestOK
<1> USE DEF RestOK
<1>2. CASE Log
  <2>1. WriterInv'
    BY <1>0, <1>2, WriterStep DEF Log
  <2>2. open \subseteq Nat
    BY <1>0 DEF WriterInv, LogTypeOK, Ids
  <2>3. spent' \in 0..MaxEvents
    BY <1>0, <1>2 DEF Log, Beside, Spend
  <2> QED BY <1>0, <1>1, <1>2, <2>1, <2>2, <2>3 DEF Log, Beside
<1>3. ASSUME NEW p \in Instances,
             Acquire(p) \/ PassStep(p) \/ ReadFails(p) \/ PassFails(p) \/ ReleaseFails(p) \/ Crash(p)
      PROVE  TypeInv'
  BY <1>3, PassStepType
<1>4. ASSUME NEW id \in Rewinds, RequestRecompute(id) \/ RequestBlindly(id) PROVE TypeInv'
  <2>1. request' \in Nat /\ request' \in Rewinds \cup {0} /\ spoiled' \in BOOLEAN
    BY <1>0, <1>4 DEF RequestRecompute, RequestBlindly
  <2>2. UNCHANGED <<checkpoint, present, agg, twice, pass, late, cut>> /\ Spend /\ (UNCHANGED logVars \/ Fail)
    BY <1>4 DEF RequestRecompute, RequestBlindly
  <2> QED BY <1>0, <1>1, <2>1, <2>2, WriterStays DEF Spend
<1>5. CASE StoreRequest
  <2>1. checkpoint' \in Checkpoint /\ checkpoint'.recompute \in Rewinds \cup {0} /\ (~present => checkpoint' = checkpoint)
    BY <1>0, <1>5 DEF StoreRequest, Checkpoint
  <2> QED BY <1>0, <1>1, <1>5, <2>1, WriterStays DEF StoreRequest
<1>6. CASE LeaseExpires
  <2>1. checkpoint' \in Checkpoint /\ checkpoint'.recompute = checkpoint.recompute
    BY <1>0, <1>6 DEF LeaseExpires, Checkpoint
  <2>2. present
    BY <1>0, <1>6 DEF LeaseExpires, NoCheckpoint
  <2> QED BY <1>0, <1>1, <1>6, <2>1, <2>2, WriterStays DEF LeaseExpires, Spend
<1>7. CASE ClearUsage
  BY <1>0, <1>1, <1>7, WriterStays DEF ClearUsage, Spend
<1>8. CASE FactoryReset
  <2>1. NoCheckpoint \in Checkpoint /\ NoCheckpoint.recompute = 0
    BY DEF NoCheckpoint, Checkpoint
  <2>2. WriterInv' /\ UNCHANGED <<pass, request, spoiled>> /\ spent' \in 0..MaxEvents
    <3>1. WriterInv'
      BY <1>0, <1>8, WriterStays
    <3>2. UNCHANGED <<pass, request, spoiled>> /\ Spend
      BY <1>8 DEF FactoryReset
    <3>3. spent' \in 0..MaxEvents
      BY <1>0, <3>2 DEF Spend
    <3> QED BY <3>1, <3>2, <3>3
  <2>3. checkpoint' = NoCheckpoint /\ present' = FALSE /\ late' = {} /\ cut' = {}
    BY <1>8 DEF FactoryReset
  <2>4. agg' \in [Tables -> SUBSET Nat] /\ twice' \in [Tables -> SUBSET Nat]
    BY <1>8 DEF FactoryReset
  <2>5. RestOK'
    BY <1>0, <2>1, <2>2, <2>3, <2>4
  <2> QED BY <1>1, <2>2, <2>5
<1>9. CASE UNCHANGED vars
  BY <1>0, <1>1, <1>9, WriterStays DEF vars, usageVars
<1>10. CASE StoreFails
  BY <1>0, <1>1, <1>10, WriterStays DEF StoreFails
<1> QED BY <1>2, <1>3, <1>4, <1>5, <1>6, <1>7, <1>8, <1>9, <1>10 DEF Next

LEMMA TypeInit == Init => TypeInv
<1> SUFFICES ASSUME Init PROVE TypeInv
  OBVIOUS
<1>1. WriterInv
  <2>1. <<>> \in Seq(Entries) /\ <<>> \in Seq(Entries \cup {Gone}) /\ Len(<<>>) = 0
    OBVIOUS
  <2>2. Capacity \in Nat /\ BatchSize \in Nat /\ BatchSize > 0 /\ MaxFailures \in Nat
    OBVIOUS
  <2>3. producer \in [Entries -> {"new", "holds", "sent", "direct", "inserting", "failed", "erased"}]
    BY DEF Init, LogInit
  <2>4. /\ writer = TRUE /\ mode = "serve" /\ loop = "select" /\ queue = <<>> /\ buf = <<>> /\ rowwise = FALSE
        /\ rows = <<>> /\ open = {} /\ cleared = {} /\ repeated = {} /\ database = TRUE /\ failures = 0
    BY DEF Init, LogInit
  <2>5. failures \in 0..MaxFailures /\ Len(queue) <= Capacity /\ Len(buf) < BatchSize /\ Len(buf) <= BatchSize
    BY <2>1, <2>2, <2>4
  <2> QED BY <2>1, <2>3, <2>4, <2>5 DEF WriterInv, LogTypeOK
<1>2. RestOK
  <2>1. NoCheckpoint \in Checkpoint /\ NoCheckpoint.recompute = 0
    BY DEF NoCheckpoint, Checkpoint
  <2>2. agg \in [Tables -> SUBSET Nat] /\ twice \in [Tables -> SUBSET Nat]
    BY DEF Init
  <2>3. checkpoint = NoCheckpoint /\ present = FALSE /\ request = 0 /\ spent = 0 /\ late = {} /\ cut = {} /\ spoiled = FALSE
    BY DEF Init
  <2>4. spent \in 0..MaxEvents
    BY <2>3
  <2> QED BY <2>1, <2>2, <2>3, <2>4 DEF RestOK
<1>3. pass \in [Instances -> Pass] /\ \A p \in Instances : PassOK(pass[p])
  BY EmptyPass DEF Init, PassOK
<1> QED BY <1>1, <1>2, <1>3, TypeParts

\* The state of the writer and of the projection is well formed for every number of
\* entries and processes and every bound: batches, channel, watermark, lease and
\* passes (proxyLogBatchWriter.loop and runPass).
THEOREM TypeHolds == Spec => []TypeOK
<1>1. TypeInv => TypeOK
  BY DEF TypeInv
<1> QED BY <1>1, TypeInit, TypeStep, PTL DEF Spec

-----------------------------------------------------------------------------
(* Why rows are counted once *)

\* At most one pass runs, and it knows the watermark.
Alone == \A p, q \in Instances : Running(p) /\ Running(q) => p = q
Marked == \A p \in Instances :
  present /\ pass[p].step \notin {"idle", "read", "release"} => pass[p].mark = checkpoint.last

\* A table holds ids below the watermark.
Below == \A t \in Tables : \A id \in agg[t] : 0 < id /\ id <= checkpoint.last

\* They are the ids of committed rows with an account and a site.
Sound == \A t \in Tables : \A id \in agg[t] : Counts(id)

\* The rows of a batch are above it, and have not changed since.
Batched == \A p \in Instances :
  present /\ pass[p].step = "apply" =>
    /\ pass[p].sites \subseteq pass[p].rows /\ \A id \in pass[p].sites : Counts(id)
    /\ \A id \in pass[p].rows : /\ id \in Ids /\ id \notin open /\ pass[p].mark < id
                                /\ rows[id] \notin Orphans => id \in pass[p].sites

\* What is missing below the watermark is what a recompute has deleted.
Missing(t) == {id \in Ids : /\ Visible(id) /\ rows[id] \notin Orphans /\ id <= checkpoint.last
                            /\ id \notin agg[t] /\ id \notin late /\ id \notin cut}
Excused == \A t \in Tables : \A id \in Missing(t) : Rewinding(id)
Requested == request # 0 /\ checkpoint.recompute # 0 => request <= checkpoint.recompute

\* A pass that recomputes from an id is responsible for what is missing from that
\* id on; it empties table after table, and finds nothing to do only when every
\* visible row from the id on is late.
Recomputing == \A p \in Instances :
  present /\ pass[p].step \in {"find", "clear", "delete", "rewind"} =>
    /\ checkpoint.recompute # 0 /\ checkpoint.recompute <= pass[p].from
    /\ \A t \in Tables : \A id \in Missing(t) : id >= pass[p].from
Unseen == \A p \in Instances :
  present /\ pass[p].step = "clear" =>
    \A id \in Ids : Visible(id) /\ id <= checkpoint.last /\ id >= pass[p].from => id \in late
Emptied == \A p \in Instances :
  present /\ pass[p].step \in {"delete", "rewind"} =>
    /\ pass[p].step = "rewind" => pass[p].deleted = 3
    /\ \A t \in 1..pass[p].deleted : \A id \in agg[t] : Day(id) < Day(pass[p].from)

Once == \A t \in Tables : twice[t] = {}
CountInv == ~spoiled =>
  /\ Alone /\ Marked /\ Below /\ Sound /\ Batched /\ Excused /\ Requested
  /\ Recomputing /\ Unseen /\ Emptied /\ Once

\* Steps that leave the projection alone as far as the parts above read it.
LEMMA IdsType == TypeInv => Ids \subseteq Nat \ {0} /\ open \subseteq Ids
  BY DEF TypeInv, WriterInv, LogTypeOK, Ids

\* What becomes visible was open, and a visible row does not change.
LEMMA KeepsFacts ==
  ASSUME TypeInv, TypeInv', Keeps
  PROVE  /\ Ids \subseteq Ids'
         /\ \A id : Visible(id)' => /\ Visible(id) \/ id \in open \ open'
                                    /\ id \in Ids /\ rows'[id] = rows[id]
         /\ \A id \in Ids : id \notin open => id \notin open' /\ rows'[id] = rows[id]
<1>1. /\ Len(rows) \in Nat /\ Len(rows') \in Nat /\ Ids = 1..Len(rows) /\ Ids' = 1..Len(rows')
  <2>1. rows \in Seq(Entries \cup {Gone}) /\ rows' \in Seq(Entries \cup {Gone})
    BY DEF TypeInv, WriterInv, LogTypeOK
  <2> QED BY <2>1, LenProperties DEF Ids
<1>2. Ids \subseteq Ids'
  BY <1>1 DEF Keeps
<1>3. ASSUME NEW id, Visible(id)' PROVE (Visible(id) \/ id \in open \ open') /\ id \in Ids /\ rows'[id] = rows[id]
  <2>1. id \in Ids' /\ id \notin open' /\ id \notin cleared' /\ rows'[id] # Gone
    BY <1>3 DEF Visible
  <2>2. id \in Ids
    BY <2>1 DEF Keeps
  <2>3. rows'[id] = rows[id] /\ id \notin cleared
    BY <2>1, <2>2 DEF Keeps
  <2> QED BY <2>1, <2>2, <2>3 DEF Visible
<1> QED BY <1>2, <1>3 DEF Keeps

\* A step that leaves watermark and tables alone, ends passes at most, hides rows or
\* shows late ones, and lets a recompute grow.
Shows == /\ UNCHANGED <<agg, twice, cut, present, spoiled>> /\ checkpoint'.last = checkpoint.last
         /\ \A q \in Instances : pass'[q] = pass[q] \/ (Running(q) /\ pass'[q].step \in {"idle", "release"})
         /\ late \subseteq late' /\ Ids \subseteq Ids'
         /\ checkpoint.recompute # 0 => checkpoint'.recompute # 0 /\ checkpoint'.recompute <= checkpoint.recompute
         /\ request' # 0 /\ checkpoint'.recompute # 0 => request' <= checkpoint'.recompute
         /\ \A id \in Ids : id \notin open => id \notin open' /\ rows'[id] = rows[id]
         /\ \A id : Visible(id)' /\ id <= checkpoint.last => id \in late' \/ (Visible(id) /\ rows'[id] = rows[id])

LEMMA MissingShrinks ==
  ASSUME Shows, NEW t
  PROVE  Missing(t)' \subseteq Missing(t)
<1> SUFFICES ASSUME NEW id \in Missing(t)' PROVE id \in Missing(t)
  OBVIOUS
<1>1. /\ Visible(id)' /\ rows'[id] \notin Orphans /\ id <= checkpoint.last /\ id \notin agg[t] /\ id \notin late' /\ id \notin cut
  BY DEF Missing, Shows
<1>2. Visible(id) /\ rows'[id] = rows[id] /\ id \notin late
  BY <1>1 DEF Shows
<1> QED BY <1>1, <1>2 DEF Missing, Visible

LEMMA ShowsStep ==
  ASSUME TypeInv, TypeInv', CountInv, Shows, ~spoiled
  PROVE  CountInv'
<1> USE DEF Shows
<1>1. Alone' /\ Marked' /\ Below' /\ Once'
  BY DEF CountInv, Alone, Running, Marked, Below, Once
<1>2. Sound' /\ Batched'
  <2>1. \A id : Counts(id) => Counts(id)'
    BY DEF Counts
  <2> QED BY <2>1 DEF CountInv, Sound, Batched
<1>3. Excused'
  <2> SUFFICES ASSUME NEW t \in Tables, NEW id \in Missing(t)' PROVE Rewinding(id)'
    BY DEF Excused
  <2>1. Rewinding(id) /\ id \in Ids
    BY MissingShrinks DEF CountInv, Excused, Missing
  <2>2. checkpoint.recompute # 0 /\ checkpoint'.recompute # 0 /\ checkpoint'.recompute <= checkpoint.recompute
    BY <2>1 DEF Rewinding
  <2>3. checkpoint.recompute \in Nat /\ checkpoint'.recompute \in Nat /\ id \in Nat
    BY <2>1, IdsType DEF TypeInv, TypeOK, Checkpoint
  <2> QED BY <2>1, <2>2, <2>3 DEF Rewinding
<1>4. Requested'
  BY DEF Requested
<1>5. Recomputing'
  <2> SUFFICES ASSUME NEW p \in Instances, present, pass[p].step \in {"find", "clear", "delete", "rewind"}
               PROVE  /\ checkpoint'.recompute # 0 /\ checkpoint'.recompute <= pass[p].from
                      /\ \A t \in Tables : \A id \in Missing(t)' : id >= pass[p].from
    BY DEF Recomputing, Running
  <2>1. /\ checkpoint.recompute # 0 /\ checkpoint.recompute <= pass[p].from
        /\ \A t \in Tables : \A id \in Missing(t) : id >= pass[p].from
    BY DEF CountInv, Recomputing
  <2>2. checkpoint.recompute \in Nat /\ checkpoint'.recompute \in Nat /\ pass[p].from \in Nat
    BY DEF TypeInv, TypeOK, Checkpoint, Pass
  <2> QED BY <2>1, <2>2, MissingShrinks
<1>6. Unseen'
  <2> SUFFICES ASSUME NEW p \in Instances, present, pass[p].step = "clear", NEW id \in Ids',
                      Visible(id)', id <= checkpoint.last, id >= pass[p].from
               PROVE  id \in late'
    BY DEF Unseen, Running
  <2>1. CASE Visible(id)
    <3>1. id \in Ids
      BY <2>1 DEF Visible
    <3> QED BY <2>1, <3>1 DEF CountInv, Unseen
  <2> QED BY <2>1
<1>7. Emptied'
  BY DEF CountInv, Emptied, Day
<1> QED BY <1>1, <1>2, <1>3, <1>4, <1>5, <1>6, <1>7 DEF CountInv

\* A step of the only pass that runs.
LEMMA OnlyPass ==
  ASSUME TypeInv, CountInv, ~spoiled, NEW p \in Instances, Running(p), NEW w, PassOK(w), Becomes(p, w)
  PROVE  /\ \A q \in Instances \ {p} : ~Running(q) /\ pass'[q].step = "idle"
         /\ pass'[p] = w /\ Alone'
<1>1. \A q \in Instances \ {p} : ~Running(q)
  BY DEF CountInv, Alone
<1>2. \A q \in Instances \ {p} : pass'[q] = pass[q]
  BY BecomesType
<1> QED BY <1>1, <1>2, BecomesType DEF Alone, Running

LEMMA ShownSteps ==
  ASSUME TypeInv, TypeInv', CountInv, ~spoiled, [Next]_vars
  PROVE  \/ Shows \/ spoiled' \/ FactoryReset
         \/ \E p \in Instances : \/ Acquire(p) \/ ReadCheckpoint(p) \/ FindAffected(p) \/ ClearRequest(p)
                                 \/ DeleteAggregates(p) \/ Rewind(p) \/ FetchBatch(p) \/ ApplyBatch(p)
<1>1. Requested /\ request \in Nat /\ checkpoint.recompute \in Nat
  BY DEF CountInv, TypeInv, TypeOK, Checkpoint
<1>2. ASSUME UNCHANGED <<rows, open, agg, twice, present, spoiled, late, cut>>, checkpoint'.last = checkpoint.last,
             cleared \subseteq cleared',
             \A q \in Instances : pass'[q] = pass[q] \/ (Running(q) /\ pass'[q].step \in {"idle", "release"}),
             checkpoint.recompute # 0 => checkpoint'.recompute # 0 /\ checkpoint'.recompute <= checkpoint.recompute,
             request' # 0 /\ checkpoint'.recompute # 0 => request' <= checkpoint'.recompute
      PROVE  Shows
  <2>1. Ids' = Ids /\ \A id : Visible(id)' => Visible(id)
    BY <1>2 DEF Ids, Visible
  <2> QED BY <1>2, <2>1 DEF Shows
<1>3. CASE Log
  <2>1. Keeps
    BY <1>3, WriterStep DEF Log, TypeInv
  <2>2. late' = late \cup {id \in open \ open' : id <= checkpoint.last}
    BY <1>3 DEF Log, Beside
  <2>3. \A id : Visible(id)' /\ id <= checkpoint.last => id \in late' \/ (Visible(id) /\ rows'[id] = rows[id])
    BY <2>1, <2>2, KeepsFacts
  <2>4. UNCHANGED <<agg, twice, cut, present, spoiled, checkpoint, pass, request>>
    BY <1>3 DEF Log, Beside
  <2> QED BY <1>1, <2>1, <2>2, <2>3, <2>4, KeepsFacts DEF Shows, Requested
<1>4. ASSUME NEW p \in Instances, PassFails(p) \/ NoRow(p) \/ ReleaseLease(p) \/ ReleaseFails(p) \/ Crash(p)
      PROVE  Shows
  <2>1. UNCHANGED <<rows, open, cleared, agg, twice, present, spoiled, late, cut, request>>
    BY <1>4 DEF PassFails, NoRow, ReleaseLease, ReleaseFails, Crash, Fail, logVars
  <2>2. checkpoint'.last = checkpoint.last /\ checkpoint'.recompute = checkpoint.recompute
    BY <1>4 DEF PassFails, NoRow, ReleaseLease, ReleaseFails, Crash, TypeInv, TypeOK, Checkpoint
  <2>3. pass \in [Instances -> Pass]
    BY DEF TypeInv, TypeOK
  <2>4. \A q \in Instances : pass'[q] = pass[q] \/ (Running(q) /\ pass'[q].step \in {"idle", "release"})
    BY <1>4, <2>3 DEF PassFails, NoRow, ReleaseLease, ReleaseFails, Crash, Goto, NoPass, Pass, Running
  <2> QED BY <1>1, <1>2, <2>1, <2>2, <2>4 DEF Requested
<1>5. ASSUME NEW p \in Instances, ReadFails(p) PROVE spoiled'
  BY <1>5 DEF ReadFails
<1>6. ASSUME NEW id \in Rewinds, RequestRecompute(id) \/ RequestBlindly(id) PROVE Shows \/ spoiled'
  <2>1. /\ UNCHANGED <<rows, open, cleared, agg, twice, present, late, cut, pass, checkpoint>>
        /\ request' \in {id, checkpoint.recompute} /\ id \in Nat
    BY <1>6 DEF RequestRecompute, RequestBlindly, Fail, logVars
  <2>2. spoiled' \/ (UNCHANGED spoiled /\ (checkpoint.recompute # 0 => request' <= checkpoint.recompute))
    <3>1. CASE RequestRecompute(id)
      BY <1>1, <2>1, <3>1 DEF RequestRecompute
    <3>2. CASE RequestBlindly(id)
      <4>1. CASE checkpoint.recompute # 0 /\ checkpoint.recompute < id
        BY <3>2, <4>1 DEF RequestBlindly
      <4>2. CASE ~(checkpoint.recompute # 0 /\ checkpoint.recompute < id)
        <5>1. request' = id /\ (checkpoint.recompute # 0 => id <= checkpoint.recompute)
          BY <1>1, <2>1, <3>2, <4>2 DEF RequestBlindly
        <5>2. spoiled \in BOOLEAN /\ spoiled' = spoiled
          BY <3>2, <4>2 DEF RequestBlindly, TypeInv, TypeOK
        <5> QED BY <5>1, <5>2
      <4> QED BY <4>1, <4>2
    <3> QED BY <1>6, <3>1, <3>2
  <2> QED BY <1>1, <1>2, <2>1, <2>2
<1>7. CASE StoreRequest
  <2>1. UNCHANGED <<rows, open, cleared, agg, twice, present, spoiled, late, cut, pass>> /\ request' = 0 /\ request # 0
    BY <1>7 DEF StoreRequest, logVars
  <2>2. checkpoint'.last = checkpoint.last /\ checkpoint'.recompute \in {request, checkpoint.recompute}
    BY <1>7 DEF StoreRequest, TypeInv, TypeOK, Checkpoint
  <2> QED BY <1>1, <1>2, <2>1, <2>2 DEF Requested
<1>8. CASE LeaseExpires
  <2>1. UNCHANGED <<rows, open, cleared, agg, twice, present, spoiled, late, cut, pass, request>>
    BY <1>8 DEF LeaseExpires, logVars
  <2>2. checkpoint'.last = checkpoint.last /\ checkpoint'.recompute = checkpoint.recompute
    BY <1>8 DEF LeaseExpires, TypeInv, TypeOK, Checkpoint
  <2> QED BY <1>1, <1>2, <2>1, <2>2 DEF Requested
<1>9. CASE ClearUsage
  <2>1. UNCHANGED <<rows, open, agg, twice, present, spoiled, late, cut, pass, request, checkpoint>>
    BY <1>9 DEF ClearUsage
  <2>2. cleared \subseteq cleared'
    BY <1>9 DEF ClearUsage, TypeInv, TypeOK, LogTypeOK
  <2> QED BY <1>1, <1>2, <2>1, <2>2 DEF Requested
<1>10. CASE UNCHANGED vars
  <2>1. UNCHANGED <<rows, open, cleared, agg, twice, present, spoiled, late, cut, pass, request, checkpoint>>
    BY <1>10 DEF vars, logVars, usageVars
  <2> QED BY <1>1, <1>2, <2>1 DEF Requested
<1>11. CASE StoreFails
  <2>1. UNCHANGED <<rows, open, cleared, agg, twice, present, spoiled, late, cut, pass, checkpoint>> /\ request' = 0
    BY <1>11 DEF StoreFails, Fail
  <2> QED BY <1>1, <1>2, <2>1
<1> QED BY <1>3, <1>4, <1>5, <1>6, <1>7, <1>8, <1>9, <1>10, <1>11 DEF Next, PassStep

\* The table and what the tables of aggregates miss are the same after a step that
\* changes only passes and the request.
LEMMA MissingSame ==
  ASSUME UNCHANGED <<rows, open, cleared, agg, late, cut>>, checkpoint'.last = checkpoint.last
  PROVE  /\ Ids' = Ids /\ (\A id : Visible(id)' <=> Visible(id)) /\ (\A t : Missing(t)' = Missing(t))
  BY DEF Ids, Visible, Missing

LEMMA AcquireStep ==
  ASSUME TypeInv, CountInv, ~spoiled, ~spoiled', NEW p \in Instances, Acquire(p)
  PROVE  CountInv'
<1>1. \A q \in Instances : ~Running(q)
  BY DEF Acquire
<1>2. /\ pass' = [pass EXCEPT ![p] = [NoPass EXCEPT !.step = "read"]]
      /\ UNCHANGED <<rows, open, cleared, agg, twice, request, late, cut>>
      /\ checkpoint'.last = checkpoint.last /\ checkpoint'.recompute = checkpoint.recompute
  BY DEF Acquire, logVars, TypeInv, TypeOK, Checkpoint
<1>3. pass'[p].step = "read" /\ \A q \in Instances \ {p} : pass'[q].step = "idle"
  BY <1>1, <1>2 DEF TypeInv, TypeOK, Running, NoPass
<1>4. Alone' /\ Marked' /\ Batched' /\ Recomputing' /\ Unseen' /\ Emptied'
  BY <1>3 DEF Alone, Running, Marked, Batched, Recomputing, Unseen, Emptied
<1>5. Below' /\ Sound' /\ Requested' /\ Once'
  BY <1>2 DEF CountInv, Below, Sound, Counts, Ids, Requested, Once
<1>6. Excused'
  BY <1>2, MissingSame DEF CountInv, Excused, Rewinding
<1> QED BY <1>4, <1>5, <1>6 DEF CountInv

LEMMA ResetStep ==
  ASSUME TypeInv, CountInv, ~spoiled, FactoryReset
  PROVE  CountInv'
<1>1. /\ rows' = <<>> /\ checkpoint' = NoCheckpoint /\ ~present' /\ UNCHANGED <<pass, request, spoiled>>
      /\ agg' = [t \in Tables |-> {}] /\ twice' = [t \in Tables |-> {}]
  BY DEF FactoryReset
<1>2. Alone' /\ Marked' /\ Batched' /\ Recomputing' /\ Unseen' /\ Emptied'
  BY <1>1 DEF CountInv, Alone, Running, Marked, Batched, Recomputing, Unseen, Emptied
<1>3. Below' /\ Sound' /\ Once'
  BY <1>1 DEF Below, Sound, Once
<1>4. Requested'
  BY <1>1 DEF Requested, NoCheckpoint
<1>5. Ids' = {}
  BY <1>1 DEF Ids
<1>6. Excused'
  BY <1>5 DEF Excused, Missing
<1> QED BY <1>2, <1>3, <1>4, <1>6 DEF CountInv

LEMMA ReadStep ==
  ASSUME TypeInv, CountInv, ~spoiled, NEW p \in Instances, ReadCheckpoint(p)
  PROVE  CountInv'
<1> DEFINE v == pass[p]
<1> DEFINE w == Read(v)
<1>1. /\ v.step = "read" /\ v \in Pass /\ PassOK(w) /\ Becomes(p, w) /\ Running(p)
      /\ UNCHANGED <<rows, open, cleared, checkpoint, present, agg, twice, request, late, cut, spoiled>>
  BY PassSteps, PassesType DEF ReadCheckpoint, logVars, Running, TypeInv, TypeOK
<1>2. w.mark = checkpoint.last /\ w.from = checkpoint.recompute
      /\ w.step = IF checkpoint.recompute = 0 THEN "fetch" ELSE "find"
  BY <1>1 DEF Read, Pass
<1> HIDE DEF v, w
<1>3. (\A q \in Instances \ {p} : pass'[q].step = "idle") /\ pass'[p] = w /\ Alone'
  BY <1>1, OnlyPass
<1>4. Ids' = Ids /\ (\A id : Visible(id)' <=> Visible(id)) /\ (\A t : Missing(t)' = Missing(t))
  BY <1>1, MissingSame
<1>5. Marked' /\ Batched' /\ Unseen' /\ Emptied'
  BY <1>1, <1>2, <1>3 DEF Marked, Batched, Unseen, Emptied
<1>6. Below' /\ Sound' /\ Requested' /\ Once'
  BY <1>1 DEF CountInv, Below, Sound, Counts, Ids, Requested, Once
<1>7. Excused'
  BY <1>1, <1>4 DEF CountInv, Excused, Rewinding
<1>8. Recomputing'
  <2>1. CASE w.step = "find"
    <3>1. checkpoint.recompute # 0 /\ w.from = checkpoint.recompute /\ w.from \in Nat
      BY <1>2, <2>1 DEF TypeInv, TypeOK, Checkpoint
    <3>2. \A t \in Tables : \A id \in Missing(t) : id >= w.from
      BY <3>1 DEF CountInv, Excused, Rewinding
    <3> QED BY <1>1, <1>3, <1>4, <3>1, <3>2 DEF Recomputing
  <2>2. CASE w.step = "fetch"
    BY <1>3, <2>2 DEF Recomputing
  <2> QED BY <1>2, <2>1, <2>2
<1> QED BY <1>1, <1>3, <1>5, <1>6, <1>7, <1>8 DEF CountInv

LEMMA FindStep ==
  ASSUME TypeInv, CountInv, ~spoiled, NEW p \in Instances, FindAffected(p)
  PROVE  CountInv'
<1> DEFINE v == pass[p]
<1> DEFINE w == IF From(v.from) = {} THEN [v EXCEPT !.step = "clear"] ELSE Found(v)
<1>1. /\ v.step = "find" /\ v \in Pass /\ PassOK(v) /\ Becomes(p, w) /\ Running(p)
      /\ UNCHANGED <<rows, open, cleared, checkpoint, present, agg, twice, request, late, cut, spoiled>>
  BY PassSteps DEF FindAffected, logVars, Running, TypeInv, TypeOK
<1>2. PassOK(w)
  BY <1>1, PassesType
<1>3. /\ w.mark = v.mark /\ w.deleted = 0
      /\ \/ w.step = "clear" /\ w.from = v.from /\ From(v.from) = {}
         \/ w.step = "delete" /\ w.from \in From(v.from) /\ \A id \in From(v.from) : w.from <= id
  <2>1. CASE From(v.from) = {}
    BY <1>1, <2>1 DEF Pass, PassOK
  <2>2. CASE From(v.from) # {}
    <3>1. Min(From(v.from)) \in From(v.from) /\ \A id \in From(v.from) : Min(From(v.from)) <= id
      BY <2>2, BatchFacts, MinMember
    <3> QED BY <1>1, <2>2, <3>1 DEF Pass, PassOK, Found
  <2> QED BY <2>1, <2>2
<1>4. v.from \in Rewinds /\ v.from \in Nat \ {0} /\ w.from \in Nat \ {0} /\ v.from <= w.from
  <2>1. v.from \in Rewinds /\ v.from \in Nat \ {0}
    BY <1>1 DEF PassOK
  <2>2. \A id \in From(v.from) : id \in Nat /\ v.from <= id
    BY BatchFacts DEF From
  <2> HIDE DEF v, w
  <2> QED BY <1>3, <2>1, <2>2
<1> HIDE DEF v, w
<1>5. (\A q \in Instances \ {p} : pass'[q].step = "idle") /\ pass'[p] = w /\ Alone'
  BY <1>1, <1>2, OnlyPass
<1>6. Ids' = Ids /\ (\A id : Visible(id)' <=> Visible(id)) /\ (\A t : Missing(t)' = Missing(t))
  BY <1>1, MissingSame
<1>7. ASSUME NEW id, Visible(id), id >= v.from PROVE id \in From(v.from)
  BY <1>7 DEF From, Visible
<1>9. Marked' /\ Batched' /\ Emptied'
  BY <1>1, <1>3, <1>5 DEF CountInv, Marked, Batched, Emptied, v
<1>10. Below' /\ Sound' /\ Requested' /\ Once'
  BY <1>1 DEF CountInv, Below, Sound, Counts, Ids, Requested, Once
<1>11. Excused'
  BY <1>1, <1>6 DEF CountInv, Excused, Rewinding
<1>12. Recomputing'
  <2> SUFFICES ASSUME present
               PROVE  /\ checkpoint.recompute # 0 /\ checkpoint.recompute <= w.from
                      /\ \A t \in Tables : \A id \in Missing(t) : id >= w.from
    BY <1>1, <1>5, <1>6 DEF Recomputing
  <2>1. /\ checkpoint.recompute # 0 /\ checkpoint.recompute <= v.from
        /\ \A t \in Tables : \A id \in Missing(t) : id >= v.from
    BY <1>1 DEF CountInv, Recomputing, v
  <2>2. checkpoint.recompute \in Nat
    BY DEF TypeInv, TypeOK, Checkpoint
  <2>3. ASSUME NEW t \in Tables, NEW id \in Missing(t) PROVE id >= w.from
    <3>1. id \in From(v.from) /\ id \in Nat
      BY <1>7, <2>1, IdsType DEF Missing
    <3> QED BY <1>3, <1>4, <2>1, <3>1
  <2> QED BY <1>4, <2>1, <2>2, <2>3
<1>13. Unseen'
  <2> SUFFICES ASSUME NEW id \in Ids, Visible(id), id >= w.from, w.step = "clear"
               PROVE  FALSE
    BY <1>1, <1>5, <1>6 DEF Unseen
  <2> QED BY <1>3, <1>7
<1> QED BY <1>1, <1>5, <1>9, <1>10, <1>11, <1>12, <1>13 DEF CountInv

LEMMA ClearStep ==
  ASSUME TypeInv, CountInv, ~spoiled, NEW p \in Instances, ClearRequest(p)
  PROVE  CountInv'
<1> DEFINE v == pass[p]
<1> DEFINE w == [v EXCEPT !.step = "fetch"]
<1>1. /\ v.step = "clear" /\ v \in Pass /\ PassOK(w) /\ Becomes(p, w) /\ Running(p)
      /\ UNCHANGED <<rows, open, cleared, present, agg, twice, request, late, cut, spoiled>>
      /\ checkpoint'.last = checkpoint.last /\ checkpoint'.recompute = 0
  BY PassesType DEF ClearRequest, Goto, Becomes, logVars, Running, TypeInv, TypeOK, Checkpoint
<1>2. w.mark = v.mark /\ w.step = "fetch"
  BY <1>1 DEF Pass
<1> HIDE DEF v, w
<1>3. (\A q \in Instances \ {p} : pass'[q].step = "idle") /\ pass'[p] = w /\ Alone'
  BY <1>1, OnlyPass
<1>4. Ids' = Ids /\ (\A id : Visible(id)' <=> Visible(id)) /\ (\A t : Missing(t)' = Missing(t))
  BY <1>1, MissingSame
<1>5. Marked' /\ Batched' /\ Emptied' /\ Recomputing' /\ Unseen'
  BY <1>1, <1>2, <1>3 DEF CountInv, Marked, Batched, Emptied, Recomputing, Unseen, v
<1>6. Below' /\ Sound' /\ Requested' /\ Once'
  BY <1>1 DEF CountInv, Below, Sound, Counts, Ids, Requested, Once
<1>7. Excused'
  <2> SUFFICES ASSUME NEW t \in Tables, NEW id \in Missing(t) PROVE FALSE
    BY <1>4 DEF Excused
  <2>1. id \in Ids /\ Visible(id) /\ id <= checkpoint.last /\ id \notin late
    BY DEF Missing
  <2>2. CASE present
    <3>1. id >= v.from
      BY <1>1, <2>2 DEF CountInv, Recomputing, v
    <3> QED BY <1>1, <2>1, <2>2, <3>1 DEF CountInv, Unseen, v
  <2>3. CASE ~present
    <3>1. checkpoint.last = 0
      BY <2>3 DEF TypeInv, TypeOK, NoCheckpoint
    <3> QED BY <2>1, <3>1, IdsType
  <2> QED BY <2>2, <2>3
<1> QED BY <1>1, <1>3, <1>5, <1>6, <1>7 DEF CountInv

LEMMA DeleteStep ==
  ASSUME TypeInv, CountInv, ~spoiled, NEW p \in Instances, DeleteAggregates(p)
  PROVE  CountInv'
<1> DEFINE v == pass[p]
<1> DEFINE w == Deleted(v)
<1> DEFINE n == v.deleted + 1
<1> DEFINE Kept(ids) == {id \in ids : Day(id) < Day(v.from)}
<1>1. /\ v.step = "delete" /\ v \in Pass /\ PassOK(v) /\ PassOK(w) /\ Becomes(p, w) /\ Running(p)
      /\ UNCHANGED <<rows, open, cleared, checkpoint, present, request, late, spoiled>>
      /\ agg' = [agg EXCEPT ![n] = Kept(agg[n])] /\ twice' = [twice EXCEPT ![n] = Kept(twice[n])]
      /\ cut' = cut \cup {id \in agg[n] \ Kept(agg[n]) : id < v.from}
  BY PassSteps, PassesType DEF DeleteAggregates, logVars, Running, TypeInv, TypeOK
<1>2. /\ w.mark = v.mark /\ w.from = v.from /\ w.deleted = n /\ (w.step = IF n = 3 THEN "rewind" ELSE "delete")
      /\ n \in 1..3 /\ v.from \in Nat \ {0}
  BY <1>1 DEF Deleted, Pass, PassOK
<1>3. agg \in [Tables -> SUBSET Nat] /\ twice \in [Tables -> SUBSET Nat] /\ n \in Tables
  BY <1>2 DEF TypeInv, TypeOK, Tables
<1>4. /\ \A t \in Tables \ {n} : agg'[t] = agg[t] /\ twice'[t] = twice[t]
      /\ agg'[n] = Kept(agg[n]) /\ twice'[n] = Kept(twice[n])
  BY <1>1, <1>3
<1>5. v.deleted \in Nat /\ n = v.deleted + 1
  BY <1>1 DEF Pass
<1> HIDE DEF v, w, n
<1>6. (\A q \in Instances \ {p} : pass'[q].step = "idle") /\ pass'[p] = w /\ Alone'
  BY <1>1, OnlyPass
<1>7. Ids' = Ids /\ (\A id : Visible(id)' <=> Visible(id))
  BY <1>1 DEF Ids, Visible
<1>8. ASSUME NEW t \in Tables, NEW id \in Missing(t)', id \notin Missing(t)
      PROVE  id \in Nat \ {0} /\ id <= checkpoint.last /\ id >= v.from
  <2>1. /\ id \in Ids /\ id \in Nat \ {0} /\ Visible(id) /\ rows[id] \notin Orphans /\ id <= checkpoint.last
        /\ id \notin agg'[t] /\ id \notin late /\ id \notin cut'
    BY <1>1, <1>7, IdsType DEF Missing
  <2>2. id \in agg[t] /\ t = n
    BY <1>1, <1>4, <1>8, <2>1 DEF Missing
  <2>3. ~(id < v.from)
    BY <1>1, <1>4, <2>1, <2>2
  <2> QED BY <1>2, <2>1, <2>3
<1>9. ASSUME present
      PROVE  checkpoint.recompute # 0 /\ checkpoint.recompute <= v.from /\ \A t \in Tables : \A id \in Missing(t) : id >= v.from
  BY <1>1, <1>9 DEF CountInv, Recomputing, v
<1>10. Below' /\ Sound' /\ Once' /\ Requested'
  <2>1. \A t \in Tables : agg'[t] \subseteq agg[t] /\ twice'[t] \subseteq twice[t]
    BY <1>3, <1>4
  <2> QED BY <1>1, <2>1 DEF CountInv, Below, Sound, Counts, Ids, Once, Requested
<1>11. Marked' /\ Batched'
  BY <1>1, <1>2, <1>6 DEF CountInv, Marked, Batched, v
<1>12. Excused'
  <2> SUFFICES ASSUME NEW t \in Tables, NEW id \in Missing(t)', id \notin Missing(t) PROVE Rewinding(id)
    BY <1>1 DEF CountInv, Excused, Rewinding
  <2>1. id \in Nat \ {0} /\ id <= checkpoint.last /\ id >= v.from
    BY <1>8
  <2>2. present
    BY <2>1 DEF TypeInv, TypeOK, NoCheckpoint
  <2>3. checkpoint.recompute # 0 /\ checkpoint.recompute <= v.from /\ checkpoint.recompute \in Nat
    BY <1>9, <2>2 DEF TypeInv, TypeOK, Checkpoint
  <2> QED BY <1>2, <2>1, <2>3 DEF Rewinding
<1>13. Recomputing'
  <2> SUFFICES ASSUME present
               PROVE  /\ checkpoint.recompute # 0 /\ checkpoint.recompute <= v.from
                      /\ \A t \in Tables : \A id \in Missing(t)' : id >= v.from
    BY <1>1, <1>2, <1>6 DEF Recomputing
  <2> QED BY <1>8, <1>9
<1>14. Unseen'
  BY <1>2, <1>6 DEF Unseen
<1>15. Emptied'
  <2> SUFFICES ASSUME present, NEW t \in 1..n, NEW id \in agg'[t] PROVE Day(id) < Day(v.from)
    BY <1>1, <1>2, <1>6 DEF Emptied, Day
  <2>1. CASE t = n
    BY <1>4, <2>1
  <2>2. CASE t # n
    <3>1. t \in 1..v.deleted /\ t \in Tables
      BY <1>2, <1>5, <2>2 DEF Tables
    <3> QED BY <1>1, <1>4, <2>2, <3>1 DEF CountInv, Emptied, v
  <2> QED BY <2>1, <2>2
<1> QED BY <1>1, <1>6, <1>10, <1>11, <1>12, <1>13, <1>14, <1>15 DEF CountInv

LEMMA RewindStep ==
  ASSUME TypeInv, CountInv, ~spoiled, NEW p \in Instances, Rewind(p)
  PROVE  CountInv'
<1> DEFINE v == pass[p]
<1> DEFINE w == Rewound(v)
<1>1. /\ v.step = "rewind" /\ v \in Pass /\ PassOK(v) /\ PassOK(w) /\ Becomes(p, w) /\ Running(p) /\ present
      /\ UNCHANGED <<rows, open, cleared, present, agg, twice, request, spoiled>>
      /\ checkpoint'.last = v.from - 1 /\ checkpoint'.recompute = 0
      /\ late' = {id \in late \cup Skipped(v.from - 1, {}) : id < v.from} /\ cut' = {id \in cut : id < v.from}
  BY PassSteps, PassesType DEF Rewind, logVars, Running, TypeInv, TypeOK, Checkpoint
<1>2. w.mark = v.from - 1 /\ w.step = "fetch" /\ v.from \in Nat \ {0}
  BY <1>1 DEF Rewound, Pass, PassOK
<1> HIDE DEF v, w
<1>3. (\A q \in Instances \ {p} : pass'[q].step = "idle") /\ pass'[p] = w /\ Alone'
  BY <1>1, OnlyPass
<1>4. Ids' = Ids /\ (\A id : Visible(id)' <=> Visible(id))
  BY <1>1 DEF Ids, Visible
<1>5. Marked' /\ Batched' /\ Emptied' /\ Recomputing' /\ Unseen'
  BY <1>1, <1>2, <1>3 DEF Marked, Batched, Emptied, Recomputing, Unseen
<1>6. Sound' /\ Requested' /\ Once'
  BY <1>1 DEF CountInv, Sound, Counts, Ids, Requested, Once
<1>7. Below'
  <2> SUFFICES ASSUME NEW t \in Tables, NEW id \in agg[t] PROVE 0 < id /\ id <= v.from - 1
    BY <1>1 DEF Below
  <2>1. t \in 1..v.deleted
    BY <1>1 DEF CountInv, Emptied, Tables, v
  <2>2. Day(id) < Day(v.from)
    BY <1>1, <2>1 DEF CountInv, Emptied, v
  <2>3. id \in Nat /\ 0 < id
    BY DEF CountInv, Below, TypeInv, TypeOK
  <2>4. id < v.from
    BY <1>2, <2>2, <2>3, LaterDay
  <2> QED BY <1>2, <2>3, <2>4
<1>8. Excused'
  <2> SUFFICES ASSUME NEW t \in Tables, NEW id \in Missing(t)' PROVE FALSE
    BY DEF Excused
  <2>1. /\ id \in Ids /\ id \in Nat \ {0} /\ Visible(id) /\ rows[id] \notin Orphans /\ id <= v.from - 1
        /\ id \notin agg[t] /\ id \notin late' /\ id \notin cut'
    BY <1>1, <1>4, IdsType DEF Missing
  <2>2. id < v.from
    BY <1>2, <2>1
  <2>3. id \notin late /\ id \notin Skipped(v.from - 1, {}) /\ id \notin cut
    BY <1>1, <2>1, <2>2
  <2>4. id <= checkpoint.last
    BY <2>1, <2>3 DEF Skipped, TypeInv, TypeOK, Checkpoint
  <2>5. id \in Missing(t)
    BY <2>1, <2>3, <2>4 DEF Missing
  <2>6. id >= v.from
    BY <1>1, <2>5 DEF CountInv, Recomputing, v
  <2> QED BY <1>2, <2>1, <2>2, <2>6
<1> QED BY <1>1, <1>3, <1>5, <1>6, <1>7, <1>8 DEF CountInv

LEMMA FetchStep ==
  ASSUME TypeInv, CountInv, ~spoiled, NEW p \in Instances, FetchBatch(p)
  PROVE  CountInv'
<1> DEFINE v == pass[p]
<1> DEFINE w == Fetched(v)
<1> DEFINE batch == NextBatch(v.mark)
<1>1. /\ v.step = "fetch" /\ v \in Pass /\ PassOK(w) /\ Becomes(p, w) /\ Running(p)
      /\ UNCHANGED <<rows, open, cleared, checkpoint, present, agg, twice, request, late, cut, spoiled>>
  BY PassSteps, PassesType DEF FetchBatch, logVars, Running, TypeInv, TypeOK
<1>2. /\ w.mark = v.mark /\ w.rows = batch /\ w.sites = {i \in batch : rows[i] \notin Orphans}
      /\ w.step \in {"release", "apply"}
  BY <1>1 DEF Fetched, Pass
<1>3. ASSUME NEW id \in batch PROVE id \in Ids /\ id \notin open /\ v.mark < id /\ rows[id] \in Entries
  <2>1. id \in Ids /\ Visible(id) /\ id >= v.mark + 1 /\ v.mark \in Nat /\ id \in Nat
    BY <1>1, <1>3, IdsType DEF NextBatch, From, Pass
  <2>2. rows[id] \in Entries \cup {Gone}
    BY <2>1 DEF TypeInv, WriterInv, LogTypeOK, Ids
  <2> HIDE DEF v
  <2> QED BY <2>1, <2>2 DEF Visible
<1> HIDE DEF v, w, batch
<1>4. (\A q \in Instances \ {p} : pass'[q].step = "idle") /\ pass'[p] = w /\ Alone'
  BY <1>1, OnlyPass
<1>5. Ids' = Ids /\ (\A id : Visible(id)' <=> Visible(id)) /\ (\A t : Missing(t)' = Missing(t))
  BY <1>1, MissingSame
<1>6. Marked' /\ Recomputing' /\ Unseen' /\ Emptied'
  BY <1>1, <1>2, <1>4 DEF CountInv, Marked, Recomputing, Unseen, Emptied, v
<1>7. Below' /\ Sound' /\ Requested' /\ Once'
  BY <1>1 DEF CountInv, Below, Sound, Counts, Ids, Requested, Once
<1>8. Batched'
  <2>1. w.sites \subseteq w.rows /\ \A id \in w.sites : Counts(id)'
    BY <1>1, <1>2, <1>3, <1>5 DEF Counts
  <2>2. \A id \in w.rows : /\ id \in Ids' /\ id \notin open' /\ w.mark < id
                           /\ rows'[id] \notin Orphans => id \in w.sites
    BY <1>1, <1>2, <1>3, <1>5
  <2> QED BY <1>4, <2>1, <2>2 DEF Batched
<1>9. Excused'
  BY <1>1, <1>5 DEF CountInv, Excused, Rewinding
<1> QED BY <1>1, <1>4, <1>6, <1>7, <1>8, <1>9 DEF CountInv

LEMMA ApplyStep ==
  ASSUME TypeInv, CountInv, ~spoiled, NEW p \in Instances, ApplyBatch(p)
  PROVE  CountInv'
<1> DEFINE v == pass[p]
<1> DEFINE w == Applied(v)
<1> DEFINE top == Max(v.rows)
<1>1. /\ v.step = "apply" /\ v \in Pass /\ PassOK(v) /\ PassOK(w) /\ Becomes(p, w) /\ Running(p) /\ present
      /\ UNCHANGED <<rows, open, cleared, present, request, cut, spoiled>>
      /\ checkpoint'.last = top /\ checkpoint'.recompute = checkpoint.recompute
      /\ agg' = [t \in Tables |-> agg[t] \cup v.sites]
      /\ twice' = [t \in Tables |-> twice[t] \cup (agg[t] \cap v.sites)]
      /\ late' = late \cup Skipped(top, v.rows)
  BY PassSteps, PassesType DEF ApplyBatch, logVars, Running, TypeInv, TypeOK, Checkpoint
<1>2. w.mark = top /\ w.step \in {"release", "fetch"}
  BY <1>1 DEF Applied, Pass
<1>3. top \in v.rows /\ top \in Nat /\ (\A id \in v.rows : id \in Nat /\ id <= top) /\ v.mark = checkpoint.last /\ v.mark \in Nat
  BY <1>1, MaxMember DEF PassOK, Pass, CountInv, Marked
<1> HIDE DEF top
<1>4. /\ v.sites \subseteq v.rows /\ \A id \in v.sites : Counts(id)
      /\ \A id \in v.rows : /\ id \in Ids /\ id \notin open /\ checkpoint.last < id
                            /\ rows[id] \notin Orphans => id \in v.sites
  BY <1>1, <1>3 DEF CountInv, Batched
<1> HIDE DEF v, w
<1>5. (\A q \in Instances \ {p} : pass'[q].step = "idle") /\ pass'[p] = w /\ Alone'
  BY <1>1, OnlyPass
<1>6. Ids' = Ids /\ (\A id : Visible(id)' <=> Visible(id))
  BY <1>1 DEF Ids, Visible
<1>7. Marked' /\ Batched' /\ Emptied' /\ Recomputing' /\ Unseen'
  BY <1>1, <1>2, <1>5 DEF Marked, Batched, Emptied, Recomputing, Unseen
<1>8. Requested'
  BY <1>1 DEF CountInv, Requested
<1>9. checkpoint.last < top /\ checkpoint.last \in Nat
  BY <1>3, <1>4
<1>10. \A t \in Tables : \A id \in agg[t] : id \in Nat /\ 0 < id /\ id <= checkpoint.last
  BY DEF CountInv, Below, TypeInv, TypeOK
<1>11. Below'
  <2> SUFFICES ASSUME NEW t \in Tables, NEW id \in agg[t] \cup v.sites PROVE 0 < id /\ id <= top
    BY <1>1 DEF Below
  <2>1. CASE id \in agg[t]
    BY <1>3, <1>9, <1>10, <2>1
  <2>2. CASE id \in v.sites
    BY <1>3, <1>4, <2>2
  <2> QED BY <2>1, <2>2
<1>12. Once'
  <2>1. \A t \in Tables : agg[t] \cap v.sites = {}
    BY <1>3, <1>4, <1>9, <1>10
  <2> QED BY <1>1, <2>1 DEF CountInv, Once
<1>13. Excused'
  <2> SUFFICES ASSUME NEW t \in Tables, NEW id \in Missing(t)' PROVE Rewinding(id)
    BY <1>1 DEF Excused, Rewinding
  <2>1. /\ id \in Ids /\ id \in Nat /\ Visible(id) /\ rows[id] \notin Orphans /\ id <= top
        /\ id \notin agg[t] /\ id \notin v.sites /\ id \notin late /\ id \notin cut /\ id \notin Skipped(top, v.rows)
    BY <1>1, <1>6, IdsType DEF Missing
  <2>2. id \notin v.rows
    BY <1>4, <2>1
  <2>3. id <= checkpoint.last
    BY <1>9, <2>1, <2>2 DEF Skipped
  <2> QED BY <2>1, <2>3 DEF CountInv, Excused, Missing
<1>14. Sound'
  <2>1. \A id : Counts(id) => Counts(id)'
    BY <1>1, <1>6 DEF Counts
  <2> QED BY <1>1, <1>4, <2>1 DEF CountInv, Sound
<1> QED BY <1>1, <1>5, <1>7, <1>8, <1>11, <1>12, <1>13, <1>14 DEF CountInv

LEMMA SpoiledStays ==
  ASSUME [Next]_vars, spoiled
  PROVE  spoiled'
<1>1. ASSUME NEW p \in Instances, Acquire(p) \/ PassStep(p) \/ ReadFails(p) \/ PassFails(p) \/ ReleaseFails(p) \/ Crash(p)
      PROVE  spoiled'
  BY <1>1 DEF Acquire, PassStep, ReadFails, PassFails, ReleaseFails, Crash, ReadCheckpoint, FindAffected, ClearRequest,
              DeleteAggregates, Rewind, FetchBatch, ApplyBatch, NoRow, ReleaseLease
<1>2. CASE Log \/ StoreRequest \/ StoreFails \/ LeaseExpires \/ ClearUsage \/ FactoryReset \/ UNCHANGED vars
  BY <1>2 DEF Log, Beside, StoreRequest, StoreFails, LeaseExpires, ClearUsage, FactoryReset, vars, usageVars
<1>3. ASSUME NEW id \in Rewinds, RequestRecompute(id) \/ RequestBlindly(id) PROVE spoiled'
  BY <1>3 DEF RequestRecompute, RequestBlindly
<1> QED BY <1>1, <1>2, <1>3 DEF Next

LEMMA CountInit == Init => CountInv
<1> SUFFICES ASSUME Init PROVE CountInv
  OBVIOUS
<1>1. /\ rows = <<>> /\ ~present /\ request = 0 /\ \A p \in Instances : ~Running(p)
      /\ agg = [t \in Tables |-> {}] /\ twice = [t \in Tables |-> {}]
  BY DEF Init, LogInit, NoPass, Running
<1>2. Ids = {}
  BY <1>1 DEF Ids
<1> QED BY <1>1, <1>2 DEF CountInv, Alone, Marked, Below, Sound, Batched, Excused, Missing, Requested, Recomputing, Unseen, Emptied, Once

LEMMA CountStep ==
  ASSUME TypeInv, TypeInv', CountInv, [Next]_vars
  PROVE  CountInv'
<1>1. CASE spoiled'
  BY <1>1 DEF CountInv
<1>2. CASE spoiled
  <2>1. spoiled'
    BY <1>2, SpoiledStays
  <2> QED BY <2>1 DEF CountInv
<1>3. CASE ~spoiled /\ ~spoiled'
  BY <1>3, ShownSteps, ShowsStep, AcquireStep, ResetStep, ReadStep, FindStep, ClearStep, DeleteStep, RewindStep,
     FetchStep, ApplyStep
<1> QED BY <1>1, <1>2, <1>3

\* As long as no two passes overlap and no failed read is taken for an empty one,
\* the aggregates count only committed rows of an account and a site, at most once
\* and none above the watermark; and of the visible ones up to the watermark they
\* miss only rows that became visible behind it, rows that a recompute from the
\* middle of a day deleted with the rest of that day, and rows from the id of a
\* pending recompute on.  This for every number of processes and rows, every batch
\* size and every order of failures, crashes, recomputes from any id, deletions and
\* resets (applyBatch and applyRecompute, scheduler/usage_aggregation.go).
THEOREM CountsOnce == Spec => []CountedOnce
<1>1. TypeInv /\ CountInv => CountedOnce
  <2> SUFFICES ASSUME CountInv, ~spoiled, NEW t \in Tables
               PROVE  /\ twice[t] = {}
                      /\ \A id \in agg[t] : Counts(id) /\ id <= checkpoint.last
                      /\ \A id \in Ids : (Visible(id) /\ Counts(id) /\ id <= checkpoint.last)
                                           => id \in agg[t] \cup late \cup cut \/ Rewinding(id)
    BY DEF CountedOnce
  <2> QED BY DEF CountInv, Once, Below, Sound, Excused, Missing, Counts
<1>2. TypeInv /\ CountInv /\ [Next]_vars => TypeInv' /\ CountInv'
  BY TypeStep, CountStep
<1> QED BY <1>1, <1>2, TypeInit, CountInit, PTL DEF Spec

-----------------------------------------------------------------------------
(* Why an entry has one row *)

\* Entries of the statement the drain goroutine runs, entries with a statement
\* that has not ended, and entries that wait for one.
Writing == IF loop = "inserting" THEN Elements(Batch) ELSE {}
Flying(e) == producer[e] = "inserting" \/ e \in Writing
Held == Elements(queue) \cup Elements(buf)

\* What was handed over waits in one place.
Handed == /\ Unique(queue) /\ Unique(buf) /\ Elements(queue) \cap Elements(buf) = {}
          /\ \A e \in Held : producer[e] = "sent"

\* Without the rows of repeated batches no entry has two rows, and of those rows no
\* two are of one entry; an open row is in flight and what is in flight has an open
\* row; an entry with a row waits only while its own statement runs, or because its
\* batch is repeated, row by row.
OneRow == \A i, j \in Ids : rows[i] = rows[j] /\ rows[i] # Gone /\ (i \in repeated <=> j \in repeated) => i = j
InOpen == \A id \in open : id \notin repeated /\ rows[id] \in Entries /\ Flying(rows[id])
Shown == \A e \in Entries : Flying(e) => \E id \in open : rows[id] = e
Rowed == \A id \in Ids : rows[id] # Gone =>
           /\ producer[rows[id]] \in {"inserting", "sent", "failed"}
           /\ id \notin repeated /\ rows[id] \in Held => rows[id] \in Writing
Repeats == \A id \in repeated :
             /\ id \in Ids /\ id \notin open /\ rows[id] # Gone /\ producer[rows[id]] = "sent"
             /\ rows[id] \in Held => rowwise /\ rows[id] \in Elements(buf)
Lost(e) == producer[e] = "sent" /\ e \notin Held /\ \A id \in Ids : rows[id] # e
Cost == database => IsFiniteSet(Vanished) /\ Cardinality(Vanished) <= failures

Rows == Handed /\ OneRow /\ InOpen /\ Shown /\ Rowed /\ Repeats

LEMMA SetOfQueue == ASSUME NEW q \in Seq(Entries) PROVE ToSet(q) = Elements(q)
  BY LenProperties DEF ToSet, Elements

LEMMA EmptyQueue == Unique(<<>>) /\ Elements(<<>>) = {} /\ <<>> \in Seq(Entries)
<1>1. Len(<<>>) = 0 /\ <<>> \in Seq(Entries)
  OBVIOUS
<1>2. 1..0 = {}
  OBVIOUS
<1> QED BY <1>1, <1>2 DEF Unique, Elements

LEMMA OneInQueue ==
  ASSUME NEW e \in Entries
  PROVE  <<e>> \in Seq(Entries) /\ Len(<<e>>) = 1 /\ Unique(<<e>>) /\ Elements(<<e>>) = {e}
<1>1. <<e>> \in Seq(Entries) /\ Len(<<e>>) = 1 /\ <<e>>[1] = e
  OBVIOUS
<1>2. 1..1 = {1}
  OBVIOUS
<1> QED BY <1>1, <1>2 DEF Unique, Elements

\* The head leaves, and nothing else.
LEMMA HeadLeaves ==
  ASSUME NEW q \in Seq(Entries), Unique(q), q # <<>>
  PROVE  /\ Head(q) \in Entries /\ Tail(q) \in Seq(Entries) /\ Unique(Tail(q))
         /\ Head(q) \notin Elements(Tail(q)) /\ Elements(q) = {Head(q)} \cup Elements(Tail(q))
<1> DEFINE h == Head(q)
           t == Tail(q)
           n == Len(q)
<1>1. /\ n \in Nat \ {0} /\ h \in Entries /\ h = q[1] /\ t \in Seq(Entries) /\ Len(t) = n - 1
      /\ \A i \in 1..(n - 1) : t[i] = q[i + 1]
  BY HeadTailProperties, LenProperties, EmptySeq
<1> HIDE DEF h, t, n
<1>2. \A i, j \in 1..n : q[i] = q[j] => i = j
  BY DEF Unique, n
<1>3. Unique(t)
  <2> SUFFICES ASSUME NEW i \in 1..(n - 1), NEW j \in 1..(n - 1), t[i] = t[j] PROVE i = j
    BY <1>1 DEF Unique
  <2>1. i + 1 \in 1..n /\ j + 1 \in 1..n /\ q[i + 1] = q[j + 1]
    BY <1>1
  <2>2. i + 1 = j + 1
    BY <1>2, <2>1
  <2> QED BY <2>2
<1>4. Elements(q) = {q[i] : i \in 1..n} /\ Elements(t) = {t[i] : i \in 1..(n - 1)}
  BY <1>1 DEF Elements, n
<1>5. h \notin Elements(t)
  <2> SUFFICES ASSUME NEW i \in 1..(n - 1), t[i] = h PROVE FALSE
    BY <1>4
  <2>1. 1 \in 1..n /\ i + 1 \in 1..n /\ q[i + 1] = q[1]
    BY <1>1
  <2>2. i + 1 = 1
    BY <1>2, <2>1
  <2> QED BY <2>2
<1>6. ASSUME NEW i \in 1..n PROVE q[i] \in {h} \cup Elements(t)
  <2>1. CASE i = 1
    BY <1>1, <2>1
  <2>2. CASE i # 1
    <3>1. i - 1 \in 1..(n - 1) /\ (i - 1) + 1 = i
      BY <1>1, <2>2
    <3>2. t[i - 1] = q[i]
      BY <1>1, <3>1
    <3> QED BY <1>4, <3>1, <3>2
  <2> QED BY <2>1, <2>2
<1>7. h \in Elements(q) /\ \A i \in 1..(n - 1) : t[i] \in Elements(q)
  <2>1. 1 \in 1..n /\ \A i \in 1..(n - 1) : i + 1 \in 1..n
    BY <1>1
  <2> QED BY <1>1, <1>4, <2>1
<1>8. Elements(q) = {h} \cup Elements(t)
  BY <1>4, <1>6, <1>7
<1> QED BY <1>1, <1>3, <1>5, <1>8 DEF h, t

\* The batch is part of the buffer, and what remains is the rest.
LEMMA BatchParts ==
  ASSUME buf \in Seq(Entries), Unique(buf), buf # <<>>
  PROVE  /\ Batch \in Seq(Entries) /\ Unique(Batch) /\ Elements(Batch) \subseteq Elements(buf)
         /\ Elements(Batch) \subseteq Entries
         /\ Remaining \in Seq(Entries) /\ Unique(Remaining) /\ Elements(Remaining) = Elements(buf) \ Elements(Batch)
         /\ Len(Batch) = 1 => \E b \in Entries : Elements(Batch) = {b}
         /\ rowwise => Len(Batch) = 1
<1>1. CASE rowwise
  <2>1. Batch = <<Head(buf)>> /\ Remaining = Tail(buf)
    BY <1>1 DEF Batch, Remaining
  <2> DEFINE h == Head(buf)
  <2>2. /\ h \in Entries /\ Tail(buf) \in Seq(Entries) /\ Unique(Tail(buf))
        /\ h \notin Elements(Tail(buf)) /\ Elements(buf) = {h} \cup Elements(Tail(buf))
    BY HeadLeaves
  <2> HIDE DEF h
  <2>3. <<h>> \in Seq(Entries) /\ Len(<<h>>) = 1 /\ Unique(<<h>>) /\ Elements(<<h>>) = {h}
    BY <2>2, OneInQueue
  <2>4. Batch = <<h>>
    BY <2>1 DEF h
  <2>5. Batch \in Seq(Entries) /\ Len(Batch) = 1 /\ Unique(Batch) /\ Elements(Batch) = {h}
    BY <2>3, <2>4
  <2>6. Elements(buf) \ {h} = Elements(Tail(buf))
    BY <2>2
  <2> QED BY <2>1, <2>2, <2>5, <2>6
<1>2. CASE ~rowwise
  <2>1. Batch = buf /\ Remaining = <<>>
    BY <1>2 DEF Batch, Remaining
  <2>2. Elements(buf) \subseteq Entries
    BY QueueSize
  <2>3. Len(buf) = 1 => Elements(buf) = {buf[1]} /\ buf[1] \in Entries
    <3>1. 1..1 = {1}
      OBVIOUS
    <3> QED BY <3>1, ElementOfSeq DEF Elements
  <2> QED BY <1>2, <2>1, <2>2, <2>3, EmptyQueue
<1> QED BY <1>1, <1>2

\* A statement that starts adds the rows of its entries, open and in order.
LEMMA StartRows ==
  ASSUME TableOK, NEW s \in Seq(Entries), StartInsert(s)
  PROVE  /\ Ids \subseteq Ids' /\ \A id \in Ids : rows'[id] = rows[id]
         /\ open' = open \cup (Ids' \ Ids)
         /\ \A id \in Ids' \ Ids : rows'[id] \in Elements(s)
         /\ Unique(s) => \A i, j \in Ids' \ Ids : rows'[i] = rows'[j] => i = j
         /\ \A e \in Elements(s) : \E id \in Ids' \ Ids : rows'[id] = e
<1> DEFINE n == Len(rows)
           m == Len(s)
<1>1. s \in Seq(Entries \cup {Gone}) /\ rows \in Seq(Entries \cup {Gone}) /\ rows' = rows \o s
  BY DEF TableOK, StartInsert
<1>2. /\ n \in Nat /\ m \in Nat /\ Ids = 1..n /\ Len(rows') = n + m /\ rows' \in Seq(Entries \cup {Gone})
      /\ \A i \in 1..n : rows'[i] = rows[i]
      /\ \A i \in (n + 1)..(n + m) : rows'[i] = s[i - n]
  BY <1>1, ConcatProperties, LenProperties DEF Ids
<1>3. Ids' = 1..(n + m) /\ open' = open \cup (n + 1)..(n + m)
  BY <1>2, LenProperties DEF Ids, StartInsert
<1> HIDE DEF n, m
<1>4. Ids \subseteq Ids' /\ Ids' \ Ids = (n + 1)..(n + m)
  BY <1>2, <1>3
<1>5. \A i \in (n + 1)..(n + m) : i - n \in 1..m
  BY <1>2
<1>6. \A k \in 1..m : n + k \in (n + 1)..(n + m) /\ (n + k) - n = k
  BY <1>2
<1>7. Elements(s) = {s[i] : i \in 1..m}
  BY DEF Elements, m
<1>8. \A id \in (n + 1)..(n + m) : rows'[id] \in Elements(s)
  BY <1>2, <1>5, <1>7
<1>9. ASSUME Unique(s), NEW i \in (n + 1)..(n + m), NEW j \in (n + 1)..(n + m), rows'[i] = rows'[j] PROVE i = j
  <2>1. s[i - n] = s[j - n]
    BY <1>2, <1>9
  <2>2. i - n = j - n
    BY <1>5, <1>9, <2>1 DEF Unique, m
  <2> QED BY <1>2, <2>2
<1>10. ASSUME NEW e \in Elements(s) PROVE \E id \in (n + 1)..(n + m) : rows'[id] = e
  <2>1. PICK k \in 1..m : s[k] = e
    BY <1>7
  <2>2. rows'[n + k] = s[k]
    BY <1>2, <1>6
  <2> QED BY <1>6, <2>1, <2>2
<1> QED BY <1>2, <1>3, <1>4, <1>8, <1>9, <1>10

\* A statement that ends closes its rows; when it failed they are gone.
LEMMA EndRows ==
  ASSUME TableOK, NEW S, NEW outcome \in Outcomes, EndInsert(IdsOf(S), outcome)
  PROVE  /\ Ids' = Ids /\ open' = {id \in open : rows[id] \notin S}
         /\ outcome = "ok" => failures' = failures
         /\ outcome # "ok" => failures' = failures + 1
         /\ outcome # "failed" => rows' = rows
         /\ outcome = "failed" => \A id \in Ids : rows'[id] = IF id \in open /\ rows[id] \in S THEN Gone ELSE rows[id]
<1>1. rows \in Seq(Entries \cup {Gone}) /\ Ids = DOMAIN rows
  BY DEF TableOK, Ids
<1>2. Ids' = Ids
  BY <1>1 DEF EndInsert, Ids
<1>3. open' = {id \in open : rows[id] \notin S}
  BY DEF EndInsert, IdsOf
<1>4. outcome = "failed" => \A id \in Ids : rows'[id] = IF id \in open /\ rows[id] \in S THEN Gone ELSE rows[id]
  BY DEF EndInsert, IdsOf
<1> QED BY <1>2, <1>3, <1>4 DEF EndInsert

LEMMA LostSet == WriterInv => Vanished = {e \in Entries : Lost(e)}
<1> SUFFICES ASSUME WriterInv PROVE Vanished = {e \in Entries : Lost(e)}
  OBVIOUS
<1>1. queue \in Seq(Entries) /\ buf \in Seq(Entries)
  BY DEF WriterInv, LogTypeOK
<1>2. \A e \in Entries : Queued(e) <=> e \in Held
  BY <1>1, SetOfQueue DEF Queued, Held
<1>3. \A e \in Entries : Copies(e) = {} <=> \A id \in Ids : rows[id] # e
  BY DEF Copies
<1> QED BY <1>2, <1>3 DEF Vanished, Lost

\* As long as the database is open a step loses nothing, or one entry to a statement
\* that failed.
LosesNothing == failures <= failures' /\ \A e \in Entries : Lost(e)' => Lost(e)
LosesOne == failures' = failures + 1 /\ \E b \in Entries : \A e \in Entries : Lost(e)' => Lost(e) \/ e = b

LEMMA CostStep ==
  ASSUME WriterInv, WriterInv', Cost, database' => database /\ (LosesNothing \/ LosesOne)
  PROVE  Cost'
<1> SUFFICES ASSUME database' PROVE IsFiniteSet(Vanished') /\ Cardinality(Vanished') <= failures'
  BY DEF Cost
<1> DEFINE V == Vanished
           W == Vanished'
<1>1. IsFiniteSet(V) /\ Cardinality(V) <= failures /\ Cardinality(V) \in Nat
  BY FS_CardinalityType DEF Cost
<1>2. failures \in Nat /\ failures' \in Nat
  BY DEF WriterInv, LogTypeOK
<1>3. V = {e \in Entries : Lost(e)} /\ W = {e \in Entries : Lost(e)'}
  BY LostSet DEF Vanished, Lost, Queued, Copies, Held, ToSet, Elements, Ids, WriterInv, LogTypeOK
<1> HIDE DEF V, W
<1>4. CASE LosesNothing
  <2>1. W \in SUBSET V /\ failures <= failures'
    BY <1>3, <1>4 DEF LosesNothing
  <2>2. IsFiniteSet(W) /\ Cardinality(W) <= Cardinality(V) /\ Cardinality(W) \in Nat
    BY <1>1, <2>1, FS_Subset, FS_CardinalityType
  <2>3. Cardinality(W) <= failures'
    BY <1>1, <1>2, <2>1, <2>2
  <2> QED BY <2>2, <2>3 DEF W
<1>5. CASE LosesOne
  <2>1. PICK b \in Entries : \A e \in Entries : Lost(e)' => Lost(e) \/ e = b
    BY <1>5 DEF LosesOne
  <2>2. W \in SUBSET (V \cup {b})
    BY <1>3, <2>1
  <2>3. IsFiniteSet(V \cup {b}) /\ Cardinality(V \cup {b}) <= Cardinality(V) + 1 /\ Cardinality(V \cup {b}) \in Nat
    <3>1. IsFiniteSet(V \cup {b}) /\ Cardinality(V \cup {b}) = IF b \in V THEN Cardinality(V) ELSE Cardinality(V) + 1
      BY <1>1, FS_AddElement
    <3>2. CASE b \in V
      BY <1>1, <3>1, <3>2
    <3>3. CASE b \notin V
      BY <1>1, <3>1, <3>3
    <3> QED BY <3>2, <3>3
  <2>4. IsFiniteSet(W) /\ Cardinality(W) <= Cardinality(V \cup {b}) /\ Cardinality(W) \in Nat
    BY <2>2, <2>3, FS_Subset, FS_CardinalityType
  <2>5. Cardinality(W) <= failures'
    BY <1>1, <1>2, <1>5, <2>3, <2>4 DEF LosesOne
  <2> QED BY <2>4, <2>5 DEF W
<1> QED BY <1>4, <1>5

\* Nothing of the table, the queue or the statements in flight changes.
LEMMA SameRows ==
  ASSUME WriterInv, WriterInv', Rows, UNCHANGED <<rows, open, repeated, producer, rowwise>>,
         Writing' = Writing, Held' = Held, Elements(buf) \subseteq Elements(buf'), Unique(queue)', Unique(buf)', (Elements(queue) \cap Elements(buf) = {})',
         failures <= failures'
  PROVE  Rows' /\ LosesNothing
<1>1. Ids' = Ids /\ rows' = rows /\ open' = open /\ producer' = producer
  BY DEF Ids
<1>2. \A e : Flying(e)' <=> Flying(e)
  BY <1>1 DEF Flying
<1>3. Handed'
  BY <1>1 DEF Rows, Handed
<1>4. OneRow' /\ InOpen' /\ Shown' /\ Rowed' /\ Repeats'
  BY <1>1, <1>2 DEF Rows, OneRow, InOpen, Shown, Rowed, Repeats
<1>5. LosesNothing
  BY <1>1 DEF LosesNothing, Lost
<1> QED BY <1>3, <1>4, <1>5 DEF Rows

LEMMA WritingHeld ==
  ASSUME WriterInv, Rows
  PROVE  /\ Writing \subseteq Elements(buf) /\ Writing \subseteq Held /\ Writing \subseteq Entries
         /\ open \subseteq Ids /\ repeated \subseteq Ids /\ Held \subseteq Entries
<1>1. /\ buf \in Seq(Entries) /\ queue \in Seq(Entries) /\ (loop = "inserting" => buf # <<>>)
      /\ open \subseteq Ids /\ repeated \subseteq Ids
  BY DEF WriterInv, LogTypeOK
<1>2. Unique(buf) /\ Unique(queue)
  BY DEF Rows, Handed
<1>3. Held \subseteq Entries
  BY <1>1, <1>2, QueueSize DEF Held
<1> QED BY <1>1, <1>2, <1>3, BatchParts DEF Writing, Held

\* An entry that is neither handed over nor being inserted has no row and waits nowhere.
LEMMA Elsewhere ==
  ASSUME WriterInv, Rows, NEW e \in Entries, producer[e] \in {"new", "holds", "direct"}
  PROVE  e \notin Held /\ e \notin Writing /\ \A id \in Ids : rows[id] # e
<1>1. e \notin Held
  BY DEF Rows, Handed
<1>2. \A id \in Ids : rows[id] # e
  <2> SUFFICES ASSUME NEW id \in Ids, rows[id] = e PROVE FALSE
    OBVIOUS
  <2>1. rows[id] # Gone
    OBVIOUS
  <2> QED BY <2>1 DEF Rows, Rowed
<1> QED BY <1>1, <1>2, WritingHeld

\* An entry in flight has an open row, and no other but that of a repeated batch.
LEMMA OpenRow ==
  ASSUME WriterInv, Rows, NEW e \in Entries, Flying(e)
  PROVE  (\E id \in Ids : rows[id] = e) /\ \A id \in Ids : rows[id] = e /\ id \notin repeated => id \in open
<1>1. PICK i \in open : rows[i] = e
  BY DEF Rows, Shown
<1>2. i \in Ids /\ e # Gone /\ i \notin repeated
  BY WritingHeld DEF Rows, InOpen
<1>3. \A id \in Ids : rows[id] = e /\ id \notin repeated => id = i
  BY <1>1, <1>2 DEF Rows, OneRow
<1> QED BY <1>1, <1>2, <1>3

\* A producer decides, hands its entry over, or drops it.
LEMMA ProducerMoves ==
  ASSUME WriterInv, Rows, NEW e \in Entries, producer[e] \in {"new", "holds", "direct"},
         UNCHANGED <<rows, open, repeated, failures, buf, rowwise>>,
         NEW l, l # "inserting", producer' = [producer EXCEPT ![e] = l], Writing' = Writing,
         queue' = queue \/ (queue' = Append(queue, e) /\ l = "sent")
  PROVE  Rows' /\ (l # "sent" \/ queue' = Append(queue, e) => LosesNothing)
<1>1. e \notin Held /\ e \notin Writing /\ \A id \in Ids : rows[id] # e
  BY Elsewhere
<1>2. Ids' = Ids /\ rows' = rows /\ open' = open /\ open \subseteq Ids /\ failures' = failures /\ failures \in Nat
  BY WritingHeld DEF Ids, WriterInv, LogTypeOK
<1>3. producer'[e] = l /\ \A f \in Entries \ {e} : producer'[f] = producer[f]
  BY DEF WriterInv, LogTypeOK
<1>4. /\ Unique(queue)' /\ Unique(buf)' /\ (Elements(queue) \cap Elements(buf) = {})'
      /\ queue' = queue => Held' = Held
      /\ queue' = Append(queue, e) => Held' = Held \cup {e}
  <2>1. Unique(queue) /\ Unique(buf) /\ Elements(queue) \cap Elements(buf) = {} /\ e \notin Elements(queue) /\ e \notin Elements(buf)
    BY <1>1 DEF Rows, Handed, Held
  <2>2. Unique(Append(queue, e)) /\ Elements(Append(queue, e)) = Elements(queue) \cup {e}
    BY <2>1, AppendNew DEF WriterInv, LogTypeOK
  <2>3. queue' = queue \/ queue' = Append(queue, e)
    OBVIOUS
  <2> QED BY <2>1, <2>2, <2>3 DEF Held
<1>5. Handed'
  <2>1. \A f \in Held' : producer'[f] = "sent"
    BY <1>1, <1>3, <1>4, WritingHeld DEF Rows, Handed
  <2> QED BY <1>4, <2>1 DEF Handed
<1>6. \A f \in Entries \ {e} : Flying(f)' <=> Flying(f)
  BY <1>3 DEF Flying
<1>7. ~Flying(e)'
  BY <1>1, <1>3 DEF Flying
<1>8. OneRow' /\ InOpen' /\ Shown'
  BY <1>1, <1>2, <1>6, <1>7 DEF Rows, OneRow, InOpen, Shown
<1>9. Rowed'
  <2> SUFFICES ASSUME NEW id \in Ids, rows[id] # Gone
               PROVE  /\ producer'[rows[id]] \in {"inserting", "sent", "failed"}
                      /\ id \notin repeated /\ rows[id] \in Held' => rows[id] \in Writing
    BY <1>2 DEF Rowed
  <2>1. rows[id] \in Entries \ {e}
    BY <1>1 DEF WriterInv, LogTypeOK, Ids
  <2> QED BY <1>3, <1>4, <2>1 DEF Rows, Rowed
<1>10. Repeats'
  <2> SUFFICES ASSUME NEW id \in repeated
               PROVE  /\ id \in Ids /\ id \notin open /\ rows[id] # Gone /\ producer'[rows[id]] = "sent"
                      /\ rows[id] \in Held' => rowwise /\ rows[id] \in Elements(buf)
    BY <1>2 DEF Repeats
  <2>1. /\ id \in Ids /\ id \notin open /\ rows[id] # Gone /\ producer[rows[id]] = "sent"
        /\ rows[id] \in Held => rowwise /\ rows[id] \in Elements(buf)
    BY DEF Rows, Repeats
  <2>2. rows[id] \in Entries \ {e}
    BY <1>1, <2>1 DEF WriterInv, LogTypeOK, Ids
  <2> QED BY <1>3, <1>4, <2>1, <2>2
<1>11. ASSUME l # "sent" \/ queue' = Append(queue, e) PROVE LosesNothing
  <2>1. Held \subseteq Held' /\ (l = "sent" => e \in Held')
    BY <1>4, <1>11
  <2> QED BY <1>2, <1>3, <2>1 DEF LosesNothing, Lost
<1> QED BY <1>5, <1>8, <1>9, <1>10, <1>11 DEF Rows

LEMMA DirectStarts ==
  ASSUME WriterInv, Rows, NEW e \in Entries, DirectInsert(e)
  PROVE  Rows' /\ LosesNothing
<1>1. e \notin Held /\ e \notin Writing /\ \A id \in Ids : rows[id] # e
  BY Elsewhere DEF DirectInsert
<1>2. /\ Ids \subseteq Ids' /\ \A id \in Ids : rows'[id] = rows[id]
      /\ open' = open \cup (Ids' \ Ids)
      /\ \A id \in Ids' \ Ids : rows'[id] = e
      /\ \A i, j \in Ids' \ Ids : rows'[i] = rows'[j] => i = j
      /\ \E id \in Ids' \ Ids : rows'[id] = e
  <2>1. TableOK /\ StartInsert(<<e>>)
    BY DEF DirectInsert, TableOK, WriterInv, LogTypeOK
  <2>2. /\ Ids \subseteq Ids' /\ \A id \in Ids : rows'[id] = rows[id]
        /\ open' = open \cup (Ids' \ Ids)
        /\ \A id \in Ids' \ Ids : rows'[id] \in Elements(<<e>>)
        /\ Unique(<<e>>) => \A i, j \in Ids' \ Ids : rows'[i] = rows'[j] => i = j
        /\ \A f \in Elements(<<e>>) : \E id \in Ids' \ Ids : rows'[id] = f
    <3>1. <<e>> \in Seq(Entries)
      BY OneInQueue
    <3> HIDE DEF TableOK, StartInsert, Ids
    <3> QED BY <2>1, <3>1, StartRows
  <2>3. Unique(<<e>>) /\ Elements(<<e>>) = {e}
    BY OneInQueue
  <2> QED BY <2>2, <2>3
<1>3. producer'[e] = "inserting" /\ \A f \in Entries \ {e} : producer'[f] = producer[f]
  BY DEF DirectInsert, WriterInv, LogTypeOK
<1>4. /\ queue' = queue /\ buf' = buf /\ Held' = Held /\ Writing' = Writing /\ failures' = failures /\ failures \in Nat
      /\ repeated' = repeated /\ rowwise' = rowwise /\ repeated \subseteq Ids
  BY DEF DirectInsert, Held, Writing, Batch, WriterInv, LogTypeOK
<1>5. Handed'
  BY <1>1, <1>3, <1>4, WritingHeld DEF Rows, Handed
<1>6. Flying(e)' /\ \A f \in Entries \ {e} : Flying(f)' <=> Flying(f)
  BY <1>3, <1>4 DEF Flying
<1>7. OneRow'
  BY <1>1, <1>2, <1>4 DEF Rows, OneRow
<1>8. InOpen' /\ Shown'
  BY <1>1, <1>2, <1>4, <1>6, WritingHeld DEF Rows, InOpen, Shown
<1>9. Rowed'
  <2>1. ASSUME NEW id \in Ids, rows[id] # Gone
        PROVE  /\ producer'[rows[id]] \in {"inserting", "sent", "failed"}
               /\ id \notin repeated /\ rows[id] \in Held => rows[id] \in Writing
    <3>1. rows[id] \in Entries \ {e}
      BY <1>1, <2>1 DEF WriterInv, LogTypeOK, Ids
    <3> QED BY <1>3, <2>1, <3>1 DEF Rows, Rowed
  <2> QED BY <1>1, <1>2, <1>3, <1>4, <2>1 DEF Rowed
<1>10. Repeats'
  <2> SUFFICES ASSUME NEW id \in repeated
               PROVE  /\ id \in Ids' /\ id \notin open' /\ rows'[id] # Gone /\ producer'[rows'[id]] = "sent"
                      /\ rows'[id] \in Held => rowwise /\ rows'[id] \in Elements(buf)
    BY <1>4 DEF Repeats
  <2>1. /\ id \in Ids /\ id \notin open /\ rows[id] # Gone /\ producer[rows[id]] = "sent"
        /\ rows[id] \in Held => rowwise /\ rows[id] \in Elements(buf)
    BY DEF Rows, Repeats
  <2>2. rows[id] \in Entries \ {e}
    BY <1>1, <2>1 DEF WriterInv, LogTypeOK, Ids
  <2> QED BY <1>2, <1>3, <2>1, <2>2
<1>11. LosesNothing
  BY <1>1, <1>2, <1>3, <1>4 DEF LosesNothing, Lost
<1> QED BY <1>5, <1>7, <1>8, <1>9, <1>10, <1>11 DEF Rows

LEMMA DirectEnds ==
  ASSUME WriterInv, Rows, NEW e \in Entries, NEW outcome \in Outcomes, DirectInsertEnds(e, outcome)
  PROVE  Rows' /\ LosesNothing
<1>1. Flying(e) /\ e \notin Held /\ e \notin Writing
  <2>1. producer[e] = "inserting"
    BY DEF DirectInsertEnds
  <2> QED BY <2>1, WritingHeld DEF Flying, Rows, Handed
<1>2. (\E id \in Ids : rows[id] = e) /\ \A id \in Ids : rows[id] = e => id \in open /\ id \notin repeated
  <2>1. \A id \in repeated : rows[id] # e
    BY DEF DirectInsertEnds, Rows, Repeats
  <2> QED BY <1>1, <2>1, OpenRow
<1>3. /\ Ids' = Ids /\ open' = {id \in open : rows[id] # e}
      /\ \A id \in Ids : rows[id] # e => rows'[id] = rows[id]
      /\ \A id \in Ids : rows[id] = e => rows'[id] = IF outcome = "failed" THEN Gone ELSE e
      /\ failures <= failures'
  <2>1. TableOK /\ EndInsert(IdsOf({e}), outcome) /\ failures \in Nat
    BY DEF DirectInsertEnds, TableOK, WriterInv, LogTypeOK
  <2>2. /\ Ids' = Ids /\ open' = {id \in open : rows[id] \notin {e}}
        /\ outcome = "ok" => failures' = failures
        /\ outcome # "ok" => failures' = failures + 1
        /\ outcome # "failed" => rows' = rows
        /\ outcome = "failed" => \A id \in Ids : rows'[id] = IF id \in open /\ rows[id] \in {e} THEN Gone ELSE rows[id]
    <3> HIDE DEF TableOK, EndInsert, IdsOf, Ids
    <3> QED BY <2>1, EndRows
  <2>3. \A id \in Ids : rows[id] # e => rows'[id] = rows[id]
    BY <2>2
  <2>4. \A id \in Ids : rows[id] = e => rows'[id] = IF outcome = "failed" THEN Gone ELSE e
    BY <1>2, <2>2
  <2>5. failures <= failures'
    BY <2>1, <2>2
  <2> QED BY <2>2, <2>3, <2>4, <2>5
<1>4. producer'[e] = (IF outcome = "ok" THEN "sent" ELSE "failed") /\ \A f \in Entries \ {e} : producer'[f] = producer[f]
  BY DEF DirectInsertEnds, WriterInv, LogTypeOK
<1>5. queue' = queue /\ buf' = buf /\ Held' = Held /\ Writing' = Writing /\ repeated' = repeated /\ rowwise' = rowwise
  BY DEF DirectInsertEnds, Held, Writing, Batch
<1>6. Handed'
  BY <1>1, <1>4, <1>5, WritingHeld DEF Rows, Handed
<1>7. ~Flying(e)' /\ \A f \in Entries \ {e} : Flying(f)' <=> Flying(f)
  BY <1>1, <1>4, <1>5 DEF Flying
<1>8. \A id \in Ids : rows'[id] # Gone => rows'[id] = rows[id]
  BY <1>3
<1>9. OneRow'
  BY <1>3, <1>5, <1>8 DEF Rows, OneRow
<1>10. InOpen' /\ Shown'
  BY <1>3, <1>5, <1>7, WritingHeld DEF Rows, InOpen, Shown
<1>11. Rowed'
  <2> SUFFICES ASSUME NEW id \in Ids, rows'[id] # Gone
               PROVE  /\ producer'[rows'[id]] \in {"inserting", "sent", "failed"}
                      /\ id \notin repeated /\ rows'[id] \in Held => rows'[id] \in Writing
    BY <1>3, <1>5 DEF Rowed
  <2>1. rows'[id] = rows[id] /\ rows[id] \in Entries
    BY <1>8 DEF WriterInv, LogTypeOK, Ids
  <2>2. CASE rows[id] = e
    BY <1>1, <1>3, <1>4, <2>1, <2>2
  <2>3. CASE rows[id] # e
    BY <1>4, <2>1, <2>3 DEF Rows, Rowed
  <2> QED BY <2>2, <2>3
<1>12. Repeats'
  <2> SUFFICES ASSUME NEW id \in repeated
               PROVE  /\ id \in Ids /\ id \notin open' /\ rows'[id] # Gone /\ producer'[rows'[id]] = "sent"
                      /\ rows'[id] \in Held => rowwise /\ rows'[id] \in Elements(buf)
    BY <1>3, <1>5 DEF Repeats
  <2>1. /\ id \in Ids /\ id \notin open /\ rows[id] # Gone /\ producer[rows[id]] = "sent"
        /\ rows[id] \in Held => rowwise /\ rows[id] \in Elements(buf)
    BY DEF Rows, Repeats
  <2>2. rows[id] \in Entries \ {e}
    BY <1>2, <2>1 DEF WriterInv, LogTypeOK, Ids
  <2> QED BY <1>3, <1>4, <2>1, <2>2
<1>13. LosesNothing
  <2>1. ~Lost(e)'
    BY <1>2, <1>3, <1>4 DEF Lost
  <2>2. ASSUME NEW f \in Entries \ {e}, Lost(f)' PROVE Lost(f)
    BY <1>3, <1>4, <1>5, <2>2 DEF Lost
  <2> QED BY <1>3, <2>1, <2>2 DEF LosesNothing
<1> QED BY <1>6, <1>9, <1>10, <1>11, <1>12, <1>13 DEF Rows

LEMMA BatchStarts ==
  ASSUME WriterInv, Rows, FlushBatch
  PROVE  Rows' /\ LosesNothing
<1>1. /\ Batch \in Seq(Entries) /\ Unique(Batch) /\ Elements(Batch) \subseteq Elements(buf) /\ Elements(Batch) \subseteq Entries
  <2>1. buf \in Seq(Entries) /\ buf # <<>> /\ Unique(buf)
    BY DEF FlushBatch, WriterInv, LogTypeOK, Rows, Handed
  <2> QED BY <2>1, BatchParts
<1> DEFINE W == Elements(Batch)
<1>2. /\ Ids \subseteq Ids' /\ \A id \in Ids : rows'[id] = rows[id]
      /\ open' = open \cup (Ids' \ Ids)
      /\ \A id \in Ids' \ Ids : rows'[id] \in W
      /\ \A i, j \in Ids' \ Ids : rows'[i] = rows'[j] => i = j
      /\ \A f \in W : \E id \in Ids' \ Ids : rows'[id] = f
  <2>1. TableOK /\ StartInsert(Batch)
    BY DEF FlushBatch, TableOK, WriterInv, LogTypeOK
  <2> HIDE DEF TableOK, StartInsert, Ids
  <2> QED BY <1>1, <2>1, StartRows
<1>3. Writing = {} /\ Writing' = W
  BY DEF FlushBatch, Writing, Batch
<1>4. /\ producer' = producer /\ queue' = queue /\ buf' = buf /\ Held' = Held
      /\ failures' = failures /\ failures \in Nat /\ W \subseteq Held
      /\ repeated' = repeated /\ rowwise' = rowwise /\ repeated \subseteq Ids
  BY <1>1 DEF FlushBatch, Held, WriterInv, LogTypeOK
<1> HIDE DEF W
<1>5. W \subseteq Entries
  BY <1>1 DEF W
<1>6. \A id \in Ids : rows[id] # Gone /\ id \notin repeated => rows[id] \notin Held
  BY <1>3 DEF Rows, Rowed
<1>7. \A id \in Ids : id \notin repeated => rows[id] \notin W
  BY <1>4, <1>5, <1>6
<1>8. Handed'
  BY <1>4 DEF Rows, Handed
<1>9. OneRow'
  <2> SUFFICES ASSUME NEW a \in Ids', NEW b \in Ids', rows'[a] = rows'[b], rows'[a] # Gone, a \in repeated <=> b \in repeated
               PROVE  a = b
    BY <1>4 DEF OneRow
  <2>1. CASE a \in Ids /\ b \in Ids
    BY <1>2, <2>1 DEF Rows, OneRow
  <2>2. CASE a \notin Ids /\ b \notin Ids
    BY <1>2, <2>2
  <2>3. CASE (a \in Ids /\ b \notin Ids) \/ (a \notin Ids /\ b \in Ids)
    BY <1>2, <1>4, <1>7, <2>3
  <2> QED BY <2>1, <2>2, <2>3
<1>10. InOpen'
  BY <1>2, <1>3, <1>4, <1>5, WritingHeld DEF Rows, InOpen, Flying
<1>11. Shown'
  <2> SUFFICES ASSUME NEW f \in Entries, Flying(f)' PROVE \E id \in open' : rows'[id] = f
    BY DEF Shown
  <2>1. CASE f \in W
    BY <1>2, <2>1
  <2>2. CASE f \notin W
    <3>1. Flying(f)
      BY <1>3, <1>4, <2>2 DEF Flying
    <3>2. PICK id \in open : rows[id] = f
      BY <3>1 DEF Rows, Shown
    <3> QED BY <1>2, <3>2, WritingHeld
  <2> QED BY <2>1, <2>2
<1>12. Rowed'
  <2> SUFFICES ASSUME NEW id \in Ids', rows'[id] # Gone
               PROVE  /\ producer[rows'[id]] \in {"inserting", "sent", "failed"}
                      /\ id \notin repeated /\ rows'[id] \in Held => rows'[id] \in W
    BY <1>3, <1>4 DEF Rowed
  <2>1. CASE id \in Ids
    BY <1>2, <1>6, <2>1 DEF Rows, Rowed
  <2>2. CASE id \notin Ids
    BY <1>2, <1>4, <2>2 DEF Rows, Handed
  <2> QED BY <2>1, <2>2
<1>13. Repeats'
  BY <1>2, <1>4 DEF Rows, Repeats
<1>14. LosesNothing
  BY <1>2, <1>4 DEF LosesNothing, Lost
<1> QED BY <1>8, <1>9, <1>10, <1>11, <1>12, <1>13, <1>14 DEF Rows

LEMMA BatchEnds ==
  ASSUME WriterInv, Rows, NEW outcome \in Outcomes, FlushEnds(outcome)
  PROVE  Rows' /\ (LosesNothing \/ LosesOne)
<1> DEFINE W == Elements(Batch)
<1> DEFINE retry == outcome # "ok" /\ Len(Batch) # 1
<1>1. /\ Batch \in Seq(Entries) /\ W \subseteq Elements(buf) /\ W \subseteq Entries
      /\ Unique(Remaining) /\ Elements(Remaining) = Elements(buf) \ W
      /\ Len(Batch) = 1 => \E b \in Entries : W = {b}
      /\ rowwise => Len(Batch) = 1
  <2>1. buf \in Seq(Entries) /\ buf # <<>> /\ Unique(buf)
    BY DEF FlushEnds, WriterInv, LogTypeOK, Rows, Handed
  <2> QED BY <2>1, BatchParts
<1>2. Writing = W /\ Writing' = {}
  BY DEF FlushEnds, Written, Writing
<1>3. /\ Ids' = Ids /\ open' = {id \in open : rows[id] \notin W}
      /\ outcome = "ok" => failures' = failures
      /\ outcome # "ok" => failures' = failures + 1
      /\ outcome # "failed" => rows' = rows
      /\ outcome = "failed" => \A id \in Ids : rows'[id] = IF id \in open /\ rows[id] \in W THEN Gone ELSE rows[id]
  <2>1. TableOK /\ EndInsert(IdsOf(ToSet(Batch)), outcome) /\ ToSet(Batch) = W
    BY <1>1, SetOfQueue DEF FlushEnds, TableOK, WriterInv, LogTypeOK
  <2> HIDE DEF TableOK, EndInsert, IdsOf, Ids, W
  <2>2. EndInsert(IdsOf(W), outcome)
    BY <2>1
  <2> QED BY <2>1, <2>2, EndRows
<1>4. producer' = producer /\ queue' = queue /\ failures \in Nat /\ repeated \subseteq Ids /\ open \subseteq Ids
  BY DEF FlushEnds, WriterInv, LogTypeOK
<1>5. \/ ~retry /\ buf' = Remaining /\ rowwise' = (Remaining # <<>>) /\ repeated' = repeated
      \/ /\ retry /\ buf' = buf /\ rowwise' = TRUE
         /\ repeated' = IF outcome = "failed" THEN repeated ELSE repeated \cup {id \in open : rows[id] \in W}
  <2>1. ToSet(Batch) = W
    BY <1>1, SetOfQueue
  <2> QED BY <2>1 DEF FlushEnds, Written, IdsOf
<1>6. retry => ~rowwise
  BY <1>1
<1>7. ~retry => outcome = "ok" \/ Len(Batch) = 1
  OBVIOUS
<1>8. retry => outcome # "ok"
  OBVIOUS
<1> HIDE DEF W, retry
<1>9. Handed /\ W \subseteq Held
  BY <1>1 DEF Rows, Held
<1>10. /\ ~retry => Held' = Held \ W
       /\ retry => Held' = Held
  <2>1. Elements(queue) \cap Elements(buf) = {}
    BY <1>9 DEF Handed
  <2> QED BY <1>1, <1>4, <1>5, <2>1 DEF Held
<1>11. Handed'
  <2>1. Held' \subseteq Held
    BY <1>10
  <2>2. Unique(queue') /\ Unique(buf') /\ Elements(queue') \cap Elements(buf') = {}
    BY <1>1, <1>4, <1>5, <1>9 DEF Handed
  <2> QED BY <1>4, <1>9, <2>1, <2>2 DEF Handed
<1>12. \A f \in W : (\E id \in Ids : rows[id] = f) /\ \A id \in Ids : rows[id] = f /\ id \notin repeated => id \in open
  BY <1>1, <1>2, OpenRow DEF Flying
<1>13. \A id \in Ids : /\ rows'[id] = rows[id] \/ rows'[id] = Gone
                       /\ rows[id] \notin W \/ id \notin open \/ outcome # "failed" => rows'[id] = rows[id]
                       /\ rows[id] \in W /\ id \in open /\ outcome = "failed" => rows'[id] = Gone
  BY <1>3
\* A row of a repeated batch keeps its entry, and a batch is repeated row by row.
<1>14. \A id \in repeated : /\ id \in Ids /\ id \notin open /\ rows[id] # Gone /\ producer[rows[id]] = "sent"
                            /\ rows'[id] = rows[id]
                            /\ rows[id] \in Held => rowwise /\ rows[id] \in Elements(buf)
  BY <1>13 DEF Rows, Repeats
<1>15. \A id \in repeated : retry => rows[id] \notin W
  BY <1>6, <1>9, <1>14
<1>16. \A id \in open : id \notin repeated /\ rows[id] \in Entries /\ Flying(rows[id])
  BY DEF Rows, InOpen
<1>17. \A f : Flying(f)' => Flying(f) /\ producer[f] = "inserting"
  BY <1>2, <1>4 DEF Flying
<1>18. \A f \in W : producer[f] = "sent" /\ f # Gone
  BY <1>1, <1>9 DEF Handed
<1>19. OneRow'
  <2> SUFFICES ASSUME NEW a \in Ids, NEW b \in Ids, rows'[a] = rows'[b], rows'[a] # Gone, a \in repeated' <=> b \in repeated'
               PROVE  a = b
    BY <1>3 DEF OneRow
  <2>1. rows[a] = rows[b] /\ rows[a] # Gone
    BY <1>13
  <2>2. CASE a \in repeated <=> b \in repeated
    BY <2>1, <2>2 DEF Rows, OneRow
  <2>3. CASE ~(a \in repeated <=> b \in repeated)
    <3>1. retry /\ repeated' = repeated \cup {id \in open : rows[id] \in W}
      BY <1>5, <2>3
    <3>2. rows[a] \in W
      BY <2>1, <2>3, <3>1
    <3> QED BY <1>15, <2>1, <2>3, <3>1, <3>2
  <2> QED BY <2>2, <2>3
<1>20. InOpen'
  <2> SUFFICES ASSUME NEW id \in open, rows[id] \notin W
               PROVE  id \notin repeated' /\ rows'[id] \in Entries /\ producer'[rows'[id]] = "inserting"
    BY <1>3 DEF InOpen, Flying
  <2>1. rows'[id] = rows[id] /\ rows[id] \in Entries /\ Flying(rows[id]) /\ id \notin repeated
    BY <1>4, <1>13, <1>16
  <2>2. producer[rows[id]] = "inserting"
    BY <1>2, <2>1 DEF Flying
  <2>3. id \notin repeated'
    BY <1>5, <2>1
  <2> QED BY <1>4, <2>1, <2>2, <2>3
<1>21. Shown'
  <2> SUFFICES ASSUME NEW f \in Entries, Flying(f)' PROVE \E id \in open' : rows'[id] = f
    BY DEF Shown
  <2>1. Flying(f) /\ f \notin W
    BY <1>17, <1>18
  <2>2. PICK id \in open : rows[id] = f
    BY <2>1 DEF Rows, Shown
  <2> QED BY <1>3, <1>4, <1>13, <2>1, <2>2
<1>22. Rowed'
  <2> SUFFICES ASSUME NEW id \in Ids, rows'[id] # Gone
               PROVE  /\ producer[rows'[id]] \in {"inserting", "sent", "failed"}
                      /\ id \notin repeated' => rows'[id] \notin Held'
    BY <1>3, <1>4 DEF Rowed
  <2>1. rows'[id] = rows[id]
    BY <1>13
  <2>2. /\ producer[rows[id]] \in {"inserting", "sent", "failed"}
        /\ id \notin repeated /\ rows[id] \in Held => rows[id] \in W
    BY <1>2, <2>1 DEF Rows, Rowed
  <2>3. ASSUME id \notin repeated', rows[id] \in Held' PROVE FALSE
    <3>1. id \notin repeated /\ rows[id] \in Held
      BY <1>5, <1>10, <2>3
    <3>2. rows[id] \in W /\ id \in open /\ retry
      BY <1>10, <1>12, <2>2, <2>3, <3>1
    <3>3. outcome # "failed"
      BY <1>13, <2>1, <3>2
    <3> QED BY <1>5, <2>3, <3>2, <3>3
  <2> QED BY <2>1, <2>2, <2>3
<1>23. Repeats'
  <2> SUFFICES ASSUME NEW id \in repeated'
               PROVE  /\ id \in Ids /\ id \notin open' /\ rows'[id] # Gone /\ producer[rows'[id]] = "sent"
                      /\ rows'[id] \in Held' => rowwise' /\ rows'[id] \in Elements(buf')
    BY <1>3, <1>4 DEF Repeats
  <2>1. CASE id \in repeated
    <3>1. /\ id \in Ids /\ id \notin open' /\ rows'[id] = rows[id] /\ rows[id] # Gone /\ producer[rows[id]] = "sent"
          /\ rows[id] \in Held => rowwise /\ rows[id] \in Elements(buf)
      BY <1>3, <1>14, <2>1
    <3>2. CASE retry
      BY <1>5, <1>10, <3>1, <3>2
    <3>3. CASE ~retry
      <4>1. rows[id] \in Held' => rows[id] \in Elements(Remaining)
        BY <1>1, <1>10, <3>1, <3>3
      <4>2. rows[id] \in Elements(Remaining) => Remaining # <<>>
        BY EmptyQueue
      <4> QED BY <1>5, <3>1, <3>3, <4>1, <4>2
    <3> QED BY <3>2, <3>3
  <2>2. CASE id \notin repeated
    <3>1. retry /\ outcome # "failed" /\ id \in open /\ rows[id] \in W
      BY <1>5, <2>2
    <3>2. id \in Ids /\ id \notin open' /\ rows'[id] = rows[id]
      BY <1>3, <1>4, <1>13, <3>1
    <3> QED BY <1>1, <1>5, <1>18, <3>1, <3>2
  <2> QED BY <2>1, <2>2
<1>24. ASSUME NEW f \in Entries, Lost(f)', f \notin W PROVE Lost(f)
  <2>1. f \notin Held
    BY <1>10, <1>24 DEF Lost
  <2>2. \A id \in Ids : rows[id] # f
    BY <1>3, <1>13, <1>24 DEF Lost
  <2> QED BY <1>4, <1>24, <2>1, <2>2 DEF Lost
<1>25. CASE retry \/ outcome # "failed"
  <2>1. ASSUME NEW f \in Entries, Lost(f)' PROVE f \notin W
    <3>1. CASE outcome # "failed"
      BY <1>3, <1>12, <2>1, <3>1 DEF Lost
    <3>2. CASE retry
      BY <1>9, <1>10, <2>1, <3>2 DEF Lost
    <3> QED BY <1>25, <3>1, <3>2
  <2>2. failures <= failures'
    BY <1>3, <1>4
  <2>3. LosesNothing
    BY <1>24, <2>1, <2>2 DEF LosesNothing
  <2> QED BY <1>11, <1>19, <1>20, <1>21, <1>22, <1>23, <2>3 DEF Rows
<1>26. CASE ~retry /\ outcome = "failed"
  <2>1. PICK b \in Entries : W = {b}
    BY <1>1, <1>7, <1>26
  <2>2. LosesOne
    BY <1>3, <1>24, <1>26, <2>1 DEF LosesOne
  <2> QED BY <1>11, <1>19, <1>20, <1>21, <1>22, <1>23, <2>2 DEF Rows
<1> QED BY <1>25, <1>26

\* Without a database the batch leaves the buffer all the same.
LEMMA BatchDrops ==
  ASSUME WriterInv, Rows, DropBatch
  PROVE  Rows'
<1> DEFINE W == Elements(Batch)
<1>1. /\ W \subseteq Elements(buf) /\ Unique(Remaining) /\ Elements(Remaining) = Elements(buf) \ W
  <2>1. buf \in Seq(Entries) /\ buf # <<>> /\ Unique(buf)
    BY DEF DropBatch, WriterInv, LogTypeOK, Rows, Handed
  <2> QED BY <2>1, BatchParts
<1>2. /\ Writing = {} /\ Writing' = {} /\ buf' = Remaining /\ rowwise' = (Remaining # <<>>)
      /\ UNCHANGED <<producer, queue, rows, open, repeated>> /\ Ids' = Ids
  BY DEF DropBatch, Written, Writing, table, Ids
<1> HIDE DEF W
<1>3. Handed /\ Held' = Held \ W
  BY <1>1, <1>2 DEF Rows, Handed, Held
<1>4. Handed'
  <2>1. Unique(queue') /\ Unique(buf') /\ Elements(queue') \cap Elements(buf') = {}
    BY <1>1, <1>2, <1>3 DEF Handed
  <2> QED BY <1>2, <1>3, <2>1 DEF Handed
<1>5. \A f : Flying(f)' <=> Flying(f)
  BY <1>2 DEF Flying
<1>6. OneRow' /\ InOpen' /\ Shown' /\ Rowed'
  BY <1>2, <1>3, <1>5 DEF Rows, OneRow, InOpen, Shown, Rowed
<1>7. Repeats'
  <2> SUFFICES ASSUME NEW id \in repeated, rows[id] \in Held' PROVE Remaining # <<>> /\ rows[id] \in Elements(Remaining)
    BY <1>2 DEF Rows, Repeats
  <2>1. rows[id] \in Elements(Remaining)
    BY <1>1, <1>3 DEF Rows, Repeats
  <2> QED BY <2>1, EmptyQueue
<1> QED BY <1>4, <1>6, <1>7 DEF Rows

LEMMA Receives ==
  ASSUME WriterInv, WriterInv', Rows, Receive
  PROVE  Rows' /\ LosesNothing
<1> DEFINE h == Head(queue)
<1>1. /\ queue \in Seq(Entries) /\ queue # <<>> /\ buf \in Seq(Entries) /\ queue' = Tail(queue) /\ buf' = Append(buf, h)
      /\ failures' = failures /\ failures \in Nat /\ UNCHANGED <<rows, open, repeated, producer, rowwise>>
  BY DEF Receive, table, WriterInv, LogTypeOK
<1>2. Unique(queue) /\ Unique(buf) /\ Elements(queue) \cap Elements(buf) = {}
  BY DEF Rows, Handed
<1>3. /\ h \in Entries /\ Unique(Tail(queue))
      /\ h \notin Elements(Tail(queue)) /\ Elements(queue) = {h} \cup Elements(Tail(queue))
  BY <1>1, <1>2, HeadLeaves
<1> HIDE DEF h
<1>4. Unique(Append(buf, h)) /\ Elements(Append(buf, h)) = Elements(buf) \cup {h}
  BY <1>1, <1>2, <1>3, AppendNew
<1>5. Writing' = {} /\ Writing = {}
  BY DEF Receive, Writing
<1>6. Held' = Held /\ Unique(queue)' /\ Unique(buf)' /\ (Elements(queue) \cap Elements(buf) = {})'
  BY <1>1, <1>2, <1>3, <1>4 DEF Held
<1>7. failures <= failures'
  BY <1>1
<1>8. Elements(buf) \subseteq Elements(buf')
  BY <1>1, <1>4
<1> QED BY <1>1, <1>5, <1>6, <1>7, <1>8, SameRows

LEMMA QuietRows ==
  ASSUME WriterInv, WriterInv', Rows, UNCHANGED <<rows, open, repeated, producer, queue, buf, rowwise>>,
         loop' = loop \/ "inserting" \notin {loop, loop'}, failures <= failures'
  PROVE  Rows' /\ LosesNothing
<1>1. Writing' = Writing /\ Held' = Held
  BY DEF Writing, Held, Batch
<1>2. Unique(queue)' /\ Unique(buf)' /\ (Elements(queue) \cap Elements(buf) = {})'
  BY DEF Rows, Handed
<1> QED BY <1>1, <1>2, SameRows

\* A reset finds no statement in flight.
LEMMA ResetRows ==
  ASSUME WriterInv, Rows, FactoryReset
  PROVE  Rows' /\ LosesNothing
<1>1. /\ open = {} /\ open' = {} /\ rows' = <<>> /\ repeated' = {} /\ UNCHANGED <<loop, queue, buf, rowwise, failures>>
      /\ producer' = [e \in Entries |-> IF Copies(e) # {} /\ ~Queued(e) THEN "erased" ELSE producer[e]] /\ failures \in Nat
  BY DEF FactoryReset, WriterInv, LogTypeOK
<1>2. Ids' = {}
  BY <1>1 DEF Ids
<1>3. Writing' = Writing /\ Held' = Held
  BY <1>1 DEF Writing, Held, Batch
<1>4. \A e \in Entries : ~Flying(e)
  BY <1>1 DEF Rows, Shown
<1>5. Writing = {}
  BY <1>4, WritingHeld DEF Flying
<1>6. \A e \in Entries : Queued(e) <=> e \in Held
  <2>1. queue \in Seq(Entries) /\ buf \in Seq(Entries)
    BY DEF WriterInv, LogTypeOK
  <2> QED BY <2>1, SetOfQueue DEF Queued, Held
<1>7. Handed'
  BY <1>1, <1>3, <1>6, WritingHeld DEF Rows, Handed
<1>8. \A e \in Entries : ~Flying(e)'
  BY <1>1, <1>3, <1>4, <1>5 DEF Flying
<1>9. OneRow' /\ InOpen' /\ Shown' /\ Rowed' /\ Repeats'
  BY <1>1, <1>2, <1>8 DEF OneRow, InOpen, Shown, Rowed, Repeats
<1>10. LosesNothing
  <2> SUFFICES ASSUME NEW e \in Entries, Lost(e)' PROVE Lost(e)
    BY <1>1 DEF LosesNothing
  <2>1. producer'[e] = "sent" /\ e \notin Held
    BY <1>3 DEF Lost
  <2>2. Copies(e) = {} /\ producer[e] = "sent"
    BY <1>1, <1>6, <2>1
  <2> QED BY <2>1, <2>2 DEF Lost, Copies
<1> QED BY <1>7, <1>9, <1>10 DEF Rows

LEMMA RowsStep ==
  ASSUME TypeInv, TypeInv', Rows, [Next]_vars
  PROVE  Rows' /\ (database' => database /\ (LosesNothing \/ LosesOne))
<1>0. WriterInv /\ WriterInv' /\ failures \in Nat
  <2>1. WriterInv /\ WriterInv'
    BY DEF TypeInv
  <2> QED BY <2>1 DEF WriterInv, LogTypeOK
<1>1. CASE Log
  <2>0. database' => database
    BY <1>1 DEF Log, LogNext, Drain, Produce, Shutdown, CloseDatabase, TakeWriter, Enqueue, DirectInsert, DirectInsertEnds,
                DirectDrop, Receive, Ticker, NoticeStop, Drained, FlushBatch, FlushEnds, DropBatch, table
  <2>1. ASSUME NEW e \in Entries, Produce(e) PROVE Rows' /\ (LosesNothing \/ ~database')
    <3>1. CASE TakeWriter(e)
      <4>1. Writing' = Writing
        BY <3>1 DEF TakeWriter, Writing, Batch
      <4> QED BY <1>0, <3>1, <4>1, ProducerMoves DEF TakeWriter, table
    <3>2. CASE Enqueue(e)
      <4>1. Writing' = Writing
        BY <3>2 DEF Enqueue, Writing, Batch
      <4> QED BY <1>0, <3>2, <4>1, ProducerMoves DEF Enqueue, table
    <3>3. CASE DirectInsert(e)
      BY <1>0, <3>3, DirectStarts
    <3>4. ASSUME NEW outcome \in Outcomes, DirectInsertEnds(e, outcome) PROVE Rows' /\ LosesNothing
      BY <1>0, <3>4, DirectEnds
    <3>5. CASE DirectDrop(e)
      <4>1. Writing' = Writing /\ ~database'
        BY <3>5 DEF DirectDrop, Writing, Batch, table
      <4> QED BY <1>0, <3>5, <4>1, ProducerMoves DEF DirectDrop, table
    <3> QED BY <2>1, <3>1, <3>2, <3>3, <3>4, <3>5 DEF Produce
  <2>2. CASE Ticker \/ NoticeStop \/ Drained \/ Shutdown \/ CloseDatabase
    <3>1. /\ UNCHANGED <<rows, open, repeated, producer, queue, buf, rowwise, failures>>
          /\ loop' = loop \/ "inserting" \notin {loop, loop'}
      BY <2>2 DEF Ticker, NoticeStop, Drained, Shutdown, CloseDatabase, table
    <3>2. failures <= failures'
      BY <1>0, <3>1
    <3> QED BY <1>0, <2>0, <3>1, <3>2, QuietRows
  <2>3. CASE Receive
    BY <1>0, <2>0, <2>3, Receives
  <2>4. CASE FlushBatch
    BY <1>0, <2>0, <2>4, BatchStarts
  <2>5. ASSUME NEW outcome \in Outcomes, FlushEnds(outcome) PROVE Rows' /\ (LosesNothing \/ LosesOne)
    BY <1>0, <2>5, BatchEnds
  <2>6. CASE DropBatch
    <3>1. ~database'
      BY <2>6 DEF DropBatch, table
    <3> QED BY <1>0, <2>6, <3>1, BatchDrops
  <2> QED BY <1>1, <2>0, <2>1, <2>2, <2>3, <2>4, <2>5, <2>6 DEF Log, LogNext, Drain
<1>2. ASSUME UNCHANGED logVars \/ Fail \/ ClearUsage PROVE Rows' /\ LosesNothing /\ database' = database
  <2>1. UNCHANGED <<rows, open, repeated, producer, queue, buf, rowwise, loop, database>> /\ (failures' = failures \/ failures' = failures + 1)
    BY <1>2 DEF logVars, Fail, ClearUsage
  <2>2. failures <= failures'
    BY <1>0, <2>1
  <2> QED BY <1>0, <2>1, <2>2, QuietRows
<1>3. CASE FactoryReset
  <2>1. database' = database
    BY <1>3 DEF FactoryReset
  <2> QED BY <1>0, <1>3, <2>1, ResetRows
<1>4. ASSUME NEW p \in Instances,
             Acquire(p) \/ PassStep(p) \/ ReadFails(p) \/ PassFails(p) \/ ReleaseFails(p) \/ Crash(p)
      PROVE  UNCHANGED logVars \/ Fail
  <2>1. CASE Acquire(p) \/ Crash(p)
    BY <2>1 DEF Acquire, Crash
  <2>2. CASE ReadFails(p) \/ PassFails(p) \/ ReleaseFails(p)
    BY <2>2 DEF ReadFails, PassFails, ReleaseFails
  <2>3. CASE PassStep(p)
    BY <2>3 DEF PassStep, ReadCheckpoint, FindAffected, ClearRequest, DeleteAggregates, Rewind,
                FetchBatch, ApplyBatch, NoRow, ReleaseLease
  <2> QED BY <1>4, <2>1, <2>2, <2>3
<1>5. ASSUME NEW id \in Rewinds, RequestRecompute(id) \/ RequestBlindly(id) PROVE UNCHANGED logVars \/ Fail
  BY <1>5 DEF RequestRecompute, RequestBlindly
<1>6. StoreRequest \/ StoreFails \/ LeaseExpires \/ UNCHANGED vars => UNCHANGED logVars \/ Fail
  BY DEF StoreRequest, StoreFails, LeaseExpires, vars
<1> QED BY <1>1, <1>2, <1>3, <1>4, <1>5, <1>6 DEF Next

LEMMA RowsInit == Init => Rows /\ Cost
<1> SUFFICES ASSUME Init PROVE Rows /\ Cost
  OBVIOUS
<1>1. /\ queue = <<>> /\ buf = <<>> /\ rows = <<>> /\ open = {} /\ loop = "select" /\ failures = 0 /\ repeated = {}
      /\ producer = [e \in Entries |-> "new"]
  BY DEF Init, LogInit
<1>2. Ids = {} /\ Writing = {} /\ Held = {}
  BY <1>1, EmptyQueue DEF Ids, Writing, Held
<1>3. Rows
  BY <1>1, <1>2, EmptyQueue DEF Rows, Handed, OneRow, InOpen, Shown, Rowed, Repeats, Flying
<1>4. Vanished = {}
  BY <1>1 DEF Vanished
<1> QED BY <1>1, <1>3, <1>4, FS_EmptySet DEF Cost

LEMMA AtMostOne ==
  ASSUME NEW S, \A i, j \in S : i = j
  PROVE  Cardinality(S) <= 1
<1>1. CASE S = {}
  <2>1. Cardinality({}) = 0
    BY FS_EmptySet
  <2> QED BY <1>1, <2>1
<1>2. CASE S # {}
  <2>1. PICK i : S = {i}
    <3>1. PICK i : i \in S
      BY <1>2
    <3>2. S = {i}
      BY <3>1
    <3> QED BY <3>2
  <2>2. Cardinality({i}) = 1
    BY FS_Singleton
  <2> QED BY <2>1, <2>2
<1> QED BY <1>1, <1>2

LEMMA RowsFacts == Rows /\ Cost => OneRowPerEntry
<1> SUFFICES ASSUME Rows, Cost PROVE OneRowPerEntry
  OBVIOUS
<1>1. ASSUME NEW e \in Entries
      PROVE  Cardinality(Copies(e) \ repeated) <= 1 /\ Cardinality(Copies(e) \cap repeated) <= 1
  <2>1. e # Gone
    OBVIOUS
  <2>2. \A i, j \in Copies(e) \ repeated : i = j
    BY <2>1 DEF Copies, Rows, OneRow
  <2>3. \A i, j \in Copies(e) \cap repeated : i = j
    BY <2>1 DEF Copies, Rows, OneRow
  <2> QED BY <2>2, <2>3, AtMostOne
<1> QED BY <1>1 DEF OneRowPerEntry, Cost

\* An attempt record has one row, or a second one when a statement of several rows
\* committed although its error came back and was repeated row by row; and as long
\* as the database is open a failed statement costs at most one record.  This for
\* every number of records, producers, batches, processes and failures, with
\* synchronous inserts beside the batches, retries row by row, shutdowns, deletions
\* and resets (EnqueueProxyLog and flushBatch, proxy_log_batch.go).
THEOREM RowsOnce == Spec => []OneRowPerEntry
<1>1. TypeInv /\ Rows /\ Cost /\ [Next]_vars => TypeInv' /\ Rows' /\ Cost'
  <2> SUFFICES ASSUME TypeInv, Rows, Cost, [Next]_vars PROVE TypeInv' /\ Rows' /\ Cost'
    OBVIOUS
  <2>1. TypeInv'
    BY TypeStep
  <2>2. Rows' /\ (database' => database /\ (LosesNothing \/ LosesOne))
    BY <2>1, RowsStep
  <2>3. WriterInv /\ WriterInv'
    BY <2>1 DEF TypeInv
  <2> QED BY <2>1, <2>2, <2>3, CostStep
<1> QED BY <1>1, TypeInit, RowsInit, RowsFacts, PTL DEF Spec
=============================================================================
