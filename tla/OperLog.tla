------------------------------- MODULE OperLog -------------------------------
(***************************************************************************)
(* OperLogWriter (persist/operlog.go): the engine hands every accepted     *)
(* operation to Write, one at a time because it holds e.mu there; a        *)
(* channel carries it to flushLoop, which collects a batch and inserts it  *)
(* in the day's table by one transaction.  A process that stops loses the  *)
(* channel and the batch.  The operations are numbered as they come.       *)
(***************************************************************************)
EXTENDS Integers, Sequences

CONSTANTS QueueSize,    \* MaxOperLogQueueSize (10000 in the code)
          BatchSize,    \* batchSize (100 in the code)
          MaxWrites,    \* bound of the model on the operations
          MaxDays       \* bound of the model on the days

ASSUME SizesAssumption == QueueSize \in Nat \ {0} /\ BatchSize \in Nat \ {0}
ASSUME BoundsAssumption == MaxWrites \in Nat /\ MaxDays \in Nat \ {0}

VARIABLES written,      \* the number of operations given to Write
          logs,         \* the channel
          batch,        \* what flushLoop has collected
          flushing,     \* flushLoop is in flush
          day,          \* today
          tables,       \* the rows of each day's table, in the order of insertion
          blocked,      \* the writer's flag
          faulty,       \* the database may fail and the process may stop
          keyed         \* the id column is a primary key, as the table is documented
vars == <<written, logs, batch, flushing, day, tables, blocked, faulty, keyed>>

Operations == 1 .. MaxWrites
Days == 1 .. MaxDays

\* Channel, batch and tables are well typed and within their bounds.
TypeOK == /\ written \in 0 .. MaxWrites
          /\ logs \in Seq(Operations) /\ Len(logs) <= QueueSize
          /\ batch \in Seq(Operations) /\ Len(batch) <= BatchSize
          /\ flushing \in BOOLEAN
          /\ flushing => batch # <<>>
          /\ Len(batch) = BatchSize => flushing
          /\ day \in Days
          /\ tables \in [Days -> Seq(Operations)]
          /\ blocked \in BOOLEAN /\ faulty \in BOOLEAN /\ keyed \in BOOLEAN

Init == /\ written = 0
        /\ logs = <<>>
        /\ batch = <<>>
        /\ flushing = FALSE
        /\ day = 1
        /\ tables = [d \in Days |-> <<>>]
        /\ blocked = FALSE
        /\ faulty \in BOOLEAN /\ keyed \in BOOLEAN

\* Mutant: the drop goes unnoticed.
WriteUnflagged ==
    /\ written < MaxWrites
    /\ written' = written + 1
    /\ logs' = IF Len(logs) >= QueueSize THEN logs ELSE Append(logs, written')
    /\ UNCHANGED <<batch, flushing, day, tables, blocked, faulty, keyed>>
\* Write: a full channel drops the operation and raises the flag.
Write ==
    /\ written < MaxWrites
    /\ written' = written + 1
    /\ blocked' = (Len(logs) >= QueueSize)
    /\ logs' = IF blocked' THEN logs ELSE Append(logs, written')
    /\ UNCHANGED <<batch, flushing, day, tables, faulty, keyed>>

\* Mutant: one operation more than the batch size.
CollectOneMore ==
    /\ ~flushing
    /\ logs # <<>>
    /\ logs' = Tail(logs)
    /\ batch' = Append(batch, Head(logs))
    /\ flushing' = (Len(batch') > BatchSize)
    /\ UNCHANGED <<written, day, tables, blocked, faulty, keyed>>
\* flushLoop takes one operation; a full batch is flushed.
Collect ==
    /\ ~flushing
    /\ logs # <<>>
    /\ logs' = Tail(logs)
    /\ batch' = Append(batch, Head(logs))
    /\ flushing' = (Len(batch') >= BatchSize)
    /\ UNCHANGED <<written, day, tables, blocked, faulty, keyed>>

\* Mutant: the ticker leaves a batch that is not full.
TickWhenFull ==
    /\ ~flushing
    /\ Len(batch) >= BatchSize
    /\ flushing' = TRUE
    /\ UNCHANGED <<written, logs, batch, day, tables, blocked, faulty, keyed>>
\* The ticker flushes what there is.
Tick ==
    /\ ~flushing
    /\ batch # <<>>
    /\ flushing' = TRUE
    /\ UNCHANGED <<written, logs, batch, day, tables, blocked, faulty, keyed>>

\* NewOperLog leaves ID zero, so a keyed table takes one row.
Insertable == keyed => tables[day] = <<>> /\ Len(batch) = 1

\* flush, either way: flushLoop goes on with an empty batch.
FlushCommits ==
    /\ flushing
    /\ Insertable
    /\ tables' = [tables EXCEPT ![day] = @ \o batch]
    /\ batch' = <<>> /\ flushing' = FALSE
    /\ UNCHANGED <<written, logs, day, blocked, faulty, keyed>>
\* Mutant: a batch that failed goes to the end of the channel again.
FlushRequeues ==
    /\ flushing
    /\ faulty \/ ~Insertable
    /\ logs' = logs \o batch
    /\ batch' = <<>> /\ flushing' = FALSE
    /\ UNCHANGED <<written, day, tables, blocked, faulty, keyed>>
FlushFails ==
    /\ flushing
    /\ faulty \/ ~Insertable
    /\ batch' = <<>> /\ flushing' = FALSE
    /\ UNCHANGED <<written, logs, day, tables, blocked, faulty, keyed>>

NextDay ==
    /\ day < MaxDays
    /\ day' = day + 1
    /\ UNCHANGED <<written, logs, batch, flushing, tables, blocked, faulty, keyed>>

\* The process stops, between any two steps, and starts again: a new writer.
Restart ==
    /\ faulty
    /\ logs' = <<>> /\ batch' = <<>>
    /\ flushing' = FALSE /\ blocked' = FALSE
    /\ UNCHANGED <<written, day, tables, faulty, keyed>>

FlushLoop == Collect \/ Tick \/ FlushCommits \/ FlushFails
Next == Write \/ FlushLoop \/ NextDay \/ Restart

\* flushLoop is a goroutine of its own and its ticker keeps ticking.
Fairness == WF_vars(Collect) /\ SF_vars(Tick) /\ WF_vars(FlushCommits \/ FlushFails)
Spec == Init /\ [][Next]_vars
FairSpec == Spec /\ Fairness

-----------------------------------------------------------------------------
Elements(s) == {s[i] : i \in DOMAIN s}
InFlight == Elements(logs) \union Elements(batch)
Stored == UNION {Elements(tables[d]) : d \in Days}

\* What is in the tables, day after day, is in the order in which the engine
\* accepted it, each operation at most once, and everything still on its way is
\* newer: after losses of every kind a replay sees a subsequence of the truth.
Ascending(s) == \A i, j \in DOMAIN s : i < j => s[i] < s[j]
AllBefore(s, t) == \A i \in DOMAIN s, j \in DOMAIN t : s[i] < t[j]
RowsInOrder ==
    /\ \A d \in Days : Ascending(tables[d])
    /\ \A d, e \in Days : d < e => AllBefore(tables[d], tables[e])
    /\ \A d \in Days : AllBefore(tables[d], batch) /\ AllBefore(tables[d], logs)
    /\ Ascending(batch) /\ Ascending(logs) /\ AllBefore(batch, logs)

\* Without faults and with a table that takes every row, only a full channel loses
\* an operation, and then the flag is up.
Kept == Stored \union InFlight
KeepsUnlessFull == \/ faulty \/ keyed
                   \/ Kept' = Kept \union (written + 1 .. written')
                   \/ Kept' = Kept /\ Len(logs) = QueueSize /\ blocked'
LostOnlyWhenFull == [][KeepsUnlessFull]_vars

\* Without faults and with such a table, an operation that got into the channel
\* gets into a table.
AcceptedGetsDurable ==
    \A o \in Operations : o \in InFlight /\ ~faulty /\ ~keyed ~> o \in Stored
=============================================================================
