--------------------------- MODULE Recovery_proofs ---------------------------
(***************************************************************************)
(* Proofs about the operation log and about the life of a process around   *)
(* it, for every size of the channel and of the batch, any number of       *)
(* operations and days, and whatever database a process finds.             *)
(***************************************************************************)
EXTENDS Recovery, SumTheorems, TLAPS

\* What keeps the rows in order: nothing on its way or stored is newer than the
\* last operation, and no table of a later day has a row.
UpTo(s, n) == \A i \in DOMAIN s : s[i] <= n
LogInv == /\ TypeOK
          /\ RowsInOrder
          /\ UpTo(batch, written) /\ UpTo(logs, written)
          /\ \A d \in Days : UpTo(tables[d], written)
          /\ \A d \in Days : d > day => tables[d] = <<>>

\* The parts of the type invariant, apart because the solvers differ in what they take.
LogTypes == /\ written \in 0 .. MaxWrites
            /\ logs \in Seq(Operations) /\ Len(logs) <= QueueSize
            /\ batch \in Seq(Operations) /\ Len(batch) <= BatchSize
            /\ day \in Days
            /\ tables \in [Days -> Seq(Operations)]
FlushOK == (flushing => batch # <<>>) /\ (Len(batch) = BatchSize => flushing)
LogFlags == {flushing, blocked, faulty, keyed} \subseteq BOOLEAN

\* Together they are the type invariant.
LEMMA TypeParts == /\ TypeOK <=> LogTypes /\ FlushOK /\ LogFlags
                   /\ TypeOK' <=> LogTypes' /\ FlushOK' /\ LogFlags'
  BY Zenon DEF TypeOK, LogTypes, FlushOK, LogFlags

\* What the sequence operators of the log do to the elements of a sequence.
LEMMA AppendFacts ==
    ASSUME NEW S, NEW s \in Seq(S), NEW x \in S
    PROVE  /\ Append(s, x) \in Seq(S) /\ Len(Append(s, x)) = Len(s) + 1
           /\ DOMAIN Append(s, x) = 1 .. Len(s) + 1
           /\ \A i \in DOMAIN s : Append(s, x)[i] = s[i]
           /\ Append(s, x)[Len(s) + 1] = x
           /\ DOMAIN s = 1 .. Len(s) /\ Len(s) \in Nat
           /\ Elements(Append(s, x)) = Elements(s) \union {x}
  BY DEF Elements

\* Taking the head off the channel.
LEMMA TailFacts ==
    ASSUME NEW S, NEW s \in Seq(S), s # <<>>
    PROVE  /\ Tail(s) \in Seq(S) /\ Len(Tail(s)) = Len(s) - 1 /\ Head(s) \in S
           /\ DOMAIN Tail(s) = 1 .. Len(s) - 1 /\ DOMAIN s = 1 .. Len(s)
           /\ \A i \in DOMAIN Tail(s) : Tail(s)[i] = s[i + 1]
           /\ Head(s) = s[1] /\ Len(s) \in Nat \ {0}
           /\ Elements(s) = Elements(Tail(s)) \union {Head(s)}
<1>1. /\ Tail(s) \in Seq(S) /\ Len(Tail(s)) = Len(s) - 1 /\ Head(s) \in S
           /\ DOMAIN Tail(s) = 1 .. Len(s) - 1 /\ DOMAIN s = 1 .. Len(s)
           /\ \A i \in DOMAIN Tail(s) : Tail(s)[i] = s[i + 1]
           /\ Head(s) = s[1] /\ Len(s) \in Nat \ {0}
  OBVIOUS
<1>2. \A i \in 1 .. Len(s) : i = 1 \/ (i - 1 \in DOMAIN Tail(s) /\ s[i] = Tail(s)[i - 1])
  BY <1>1
<1>3. ASSUME NEW x \in Elements(s) PROVE x \in Elements(Tail(s)) \union {Head(s)}
  <2>1. PICK i \in 1 .. Len(s) : x = s[i]
     BY <1>1 DEF Elements
  <2>2. CASE i = 1
    BY <1>1, <2>1, <2>2
  <2>3. CASE i - 1 \in DOMAIN Tail(s) /\ s[i] = Tail(s)[i - 1]
    BY <2>1, <2>3 DEF Elements
  <2>4. QED BY <1>2, <2>2, <2>3
<1>4. Elements(Tail(s)) \union {Head(s)} \subseteq Elements(s)
  BY <1>1 DEF Elements
<1>5. QED BY <1>1, <1>3, <1>4

\* Inserting a batch after the rows of a table.
LEMMA ConcatFacts ==
    ASSUME NEW S, NEW s \in Seq(S), NEW t \in Seq(S)
    PROVE  /\ s \o t \in Seq(S) 
           /\ DOMAIN (s \o t) = 1 .. Len(s) + Len(t)
           /\ DOMAIN s = 1 .. Len(s) /\ DOMAIN t = 1 .. Len(t)
           /\ Len(s) \in Nat /\ Len(t) \in Nat
           /\ \A i \in DOMAIN (s \o t) : (s \o t)[i] = IF i <= Len(s) THEN s[i] ELSE t[i - Len(s)]
           /\ Elements(s \o t) = Elements(s) \union Elements(t)
<1>1. /\ s \o t \in Seq(S) 
           /\ DOMAIN (s \o t) = 1 .. Len(s) + Len(t)
           /\ DOMAIN s = 1 .. Len(s) /\ DOMAIN t = 1 .. Len(t)
           /\ Len(s) \in Nat /\ Len(t) \in Nat
           /\ \A i \in DOMAIN (s \o t) : (s \o t)[i] = IF i <= Len(s) THEN s[i] ELSE t[i - Len(s)]
  OBVIOUS
<1>2. Elements(s \o t) \subseteq Elements(s) \union Elements(t)
  BY <1>1 DEF Elements
<1>3. Elements(s) \subseteq Elements(s \o t)
  BY <1>1 DEF Elements
<1>4. ASSUME NEW j \in DOMAIN t PROVE t[j] \in Elements(s \o t)
  <2>1. Len(s) + j \in DOMAIN (s \o t) /\ (s \o t)[Len(s) + j] = t[j]
    BY <1>1
  <2>2. QED BY <2>1 DEF Elements
<1>5. Elements(t) \subseteq Elements(s \o t)
  BY <1>4 DEF Elements
<1>6. QED BY <1>1, <1>2, <1>3, <1>5

\* A writer that was just made has nothing.
LEMMA LogInitHolds == Init => LogInv
<1> SUFFICES ASSUME Init PROVE LogInv
  OBVIOUS
<1>1. 1 \in Days /\ \A d \in Days : d \in Nat
  BY BoundsAssumption DEF Days
<1>2. TypeOK
  <2>1. LogTypes
    BY <1>1, SizesAssumption, BoundsAssumption DEF LogTypes, Init
  <2>2. FlushOK
    BY SizesAssumption DEF FlushOK, Init
  <2>3. LogFlags
    BY Zenon DEF LogFlags, Init
  <2>4. QED BY <2>1, <2>2, <2>3, TypeParts
<1>3. QED
  BY <1>1, <1>2 DEF LogInv, RowsInOrder, Ascending, AllBefore, UpTo, Init

\* Every step of the log, a restart included, keeps the invariant.
LEMMA LogNextKeeps == LogInv /\ [Next]_vars => LogInv'
<1> SUFFICES ASSUME LogInv, [Next]_vars PROVE LogInv'
  OBVIOUS
<1>0. /\ \A d \in Days : d \in Nat
      /\ QueueSize \in Nat \ {0} /\ BatchSize \in Nat \ {0}
      /\ Operations \subseteq Nat
      /\ written \in Nat /\ MaxWrites \in Nat
  BY SizesAssumption, BoundsAssumption DEF Days, Operations, LogInv, TypeOK
<1>a. LogTypes /\ FlushOK /\ LogFlags
  BY TypeParts DEF LogInv
<1>b. /\ \A i \in DOMAIN batch : batch[i] \in Nat
      /\ \A i \in DOMAIN logs : logs[i] \in Nat
      /\ \A d \in Days : \A i \in DOMAIN tables[d] : tables[d][i] \in Nat
  <2>1. ASSUME NEW s \in Seq(Operations), NEW i \in DOMAIN s PROVE s[i] \in Nat
    <3>1. s[i] \in Operations
      OBVIOUS
    <3>2. QED BY <3>1, <1>0
  <2>2. \A d \in Days : tables[d] \in Seq(Operations)
    BY <1>a DEF LogTypes
  <2>3. QED BY <2>1, <2>2, <1>a DEF LogTypes
<1> USE DEF LogInv
<1>1. CASE Write
  <2> DEFINE new == written + 1
  <2>1. new \in Operations /\ written' = new /\ new \in 0 .. MaxWrites
    BY <1>0, <1>1 DEF Write, Operations
  <2>2. UNCHANGED <<batch, flushing, day, tables, faulty, keyed>> /\ blocked' \in BOOLEAN
    BY <1>1 DEF Write
  <2>3. CASE logs' = logs
    <3>1. LogTypes' /\ FlushOK'
      BY <2>1, <2>2, <2>3, <1>a DEF LogTypes, FlushOK
    <3>2. LogFlags'
      BY <2>2, <1>a, Zenon DEF LogFlags
    <3>3. RowsInOrder'
      BY <2>2, <2>3, Zenon DEF RowsInOrder, Ascending, AllBefore
    <3>4. UpTo(batch, written') /\ UpTo(logs, written') /\ \A d \in Days : UpTo(tables[d], written')
      BY <2>1, <1>0, <1>b DEF UpTo
    <3>5. QED BY <2>2, <2>3, <3>1, <3>2, <3>3, <3>4, TypeParts
  <2>4. CASE logs' = Append(logs, new) /\ Len(logs) < QueueSize
    <3>1. /\ logs' \in Seq(Operations) /\ Len(logs') = Len(logs) + 1
          /\ DOMAIN logs' = 1 .. Len(logs) + 1 /\ DOMAIN logs = 1 .. Len(logs)
          /\ \A i \in DOMAIN logs : logs'[i] = logs[i]
          /\ logs'[Len(logs) + 1] = new
      BY <2>1, <2>4, <1>a, AppendFacts DEF LogTypes
    <3>2. TypeOK'
      <4>1. LogTypes'
        BY <2>1, <2>2, <2>4, <3>1, <1>0, <1>a DEF LogTypes
      <4>2. FlushOK'
        BY <2>2, <1>a DEF FlushOK
      <4>3. LogFlags'
        BY <2>2, <1>a, Zenon DEF LogFlags
      <4>4. QED BY <4>1, <4>2, <4>3, TypeParts
    <3>3. \A i \in DOMAIN logs' : logs'[i] = new \/ (i \in DOMAIN logs /\ logs'[i] = logs[i])
      BY <3>1 
    <3>4. /\ \A i \in DOMAIN batch : batch[i] \in Nat /\ batch[i] <= written
          /\ \A i \in DOMAIN logs : logs[i] \in Nat /\ logs[i] <= written
          /\ \A d \in Days : \A i \in DOMAIN tables[d] : tables[d][i] \in Nat /\ tables[d][i] <= written
      BY <1>0, <1>b DEF UpTo
    <3>5. UpTo(logs', new) /\ UpTo(batch, new) /\ \A d \in Days : UpTo(tables[d], new)
      BY <3>3, <3>4, <1>0 DEF UpTo
    <3>6. Ascending(logs')
      BY <3>1, <3>4, <1>0 DEF RowsInOrder, Ascending
    <3>7. AllBefore(batch, logs') /\ \A d \in Days : AllBefore(tables[d], logs')
      BY <3>3, <3>4, <1>0 DEF RowsInOrder, AllBefore
    <3>8. QED BY <2>1, <2>2, <3>2, <3>5, <3>6, <3>7 DEF RowsInOrder
  <2>5. logs' = logs \/ (logs' = Append(logs, new) /\ ~(Len(logs) >= QueueSize))
    BY <1>1, <2>1, Zenon DEF Write
  <2>6. Len(logs) \in Nat
    BY <1>a DEF LogTypes
  <2>7. QED BY <1>0, <2>3, <2>4, <2>5, <2>6
<1>2. CASE Collect
  <2>1. /\ logs' = Tail(logs) /\ batch' = Append(batch, Head(logs)) /\ logs # <<>>
        /\ UNCHANGED <<written, day, tables, blocked, faulty, keyed>>
        /\ flushing' = (Len(batch') >= BatchSize) /\ ~flushing
    BY <1>2 DEF Collect
  <2>2. /\ logs' \in Seq(Operations) /\ Len(logs') = Len(logs) - 1 /\ Head(logs) \in Operations
        /\ DOMAIN logs' = 1 .. Len(logs) - 1 /\ DOMAIN logs = 1 .. Len(logs)
        /\ \A i \in DOMAIN logs' : logs'[i] = logs[i + 1]
        /\ Head(logs) = logs[1] /\ Len(logs) \in Nat \ {0}
    BY <2>1, <1>a, TailFacts DEF LogTypes
  <2>3. /\ batch' \in Seq(Operations) /\ Len(batch') = Len(batch) + 1
        /\ DOMAIN batch' = 1 .. Len(batch) + 1 /\ DOMAIN batch = 1 .. Len(batch)
        /\ \A i \in DOMAIN batch : batch'[i] = batch[i]
        /\ batch'[Len(batch) + 1] = logs[1] /\ Len(batch) \in Nat
    BY <2>1, <2>2, <1>a, AppendFacts DEF LogTypes
  <2>4. TypeOK'
    <3>1. batch' # <<>>
      BY <2>3
    <3>2. Len(batch) <= BatchSize /\ Len(batch) # BatchSize
      BY <2>1, <1>a DEF LogTypes, FlushOK
    <3>3. Len(batch') <= BatchSize /\ (Len(batch') = BatchSize => flushing')
      <4>1. Len(batch') <= BatchSize /\ (Len(batch') = BatchSize => Len(batch') >= BatchSize)
        <5>1. BatchSize \in Nat /\ Len(batch) \in Nat
          BY <1>0, <2>3
        <5>2. Len(batch) + 1 <= BatchSize
          BY <5>1, <3>2
        <5>3. Len(batch') = Len(batch) + 1
          BY <2>3
        <5>4. QED BY <5>1, <5>2, <5>3
      <4>2. QED BY <4>1, <2>1, Zenon
    <3>4. LogTypes'
      BY <2>1, <2>2, <2>3, <3>3, <1>0, <1>a DEF LogTypes
    <3>5. FlushOK'
      BY <3>1, <3>3 DEF FlushOK
    <3>6. LogFlags'
      <4>1. flushing' \in BOOLEAN
        BY <2>1
      <4>2. QED BY <4>1, <2>1, <1>a, Zenon DEF LogFlags
    <3>7. QED BY <3>4, <3>5, <3>6, TypeParts
  <2>5. \A i \in DOMAIN logs' : i + 1 \in DOMAIN logs /\ 1 < i + 1
    BY <2>2
  <2>6. \A i \in DOMAIN batch' :
            \/ i = Len(batch) + 1 /\ batch'[i] = logs[1]
            \/ i \in DOMAIN batch /\ batch'[i] = batch[i]
    BY <2>3
  <2>7. 1 \in DOMAIN logs
    BY <2>2
  <2>8. Ascending(logs') /\ Ascending(batch') /\ AllBefore(batch', logs')
    <3>1. Ascending(logs')
      BY <2>2, <2>5 DEF RowsInOrder, Ascending
    <3>2. Ascending(batch')
      BY <2>3, <2>7 DEF RowsInOrder, Ascending, AllBefore
    <3>3. AllBefore(batch', logs')
      BY <2>2, <2>5, <2>6, <2>7 DEF RowsInOrder, Ascending, AllBefore
    <3>4. QED BY <3>1, <3>2, <3>3
  <2>9. \A d \in Days : AllBefore(tables[d], batch') /\ AllBefore(tables[d], logs')
    BY <2>2, <2>5, <2>6, <2>7 DEF RowsInOrder, AllBefore
  <2>10. UpTo(batch', written) /\ UpTo(logs', written)
    BY <2>2, <2>5, <2>6, <2>7 DEF UpTo
  <2>11. QED BY <2>1, <2>4, <2>8, <2>9, <2>10 DEF RowsInOrder
<1>3. CASE Tick
  <2>1. LogTypes' /\ FlushOK'
    BY <1>3, <1>a DEF Tick, LogTypes, FlushOK
  <2>2. LogFlags'
    BY <1>3, <1>a, Zenon DEF Tick, LogFlags
  <2>3. QED BY <1>3, <2>1, <2>2, TypeParts DEF Tick, RowsInOrder, Ascending, AllBefore, UpTo
<1>4. CASE FlushCommits
  <2> DEFINE table == tables[day] \o batch
  <2>1. /\ UNCHANGED <<written, logs, day, blocked, faulty, keyed>>
        /\ tables' = [tables EXCEPT ![day] = table] /\ batch' = <<>> /\ flushing' = FALSE
        /\ day \in Days
    BY <1>4, <1>a DEF FlushCommits, LogTypes
  <2>2. /\ table \in Seq(Operations)
        /\ DOMAIN table = 1 .. Len(tables[day]) + Len(batch)
        /\ DOMAIN tables[day] = 1 .. Len(tables[day]) /\ DOMAIN batch = 1 .. Len(batch)
        /\ Len(tables[day]) \in Nat /\ Len(batch) \in Nat
        /\ \A i \in DOMAIN table : table[i] = IF i <= Len(tables[day]) THEN tables[day][i]
                                             ELSE batch[i - Len(tables[day])]
    BY <2>1, <1>a, ConcatFacts DEF LogTypes
  <2> HIDE DEF table
  <2>3. \A i \in DOMAIN table :
           \/ i \in DOMAIN tables[day] /\ table[i] = tables[day][i]
           \/ i - Len(tables[day]) \in DOMAIN batch /\ table[i] = batch[i - Len(tables[day])]
              /\ i > Len(tables[day])
    BY <2>2
  <2>4. TypeOK'
    <3>1. LogTypes'
      BY <2>1, <2>2, <1>0, <1>a DEF LogTypes
    <3>2. FlushOK'
      BY <2>1, <1>0 DEF FlushOK
    <3>3. LogFlags'
      BY <2>1, <1>a, Zenon DEF LogFlags
    <3>4. QED BY <3>1, <3>2, <3>3, TypeParts
  <2>5. tables'[day] = table /\ \A d \in Days : d # day => tables'[d] = tables[d]
    BY <2>1, <1>a DEF LogTypes
  <2>6. Ascending(table)
    <3> SUFFICES ASSUME NEW i \in DOMAIN table, NEW j \in DOMAIN table, i < j
                 PROVE  table[i] < table[j]
      BY DEF Ascending
    <3>1. i \in Nat /\ j \in Nat
      BY <2>2
    <3>2. QED BY <3>1, <2>1, <2>2, <2>3 DEF RowsInOrder, Ascending, AllBefore
  <2>7. \A d \in Days : d < day => AllBefore(tables[d], table)
    BY <2>1, <2>3 DEF RowsInOrder, AllBefore
  <2>8. AllBefore(table, logs) /\ UpTo(table, written)
    BY <2>1, <2>3 DEF RowsInOrder, AllBefore, UpTo
  <2>9. \A d \in Days : d > day => tables[d] = <<>>
    OBVIOUS
  <2>10. RowsInOrder'
    <3>1. \A d \in Days : Ascending(tables'[d])
      BY <2>5, <2>6 DEF RowsInOrder
    <3>2. \A d, e \in Days : d < e => AllBefore(tables'[d], tables'[e])
      <4> SUFFICES ASSUME NEW d \in Days, NEW e \in Days, d < e
                   PROVE  AllBefore(tables'[d], tables'[e])
        OBVIOUS
      <4>1. CASE d # day /\ e # day
        BY <4>1, <2>5 DEF RowsInOrder
      <4>2. CASE d # day /\ e = day
        BY <4>2, <2>5, <2>7
      <4>3. CASE d = day
        <5>1. tables'[e] = <<>>
          BY <4>3, <2>5, <2>9, <1>0
        <5>2. QED BY <5>1 DEF AllBefore
      <4>4. QED BY <4>1, <4>2, <4>3
    <3>3. \A d \in Days : AllBefore(tables'[d], <<>>) /\ AllBefore(tables'[d], logs)
      BY <2>5, <2>8 DEF RowsInOrder, AllBefore
    <3>4. QED BY <2>1, <3>1, <3>2, <3>3 DEF RowsInOrder, Ascending, AllBefore
  <2>11. \A d \in Days : UpTo(tables'[d], written)
    BY <2>5, <2>8
  <2>12. \A d \in Days : d > day => tables'[d] = <<>>
    BY <2>5, <2>1, <1>0
  <2>13. QED BY <2>1, <2>4, <2>10, <2>11, <2>12 DEF UpTo
<1>5. CASE FlushFails
  <2>1. LogTypes' /\ FlushOK'
    BY <1>5, <1>0, <1>a DEF FlushFails, LogTypes, FlushOK
  <2>2. LogFlags'
    BY <1>5, <1>a, Zenon DEF FlushFails, LogFlags
  <2>3. QED BY <1>5, <2>1, <2>2, TypeParts
            DEF FlushFails, RowsInOrder, Ascending, AllBefore, UpTo
<1>6. CASE NextDay
  <2>1. LogTypes' /\ FlushOK'
    BY <1>6, <1>0, <1>a, BoundsAssumption DEF NextDay, LogTypes, FlushOK, Days
  <2>2. LogFlags'
    BY <1>6, <1>a, Zenon DEF NextDay, LogFlags
  <2>3. \A d \in Days : d > day' => tables[d] = <<>>
    BY <1>6, <1>0, <1>a DEF NextDay, LogTypes
  <2>4. QED BY <1>6, <2>1, <2>2, <2>3, TypeParts
            DEF NextDay, RowsInOrder, Ascending, AllBefore, UpTo
<1>7. CASE Restart
  <2>1. LogTypes' /\ FlushOK'
    BY <1>7, <1>0, <1>a DEF Restart, LogTypes, FlushOK
  <2>2. LogFlags'
    BY <1>7, <1>a, Zenon DEF Restart, LogFlags
  <2>3. QED BY <1>7, <2>1, <2>2, TypeParts
            DEF Restart, RowsInOrder, Ascending, AllBefore, UpTo
<1>8. CASE UNCHANGED vars
  BY <1>8 DEF vars, TypeOK, RowsInOrder, Ascending, AllBefore, UpTo
<1>9. QED BY <1>1, <1>2, <1>3, <1>4, <1>5, <1>6, <1>7, <1>8 DEF Next, FlushLoop

\* Whatever is in the tables is in the order of the operations, each at most once,
\* and older than what is on its way: for every size of the channel and the batch.
THEOREM LogKeepsOrder == Spec => [](TypeOK /\ RowsInOrder)
<1>1. LogInv => TypeOK /\ RowsInOrder
  BY DEF LogInv
<1>2. QED BY <1>1, LogInitHolds, LogNextKeeps, PTL DEF Spec

-----------------------------------------------------------------------------
(* What a step of the log loses *)

\* Writing is the only step that brings an operation in, or drops it.
LEMMA StepKeeps == LogInv /\ [Next]_vars => [KeepsUnlessFull]_vars
<1> SUFFICES ASSUME LogInv, [Next]_vars PROVE [KeepsUnlessFull]_vars
  OBVIOUS
<1> DEFINE NewOnes == written + 1 .. written'
<1>1. LogTypes /\ FlushOK /\ LogFlags /\ written \in Nat
  BY TypeParts, BoundsAssumption DEF LogInv, LogTypes
<1>2. CASE Write
  <2>1. UNCHANGED <<batch, tables>> /\ written' = written + 1
    BY <1>2 DEF Write
  <2>2. Stored' = Stored
    BY <2>1 DEF Stored
  <2>3. NewOnes = {written'}
    BY <2>1, <1>1
  <2>4. CASE blocked' = TRUE
    <3>1. logs' = logs /\ Len(logs) >= QueueSize
      BY <1>2, <2>4 DEF Write
    <3>2. Len(logs) = QueueSize
      BY <3>1, <1>1, SizesAssumption DEF LogTypes
    <3>3. Kept' = Kept
      BY <2>1, <2>2, <3>1 DEF Kept, InFlight
    <3>4. QED BY <2>4, <3>2, <3>3 DEF KeepsUnlessFull
  <2>5. CASE blocked' = FALSE
    <3>1. logs' = Append(logs, written')
      BY <1>2, <2>5 DEF Write
    <3>2. logs \in Seq(Operations) /\ written' \in Operations
      BY <1>1, <1>2, <2>1, BoundsAssumption DEF Write, LogTypes, Operations
    <3>3. Elements(logs') = Elements(logs) \union {written'}
      BY <3>1, <3>2, AppendFacts
    <3>4. Kept' = Kept \union NewOnes
      BY <2>1, <2>2, <2>3, <3>3 DEF Kept, InFlight
    <3>5. QED BY <3>4 DEF KeepsUnlessFull
  <2>6. blocked' \in BOOLEAN
    BY <1>2 DEF Write
  <2>7. QED BY <2>4, <2>5, <2>6
<1>3. CASE Collect
  <2>1. /\ logs' = Tail(logs) /\ batch' = Append(batch, Head(logs)) /\ logs # <<>>
        /\ UNCHANGED <<written, tables>>
    BY <1>3 DEF Collect
  <2>2. Elements(logs) = Elements(logs') \union {Head(logs)} /\ Head(logs) \in Operations
    BY <2>1, <1>1, TailFacts DEF LogTypes
  <2>3. Elements(batch') = Elements(batch) \union {Head(logs)}
    BY <2>1, <2>2, <1>1, AppendFacts DEF LogTypes
  <2>4. Kept' = Kept /\ NewOnes = {}
    BY <2>1, <2>2, <2>3, <1>1 DEF Kept, InFlight, Stored
  <2>5. QED BY <2>4 DEF KeepsUnlessFull
<1>4. CASE FlushCommits
  <2>1. /\ tables' = [tables EXCEPT ![day] = tables[day] \o batch] /\ batch' = <<>>
        /\ UNCHANGED <<written, logs>>
    BY <1>4 DEF FlushCommits
  <2>2. tables'[day] = tables[day] \o batch /\ \A d \in Days : d # day => tables'[d] = tables[d]
    BY <2>1, <1>1 DEF LogTypes
  <2>3. Elements(tables'[day]) = Elements(tables[day]) \union Elements(batch)
    BY <2>2, <1>1, ConcatFacts DEF LogTypes
  <2>4. Stored' = Stored \union Elements(batch)
    BY <2>2, <2>3, <1>1 DEF Stored, LogTypes
  <2>5. Elements(batch') = {}
    BY <2>1 DEF Elements
  <2>6. Kept' = Kept /\ NewOnes = {}
    BY <2>1, <2>4, <2>5, <1>1 DEF Kept, InFlight
  <2>7. QED BY <2>6 DEF KeepsUnlessFull
<1>5. CASE FlushFails
  BY <1>5 DEF FlushFails, Insertable, KeepsUnlessFull
<1>6. CASE Tick \/ NextDay
  <2>1. Kept' = Kept /\ NewOnes = {}
    BY <1>6, <1>1 DEF Tick, NextDay, Kept, InFlight, Stored
  <2>2. QED BY <2>1 DEF KeepsUnlessFull
<1>7. CASE Restart
  BY <1>7 DEF Restart, KeepsUnlessFull
<1>8. CASE UNCHANGED vars
  BY <1>8
<1>9. QED BY <1>2, <1>3, <1>4, <1>5, <1>6, <1>7, <1>8 DEF Next, FlushLoop

\* Without faults and with a table that takes every row, only a full channel loses
\* an operation, and then the flag is up: for every size of the channel.
THEOREM LogLosesOnlyWhenFull == Spec => LostOnlyWhenFull
  BY LogInitHolds, LogNextKeeps, StepKeeps, PTL DEF Spec, LostOnlyWhenFull

-----------------------------------------------------------------------------
(* The life of a process *)

\* Every step of a process is a step of its log or leaves the log alone.
LEMMA LifeRunsLog == [RecoveryNext]_allVars => [Next]_vars
<1> SUFFICES ASSUME [RecoveryNext]_allVars PROVE [Next]_vars
  OBVIOUS
<1>1. CASE Start \/ StartFails
  BY <1>1 DEF Start, StartFails
<1>2. CASE Request
  BY <1>2 DEF Request, FreezeAvailable, FreezeFrozenAndLog, CancelOrder, Next
<1>3. CASE Slicer
  BY <1>3 DEF Slicer, ReadOrders, ReadBalances, DumpOrders, DumpBalances,
              SerializeAvailable, SerializeFrozen, DumpDone
<1>4. CASE LogStep
  BY <1>4 DEF LogStep, Next
<1>5. CASE Crash
  BY <1>5 DEF Crash, Next
<1>6. CASE UNCHANGED allVars
  BY <1>6 DEF allVars
<1>7. QED BY <1>1, <1>2, <1>3, <1>4, <1>5, <1>6 DEF RecoveryNext

\* So one process after another keeps the order of the log, and loses an operation
\* only as the log does.
THEOREM LivesKeepTheLog == RecoverySpec => [](TypeOK /\ RowsInOrder) /\ LostOnlyWhenFull
<1>1. RecoverySpec => Spec
  <2>1. RecoveryInit => Init
    BY DEF RecoveryInit
  <2>2. QED BY <2>1, LifeRunsLog, PTL DEF RecoverySpec, Spec
<1>2. QED BY <1>1, LogKeepsOrder, LogLosesOnlyWhenFull, PTL

-----------------------------------------------------------------------------
(* Balances, and the dump that races with the requests *)

\* What an account owned when the process came up, or would own: nothing but the
\* requests of one life changes how it is split.
Base(u) == Loaded[1][u].available
\* The inductive invariant: a life moves value inside its accounts only, a dump
\* reads what is available before what is frozen, and no record is short by more
\* than one hold.
DumpInv ==
    /\ process = "down" => holding = NoHold /\ partial = NoHold
    /\ holding # NoHold => process = "up"
    /\ process # "down" => \A u \in Users : Total(u) = Base(u)
    /\ partial # NoHold => partial.available >= balances[partial.user].available
    /\ \A u \in DOMAIN file : \E h \in Holds \union {0} :
           file[u].available + file[u].frozen >= Base(u) - h

\* RecoveryTypeOK without the log.
LifeTypes ==
    /\ world \in WorldSet
    /\ balances \in [Users -> Account]
    /\ \A u \in Users : balances[u].available >= 0 /\ balances[u].frozen >= 0
    /\ orders \subseteq {o.id : o \in world.file}
    /\ holding \in Hold \union {NoHold}
    /\ todo \subseteq Users
    /\ partial \in [user: Users, available: Int] \union {NoHold}
    /\ DOMAIN file \subseteq Users /\ \A u \in DOMAIN file : file[u] \in Record
PlacesOK ==
    /\ process \in {"down", "up", "stuck"}
    /\ slicer \in {"waiting", "balances", "dumpOrders", "dumpBalances", "serializing"}

\* A table that was loaded: nothing is frozen, and nothing is negative.
LoadedTables == {b \in [Users -> Account] :
                    \A u \in Users : b[u].available >= 0 /\ b[u].frozen = 0}

\* Loading keeps such a table, whatever rows there are.
LEMMA RowLoads ==
    ASSUME NEW b \in LoadedTables, NEW row \in BalanceRow
    PROVE  SetBalance(b, row.user, row.balance, 0) \in LoadedTables
  BY DEF LoadedTables, BalanceRow, SetBalance, Account

\* loadBalancesFromOldTable ends with such a table: the recursion over the rows has
\* a value for every number of rows, and none of its values is anything else.
LEMMA LoadsTables ==
    ASSUME NEW rows \in Seq(BalanceRow)
    PROVE  LoadBalances(rows) \in LoadedTables
<1> DEFINE N == Len(rows)
           Load(f, n) == IF n = 0 THEN NoBalances
                         ELSE SetBalance(f[n - 1], rows[n].user, rows[n].balance, 0)
           Loads(f, m) == f = [n \in 0 .. m |-> Load(f, n)]
<1>1. N \in Nat /\ \A n \in 1 .. N : rows[n] \in BalanceRow
  OBVIOUS
<1>2. NoBalances \in LoadedTables
  BY DEF NoBalances, LoadedTables, NoAccount, Account
<1>3. ASSUME NEW m \in 0 .. N, NEW f, Loads(f, m), NEW n \in 0 .. m
      PROVE  f[n] \in LoadedTables
  <2> DEFINE Bad == {i \in 0 .. m : f[i] \notin LoadedTables}
  <2>1. SUFFICES ASSUME Bad # {} PROVE FALSE
    OBVIOUS
  <2>2. Bad \in SUBSET Nat
    OBVIOUS
  <2>3. PICK i \in Bad : \A j \in Bad : i <= j
    <3> HIDE DEF Bad
    <3>1. QED BY <2>1, <2>2, SmallestNumber
  <2>4. i \in 0 .. m /\ f[i] = Load(f, i)
    BY <1>3
  <2>5. i # 0
    BY <2>4, <1>2
  <2>6. i - 1 \in 0 .. m /\ i \in 1 .. N
    BY <1>1, <2>4, <2>5
  <2>7. f[i - 1] \in LoadedTables
    BY <2>3, <2>6
  <2>8. f[i] \in LoadedTables
    BY <2>4, <2>5, <2>6, <2>7, <1>1, RowLoads
  <2>9. QED BY <2>8
<1>4. \E f : Loads(f, N)
  <2> DEFINE Bad == {m \in 0 .. N : ~ \E f : Loads(f, m)}
  <2>1. SUFFICES ASSUME Bad # {} PROVE FALSE
    BY <1>1
  <2>2. Bad \in SUBSET Nat
    OBVIOUS
  <2>3. PICK m \in Bad : \A j \in Bad : m <= j
    <3> HIDE DEF Bad
    <3>1. QED BY <2>1, <2>2, SmallestNumber
  <2>4. m # 0
    <3>1. Loads([n \in 0 .. 0 |-> NoBalances], 0)
      OBVIOUS
    <3>2. QED BY <3>1
  <2>5. m - 1 \in 0 .. N /\ m - 1 \notin Bad /\ m \in Nat
    <3>1. m \in 0 .. N
      OBVIOUS
    <3> HIDE DEF N, Bad
    <3>2. m \in Nat /\ m - 1 \in 0 .. N /\ ~(m <= m - 1)
      BY <1>1, <2>4, <3>1
    <3>3. QED BY <2>3, <3>2
  <2>6. PICK f : Loads(f, m - 1)
    BY <2>5
  <2> DEFINE g == [n \in 0 .. m |-> IF n = m THEN Load(f, m) ELSE f[n]]
  <2>7. ASSUME NEW n \in 0 .. m PROVE g[n] = Load(g, n)
    <3>1. CASE n = 0
      BY <2>4, <2>5, <2>6, <3>1
    <3>2. CASE n # 0
      <4>1. n - 1 \in 0 .. m - 1 /\ n - 1 \in 0 .. m /\ n - 1 # m
        BY <2>5, <3>2
      <4>2. g[n - 1] = f[n - 1]
        BY <4>1
      <4>3. g[n] = Load(f, n)
        <5>1. CASE n = m
          BY <5>1
        <5>2. CASE n # m
          <6>1. n \in 0 .. m - 1
            BY <2>5, <5>2
          <6>2. QED BY <5>2, <6>1, <2>6
        <5>3. QED BY <5>1, <5>2
      <4>4. QED BY <3>2, <4>2, <4>3
    <3>3. QED BY <3>1, <3>2
  <2>8. g = [n \in 0 .. m |-> Load(g, n)]
    <3>1. g = [n \in 0 .. m |-> g[n]]
      OBVIOUS
    <3> HIDE DEF g, Load
    <3>2. QED BY <3>1, <2>7, Zenon
  <2>9. QED BY <2>8
<1>5. PICK f : Loads(f, N) /\ LoadBalances(rows) = f[N]
  <2> DEFINE h == CHOOSE f : Loads(f, N)
  <2>1. LoadBalances(rows) = h[N]
    BY DEF LoadBalances
  <2> HIDE DEF Loads
  <2>2. Loads(h, N)
    BY <1>4
  <2>3. QED BY <2>1, <2>2
<1>6. N \in 0 .. N
  BY <1>1
<1> HIDE DEF N, Loads
<1>7. QED BY <1>3, <1>5, <1>6

\* What a start takes from the database and the file.
LEMMA LoadedIsTable ==
    ASSUME world \in WorldSet
    PROVE  /\ Loaded[1] \in LoadedTables
           /\ Loaded[2] \subseteq {o.id : o \in world.file}
<1>1. world.rows \in Seq(BalanceRow)
  BY DEF WorldSet
<1>2. NoBalances \in LoadedTables
  BY DEF NoBalances, LoadedTables, NoAccount, Account
<1>3. QED BY <1>1, <1>2, LoadsTables DEF Loaded, LoadOrders

\* The inductive invariant of a process and its log.
LifeInv == LogInv /\ LifeTypes /\ PlacesOK /\ DumpInv

\* Before the first start there is nothing in memory and nothing in the log.
LEMMA LifeInitHolds == RecoveryInit => LifeInv
<1> SUFFICES ASSUME RecoveryInit PROVE LifeInv
  OBVIOUS
<1>1. LogInv
  BY LogInitHolds DEF RecoveryInit
<1>2. LifeTypes /\ PlacesOK
  BY RecoveryAssumption
  DEF RecoveryInit, LifeTypes, PlacesOK, NoBalances, NoAccount, Account
<1>3. DumpInv
  BY DEF RecoveryInit, DumpInv
<1>4. QED BY <1>1, <1>2, <1>3 DEF LifeInv

\* Starts, requests, the slicer, the log and crashes all keep it.
LEMMA LifeNextKeeps == LifeInv /\ [RecoveryNext]_allVars => LifeInv'
<1> SUFFICES ASSUME LifeInv, [RecoveryNext]_allVars PROVE LifeInv'
  OBVIOUS
<1>1. LogInv'
  BY LogNextKeeps, LifeRunsLog DEF LifeInv
<1>2. LifeTypes /\ PlacesOK /\ DumpInv
  BY DEF LifeInv
<1>3. /\ Loaded[1] \in LoadedTables
      /\ Loaded[2] \subseteq {o.id : o \in world.file}
      /\ \A u \in Users : Base(u) \in Int /\ Loaded[1][u].frozen = 0
  BY <1>2, LoadedIsTable DEF LifeTypes, LoadedTables, Base, Account
<1>4. SUFFICES LifeTypes' /\ PlacesOK' /\ DumpInv'
  BY <1>1 DEF LifeInv
<1>5. UNCHANGED world => \A u : Base(u)' = Base(u)
  BY DEF Base, Loaded, NoSlice, LoadOrders
<1>h. Holds \subseteq Nat \ {0}
  BY RecoveryAssumption
<1>6. CASE Start
  <2>1. /\ process = "down" /\ process' = "up"
        /\ balances' = Loaded[1] /\ orders' = Loaded[2]
        /\ UNCHANGED <<world, holding, dumper, file>>
    BY <1>6 DEF Start
  <2>2. holding = NoHold /\ partial = NoHold
    BY <2>1, <1>2 DEF DumpInv
  <2>3. LifeTypes' /\ PlacesOK'
    BY <2>1, <1>2, <1>3 DEF LifeTypes, PlacesOK, LoadedTables, dumper
  <2>4. \A u \in Users : Total(u)' = Base(u)'
    BY <2>1, <2>2, <1>3, <1>5 DEF Total, Base, NoHold, LoadedTables, Account
  <2>5. DumpInv'
    BY <2>1, <2>2, <2>4, <1>2, <1>5 DEF DumpInv, dumper, LifeTypes
  <2>6. QED BY <2>3, <2>5
<1>7. CASE StartFails
  <2>1. /\ UNCHANGED <<process, memory, dumper, file>> /\ process = "down"
        /\ \/ UNCHANGED world
           \/ world' = [world EXCEPT !.layout = LayoutAfterInit]
    BY <1>7 DEF StartFails
  <2>2. /\ world' \in WorldSet /\ world'.rows = world.rows /\ world'.end = world.end
        /\ world'.file = world.file
    BY <2>1, <1>2 DEF LifeTypes, WorldSet, LayoutAfterInit
  <2>3. \A u : Base(u)' = Base(u)
    BY <2>2 DEF Base, Loaded, NoSlice, LoadOrders
  <2>4. LifeTypes' /\ PlacesOK'
    BY <2>1, <2>2, <1>2 DEF LifeTypes, PlacesOK, memory, dumper
  <2>5. DumpInv'
    BY <2>1, <2>3, <1>2 DEF DumpInv, memory, dumper
  <2>6. QED BY <2>4, <2>5
<1>8. ASSUME NEW u \in Users, NEW amount \in Holds, FreezeAvailable(u, amount)
      PROVE  LifeTypes' /\ PlacesOK' /\ DumpInv'
  <2>1. /\ process = "up" /\ holding = NoHold
        /\ balances[u].available >= amount
        /\ balances' = [balances EXCEPT ![u].available = @ - amount]
        /\ holding' = [user |-> u, amount |-> amount]
        /\ UNCHANGED <<process, world, orders, dumper, file>>
    BY <1>8 DEF FreezeAvailable, CanFreeze
  <2>2. balances' \in [Users -> Account]
    BY <2>1, <1>2, <1>h DEF LifeTypes, Account
  <2>3. /\ balances'[u].available = balances[u].available - amount
        /\ balances'[u].frozen = balances[u].frozen
        /\ \A v \in Users \ {u} : balances'[v] = balances[v]
    BY <2>1, <1>2 DEF LifeTypes, Account
  <2>4. LifeTypes' /\ PlacesOK'
    <3>1. \A v \in Users : balances'[v].available >= 0 /\ balances'[v].frozen >= 0
      BY <2>1, <2>3, <1>2, <1>h DEF LifeTypes, Account
    <3>2. holding' \in Hold
      BY <2>1 DEF Hold
    <3>3. QED BY <2>1, <2>2, <3>1, <3>2, <1>2 DEF LifeTypes, PlacesOK, dumper
  <2>5. \A v \in Users : Total(v)' = Total(v)
    BY <2>1, <2>3, <1>2, <1>h DEF Total, NoHold, LifeTypes, Account
  <2>6. partial # NoHold => partial.available >= balances'[partial.user].available
    BY <2>3, <1>2, <1>h DEF DumpInv, LifeTypes, Account
  <2>7. QED BY <2>1, <2>4, <2>5, <2>6, <1>2, <1>5 DEF DumpInv, dumper
<1>9. CASE FreezeFrozenAndLog
  <2> DEFINE u == holding.user
             amount == holding.amount
  <2>1. /\ holding # NoHold /\ holding' = NoHold
        /\ balances' = [balances EXCEPT ![u].frozen = @ + amount]
        /\ process' \in {"up", "stuck"}
        /\ UNCHANGED <<world, orders, dumper, file>>
    BY <1>9 DEF FreezeFrozenAndLog
  <2>2. u \in Users /\ amount \in Nat /\ process = "up"
    BY <2>1, <1>2, <1>h DEF LifeTypes, Hold, DumpInv
  <2>3. balances' \in [Users -> Account]
    BY <2>1, <2>2, <1>2 DEF LifeTypes, Account
  <2>4. /\ balances'[u].frozen = balances[u].frozen + amount
        /\ balances'[u].available = balances[u].available
        /\ \A v \in Users \ {u} : balances'[v] = balances[v]
    BY <2>1, <2>2, <1>2 DEF LifeTypes, Account
  <2>5. LifeTypes' /\ PlacesOK'
    <3>1. \A v \in Users : balances'[v].available >= 0 /\ balances'[v].frozen >= 0
      BY <2>2, <2>4, <1>2 DEF LifeTypes, Account
    <3>2. QED BY <2>1, <2>3, <3>1, <1>2 DEF LifeTypes, PlacesOK, dumper
  <2>6. \A v \in Users : Total(v)' = Total(v)
    BY <2>1, <2>2, <2>4, <1>2 DEF Total, NoHold, LifeTypes, Account
  <2>7. partial # NoHold => partial.available >= balances'[partial.user].available
    BY <2>4, <1>2 DEF DumpInv, LifeTypes
  <2>8. QED BY <2>1, <2>2, <2>5, <2>6, <2>7, <1>2, <1>5 DEF DumpInv, dumper
<1>10. ASSUME NEW o \in orders, CancelOrder(o) PROVE LifeTypes' /\ PlacesOK' /\ DumpInv'
  <2>1. \A u : Total(u)' = Total(u)
    BY <1>10 DEF CancelOrder, Total
  <2>2. QED BY <1>10, <2>1, <1>2, <1>5 DEF CancelOrder, LifeTypes, PlacesOK, DumpInv, dumper
<1>11. CASE ReadOrders \/ ReadBalances \/ DumpOrders \/ DumpDone
  <2>1. /\ UNCHANGED <<process, world, memory, partial, file>>
        /\ process # "down" /\ todo' \subseteq Users
    BY <1>11, <1>2 DEF ReadOrders, ReadBalances, DumpOrders, DumpDone, SlicerAt, LifeTypes
  <2>2. \A u : Total(u)' = Total(u)
    BY <2>1 DEF Total, memory
  <2>3. LifeTypes'
    BY <2>1, <1>2 DEF LifeTypes, memory
  <2>4. PlacesOK'
    BY <1>11, <1>2 DEF ReadOrders, ReadBalances, DumpOrders, DumpDone, SlicerAt, PlacesOK
  <2>5. QED BY <2>1, <2>2, <2>3, <2>4, <1>2, <1>5 DEF DumpInv, memory
<1>12. CASE DumpBalances
  <2>1. /\ UNCHANGED <<process, world, memory, partial>> /\ process # "down"
        /\ file' = <<>> \/ file' = file
        /\ todo' \subseteq Users /\ slicer' \in {"serializing", "waiting"}
    BY <1>12, <1>2 DEF DumpBalances, SlicerAt, LifeTypes
  <2>2. \A u : Total(u)' = Total(u)
    BY <2>1 DEF Total, memory
  <2>3. LifeTypes' /\ PlacesOK'
    BY <2>1, <1>2 DEF LifeTypes, PlacesOK, memory
  <2>4. QED BY <2>1, <2>2, <2>3, <1>2, <1>5 DEF DumpInv, memory
<1>13. ASSUME NEW u \in todo, SerializeAvailable(u) PROVE LifeTypes' /\ PlacesOK' /\ DumpInv'
  <2>1. /\ UNCHANGED <<process, world, memory, todo, file>> /\ process # "down"
        /\ slicer' = "serializing"
        /\ partial' = [user |-> u, available |-> balances[u].available]
        /\ u \in Users /\ balances[u].available \in Int
    BY <1>13, <1>2 DEF SerializeAvailable, SlicerAt, LifeTypes, Account
  <2>2. \A v : Total(v)' = Total(v)
    BY <2>1 DEF Total, memory
  <2>3. LifeTypes' /\ PlacesOK'
    BY <2>1, <1>2 DEF LifeTypes, PlacesOK, memory
  <2>4. QED BY <2>1, <2>2, <2>3, <1>2, <1>5 DEF DumpInv, memory
<1>14. CASE SerializeFrozen
  <2> DEFINE u == partial.user
             record == [available |-> partial.available, frozen |-> balances[u].frozen]
             h == IF holding.user = u THEN holding.amount ELSE 0
  <2>1. /\ UNCHANGED <<process, world, memory>> /\ process # "down"
        /\ slicer' = "serializing" /\ partial # NoHold /\ partial' = NoHold
        /\ todo' \subseteq todo
        /\ \/ file' = [x \in DOMAIN file \union {u} |-> IF x = u THEN record ELSE file[x]]
           \/ file' = file
    BY <1>14 DEF SerializeFrozen, SlicerAt
  <2>2. /\ u \in Users /\ record \in Record
        /\ balances[u].available \in Int /\ balances[u].frozen \in Int
        /\ partial.available \in Int
    BY <2>1, <1>2 DEF LifeTypes, Record, Account
  <2>3. DOMAIN file' \subseteq Users /\ \A v \in DOMAIN file' : file'[v] \in Record
    BY <2>1, <2>2, <1>2 DEF LifeTypes
  <2>4. LifeTypes' /\ PlacesOK'
    BY <2>1, <2>3, <1>2 DEF LifeTypes, PlacesOK, memory
  <2>5. \A v : Total(v)' = Total(v)
    BY <2>1 DEF Total, memory
  <2>6. h \in Holds \union {0} /\ h \in Nat
    <3>1. holding \in Hold => holding.amount \in Holds
      BY DEF Hold
    <3>2. holding = NoHold => holding.amount = 0
      BY DEF NoHold
    <3>3. holding \in Hold \union {NoHold}
      BY <1>2 DEF LifeTypes
    <3>4. holding.amount \in Holds \union {0}
      BY <3>1, <3>2, <3>3
    <3>5. h \in Holds \union {0}
      <4>1. CASE holding.user = u
        BY <4>1, <3>4
      <4>2. CASE holding.user # u
        BY <4>2
      <4>3. QED BY <4>1, <4>2
    <3> HIDE DEF h
    <3>6. QED BY <3>5, <1>h
  <2>7. record.available + record.frozen >= Base(u) - h
    <3>1. Base(u) = balances[u].available + balances[u].frozen + h
      BY <2>1, <2>2, <1>2 DEF DumpInv, Total
    <3>2. partial.available >= balances[u].available
      BY <2>1, <1>2 DEF DumpInv
    <3> HIDE DEF h
    <3>3. QED BY <3>1, <3>2, <2>2, <2>6
  <2>8. \A v \in DOMAIN file' : \E g \in Holds \union {0} :
            file'[v].available + file'[v].frozen >= Base(v) - g
    <3> HIDE DEF h, record
    <3>1. CASE file' = file
      BY <3>1, <1>2 DEF DumpInv
    <3>2. CASE file' = [x \in DOMAIN file \union {u} |-> IF x = u THEN record ELSE file[x]]
      <4>1. file'[u] = record /\ \A v \in DOMAIN file' : v # u => v \in DOMAIN file /\ file'[v] = file[v]
        BY <3>2
      <4>2. QED BY <4>1, <2>6, <2>7, <1>2 DEF DumpInv
    <3>3. QED BY <2>1, <3>1, <3>2
  <2>9. QED BY <2>1, <2>4, <2>5, <2>8, <1>2, <1>5 DEF DumpInv, memory
<1>15. CASE LogStep
  <2>1. UNCHANGED recoveryVars
    BY <1>15 DEF LogStep
  <2>2. \A u : Total(u)' = Total(u)
    BY <2>1 DEF Total, recoveryVars, memory
  <2>3. QED BY <2>1, <2>2, <1>2, <1>5
            DEF LifeTypes, PlacesOK, DumpInv, recoveryVars, memory, dumper
<1>16. CASE Crash
  <2>1. /\ UNCHANGED <<world, file>> /\ process' = "down"
        /\ balances' = NoBalances /\ orders' = {} /\ holding' = NoHold
        /\ slicer' = "waiting" /\ todo' = {} /\ partial' = NoHold
    BY <1>16 DEF Crash
  <2>2. LifeTypes' /\ PlacesOK'
    BY <2>1, <1>2 DEF LifeTypes, PlacesOK, NoBalances, NoAccount, Account
  <2>3. DumpInv'
    BY <2>1, <1>2, <1>5 DEF DumpInv
  <2>4. QED BY <2>2, <2>3
<1>17. CASE UNCHANGED allVars
  <2>1. UNCHANGED recoveryVars
    BY <1>17 DEF allVars
  <2>2. \A u : Total(u)' = Total(u)
    BY <2>1 DEF Total, recoveryVars, memory
  <2>3. QED BY <2>1, <2>2, <1>2, <1>5
            DEF LifeTypes, PlacesOK, DumpInv, recoveryVars, memory, dumper
<1>18. QED BY <1>6, <1>7, <1>8, <1>9, <1>10, <1>11, <1>12, <1>13, <1>14, <1>15, <1>16, <1>17
           DEF RecoveryNext, Request, Slicer

\* Whatever a process finds when it comes up, and wherever it stops: its state is
\* well typed, and no record of a dump that raced with requests is short by more
\* than the one hold that was being made.
THEOREM DumpsShortByOneHold == RecoverySpec => [](RecoveryTypeOK /\ DumpShortByOneHold)
<1>1. LifeInv => RecoveryTypeOK
  BY DEF LifeInv, LogInv, LifeTypes, PlacesOK, RecoveryTypeOK
<1>2. LifeInv => DumpShortByOneHold
  <2> SUFFICES ASSUME LifeInv, process # "down" PROVE DumpShortByOneHold
    BY DEF DumpShortByOneHold
  <2>1. \A u \in DOMAIN file : u \in Users /\ Total(u) = Base(u)
    BY DEF LifeInv, DumpInv, LifeTypes
  <2>2. QED BY <2>1 DEF LifeInv, DumpInv, DumpShortByOneHold
<1>3. QED BY <1>1, <1>2, LifeInitHolds, LifeNextKeeps, PTL DEF RecoverySpec

\* The process, its files and its log stay well typed over any number of crashes and restarts.
THEOREM RecoveryStaysTyped == RecoverySpec => []RecoveryTypeOK
  BY DumpsShortByOneHold, PTL
=============================================================================
