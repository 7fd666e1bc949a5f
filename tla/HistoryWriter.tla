--------------------------- MODULE HistoryWriter ---------------------------
(***************************************************************************)
(* The engine's history of finished orders: AppendOrderHistory queues one  *)
(* INSERT per table under the engine's lock, and a ticker executes what is *)
(* queued.  Statements of one shard are glued together with a comma, which *)
(* MySQL refuses, so they are lost together.  The tables of deals and of   *)
(* balance changes have appenders nobody calls: they stay empty.           *)
(***************************************************************************)
EXTENDS Naturals, Sequences, FiniteSets

CONSTANTS Users,          \* numbers of users who place orders
          MaxOrders,      \* bound: orders of one process
          WriterShards,   \* HistoryHashNum of the writer, 16 in the code
          Shards,         \* tables of each type, 100 in the code
          MaxPending,     \* MaxHistoryPendingSize, 5000 in the code
          MaxFailures     \* bound: restarts of the engine and statements the database fails to execute

ASSUME HistoryAssumption ==
  /\ Users \subseteq Nat \ {0}
  /\ {MaxOrders, WriterShards, Shards, MaxPending} \subseteq Nat \ {0}
  /\ WriterShards <= Shards
  /\ 2 * WriterShards < MaxPending
  /\ MaxFailures \in Nat

VARIABLES lastID,     \* the id generator of the process
          appending,  \* the order between its two appends, or NoOrder
          pending,    \* queued statements by key
          flushing,   \* what a flush took and has not executed yet
          tables,     \* rows by type and shard
          finished,   \* history: every order AppendOrderHistory was called for
          restarts, failures

writerVars == <<lastID, appending, pending, flushing, tables, finished, restarts, failures>>

Types == {"order", "detail", "deal", "user_deal", "balance"}
Keys  == Types \X (0 .. Shards - 1)

(* A row, or the statement that inserts it.  Orders of two processes with  *)
(* one id differ in their times: "process" stands for those.               *)
Orders  == [id : 1 .. MaxOrders, user : Users, process : 0 .. MaxFailures]
NoOrder == [id |-> 0, user |-> 0, process |-> 0]

UserShard(o)   == <<"order", o.user % WriterShards>>
DetailShard(o) == <<"detail", o.id % WriterShards>>
KeyOf(type, o) == IF type = "order" THEN UserShard(o) ELSE DetailShard(o)

Queued(q) == {k \in Keys : q[k] # <<>>}

\* Mutant: a statement takes the place of the one that waits.
AppendSQLReplaces(q, k, o) ==
  IF Cardinality(Queued(q)) >= MaxPending THEN q ELSE [q EXCEPT ![k] = <<o>>]

(* The cap counts keys, of which there are few, and not statements.        *)
AppendSQL(q, k, o) ==
  IF Cardinality(Queued(q)) >= MaxPending THEN q
  ELSE [q EXCEPT ![k] = Append(@, o)]

WriterInit ==
  /\ lastID = 0 /\ appending = NoOrder
  /\ pending = [k \in Keys |-> <<>>] /\ flushing = [k \in Keys |-> <<>>]
  /\ tables = [k \in Keys |-> {}]
  /\ finished = {} /\ restarts = 0 /\ failures = 0

(* ProcessOrder finishes an order under e.mu and appends it to the history *)
(* of its user, ...                                                        *)
AppendUserOrder(u) ==
  /\ appending = NoOrder /\ lastID < MaxOrders
  /\ LET o == [id |-> lastID + 1, user |-> u, process |-> restarts] IN
       /\ lastID' = o.id
       /\ appending' = o
       /\ finished' = finished \cup {o}
       /\ pending' = AppendSQL(pending, UserShard(o), o)
  /\ UNCHANGED <<flushing, tables, restarts, failures>>

(* ... and then to the details, under the writer's lock a second time.     *)
AppendOrderDetail ==
  /\ appending # NoOrder
  /\ pending' = AppendSQL(pending, DetailShard(appending), appending)
  /\ appending' = NoOrder
  /\ UNCHANGED <<lastID, flushing, tables, finished, restarts, failures>>

FlushPending ==
  /\ Queued(flushing) = {} /\ Queued(pending) # {}
  /\ flushing' = pending
  /\ pending' = [k \in Keys |-> <<>>]
  /\ UNCHANGED <<lastID, appending, tables, finished, restarts, failures>>

(* What Exec leaves in a table: two statements in one string are an error, *)
(* and so is an id that is there already.                                  *)
Inserted(rows, statements) ==
  LET o == Head(statements) IN
  IF Len(statements) > 1 \/ \E row \in rows : row.id = o.id THEN rows ELSE rows \cup {o}

ExecSQL(k) ==
  /\ flushing[k] # <<>>
  /\ flushing' = [flushing EXCEPT ![k] = <<>>]
  /\ \/ tables' = [tables EXCEPT ![k] = Inserted(@, flushing[k])] /\ UNCHANGED failures
     \/ restarts + failures < MaxFailures /\ failures' = failures + 1 /\ UNCHANGED tables
  /\ UNCHANGED <<lastID, appending, pending, finished, restarts>>

(* Nothing flushes at the end of the process, and ids start again.         *)
EngineRestart ==
  /\ restarts + failures < MaxFailures /\ restarts' = restarts + 1
  /\ lastID' = 0 /\ appending' = NoOrder
  /\ pending' = [k \in Keys |-> <<>>] /\ flushing' = [k \in Keys |-> <<>>]
  /\ UNCHANGED <<tables, finished, failures>>

WriterNext ==
  \/ \E u \in Users : AppendUserOrder(u)
  \/ AppendOrderDetail
  \/ FlushPending
  \/ \E k \in Keys : ExecSQL(k)
  \/ EngineRestart

----------------------------------------------------------------------------
WriterTypeOK ==
  /\ lastID \in 0 .. MaxOrders
  /\ appending \in Orders \cup {NoOrder}
  /\ DOMAIN pending = Keys /\ DOMAIN flushing = Keys /\ DOMAIN tables = Keys
  /\ \A k \in Keys : /\ pending[k] \in Seq(Orders) /\ flushing[k] \in Seq(Orders)
                      /\ tables[k] \subseteq Orders
  /\ finished \subseteq Orders
  /\ restarts \in 0 .. MaxFailures /\ failures \in 0 .. MaxFailures

Waiting(type, o) ==
  LET k == KeyOf(type, o) IN
  \/ type = "detail" /\ appending = o
  \/ \E i \in DOMAIN pending[k] : pending[k][i] = o
  \/ \E i \in DOMAIN flushing[k] : flushing[k][i] = o

Lost(type, o) == ~Waiting(type, o) /\ o \notin tables[KeyOf(type, o)]

(* While the database works, a process loses a record only together with  *)
(* another of its table, or because an earlier process has used its id:    *)
(* never by the cap, and never for want of a flush.                        *)
LostInCompany ==
  failures = 0 =>
    \A type \in {"order", "detail"} : \A o \in finished :
      Lost(type, o) /\ o.process = restarts =>
        \/ \E other \in finished \ {o} :
             /\ other.process = o.process /\ KeyOf(type, other) = KeyOf(type, o)
             /\ Lost(type, other)
        \/ \E row \in tables[KeyOf(type, o)] : row.id = o.id /\ row.process < o.process
=============================================================================
