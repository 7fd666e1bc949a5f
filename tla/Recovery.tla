------------------------------ MODULE Recovery ------------------------------
(***************************************************************************)
(* matchengine's main (cmd/matchengine) around the life of one process:    *)
(* InitDB and InitFromDB load what the database and the file "orders" in   *)
(* the working directory hold; requests freeze funds and log operations    *)
(* (OperLog); StartPeriodicSlices dumps the orders and then the balances   *)
(* to files of a new directory; the process ends and another one starts.   *)
(*                                                                         *)
(* The loader knows the layout of sql/create_trade_log.sql, the dumper     *)
(* inserts with the columns InitDB creates.  So a process that came up     *)
(* runs on the first layout, where every insert of a dump fails (the error *)
(* goes unread) and a dump leaves its file only; the rows of a slice are   *)
(* somebody else's.  An order whose hold is made meets a loaded order or   *)
(* is over, and the engine hangs over a trade or a cancellation (Engine).  *)
(* Amounts have one precision: a racing read gives the old or the new one. *)
(***************************************************************************)
EXTENDS OperLog, Balances, FiniteSets

CONSTANTS Users,        \* the accounts of the slice: one asset
          Holds,        \* what a new order may hold
          Worlds        \* what a process may find: members of WorldSet

BalanceRow == [user: Users, t: {"available", "frozen"}, balance: Nat]
FileOrder == [id: Nat, active: BOOLEAN]
\* The layout of slice_history (none yet, create_trade_log.sql's, InitDB's), the
\* newest row's end_oper_id (-1: no row), the balance table's rows by primary key,
\* the rows after end_oper_id in a table named operlog (-1: no such table), and the
\* orders of the file.
WorldSet == [layout: {"none", "legacy", "own"}, end: Int, rows: Seq(BalanceRow),
             operlog: Int, file: SUBSET FileOrder]

ASSUME RecoveryAssumption ==
    IsFiniteSet(Users) /\ Holds \subseteq Nat \ {0} /\ Worlds \subseteq WorldSet

VARIABLES process,      \* "down", "up", or "stuck": up, and e.mu is never free again
          world,        \* the rows and files a start reads
          balances,     \* e.balances
          orders,       \* ids in the order book
          holding,      \* the hold a request is making, under e.mu and bm.mu
          slicer,       \* where the goroutine of StartPeriodicSlices is
          todo,         \* the accounts DumpBalances has not serialized
          partial,      \* the Available it has read of the next one
          file          \* the records of the newest file "balances"
memory == <<balances, orders, holding>>
dumper == <<slicer, todo, partial>>
recoveryVars == <<process, world, memory, dumper, file>>
allVars == <<vars, recoveryVars>>

NoHold == [user |-> "nobody", amount |-> 0]
Hold == [user: Users, amount: Holds]
Record == [available: Int, frozen: Int]
Total(u) == balances[u].available + balances[u].frozen
               + (IF holding.user = u THEN holding.amount ELSE 0)

\* The state of the process, what it loaded and what it dumps is well typed.
RecoveryTypeOK ==
    /\ TypeOK
    /\ process \in {"down", "up", "stuck"}
    /\ world \in WorldSet
    /\ balances \in [Users -> Account]
    /\ \A u \in Users : balances[u].available >= 0 /\ balances[u].frozen >= 0
    /\ orders \subseteq {o.id : o \in world.file}
    /\ holding \in Hold \union {NoHold}
    /\ slicer \in {"waiting", "balances", "dumpOrders", "dumpBalances", "serializing"}
    /\ todo \subseteq Users
    /\ partial \in [user: Users, available: Int] \union {NoHold}
    /\ DOMAIN file \subseteq Users /\ \A u \in DOMAIN file : file[u] \in Record

NoBalances == [u \in Users |-> NoAccount]

RecoveryInit ==
    /\ Init
    /\ process = "down"
    /\ world \in Worlds
    /\ balances = NoBalances /\ orders = {} /\ holding = NoHold
    /\ slicer = "waiting" /\ todo = {} /\ partial = NoHold
    /\ file = <<>>

-----------------------------------------------------------------------------
(* A start *)

\* InitDB: IF NOT EXISTS leaves the layout somebody else created.
LayoutAfterInit == IF world.layout = "none" THEN "own" ELSE world.layout

\* LoadFromSlice's first query names a column that only the legacy layout has.
FindsSlice == LayoutAfterInit = "legacy"
NoSlice == world.end = -1

\* loadBalancesFromOldTable: one entry per user and asset, and what is available
\* and what is frozen, which are rows of their own, replace one another.
LoadBalances(rows) ==
    LET loaded[n \in 0 .. Len(rows)] ==
            IF n = 0 THEN NoBalances
            ELSE SetBalance(loaded[n - 1], rows[n].user, rows[n].balance, 0)
    IN  loaded[Len(rows)]

\* LoadOrdersFromFile, of a path that is empty but for the name; LoadOrdersToEngine.
LoadOrders == {o.id : o \in {f \in world.file : f.active}}

\* Replay: a missing table is skipped; a row does not fit the struct (the column
\* time has no field), and that ends the start.
Replays == world.end <= 0 \/ world.operlog <= 0

Loaded == IF NoSlice THEN <<NoBalances, {}>> ELSE <<LoadBalances(world.rows), LoadOrders>>

Start ==
    /\ process = "down"
    /\ FindsSlice /\ (NoSlice \/ Replays)
    /\ process' = "up"
    /\ balances' = Loaded[1] /\ orders' = Loaded[2]
    /\ UNCHANGED <<vars, world, holding, dumper, file>>

\* os.Exit(1): no connection, the query, or the replay.
StartFails ==
    /\ process = "down"
    /\ \/ faulty /\ UNCHANGED world
       \/ ~FindsSlice /\ world' = [world EXCEPT !.layout = LayoutAfterInit]
       \/ FindsSlice /\ ~NoSlice /\ ~Replays /\ UNCHANGED world
    /\ UNCHANGED <<vars, process, memory, dumper, file>>

-----------------------------------------------------------------------------
(* Requests, each under e.mu from its first to its last step *)

\* ProcessOrder: Freeze writes Available ...
FreezeAvailable(u, amount) ==
    /\ process = "up" /\ holding = NoHold
    /\ written < MaxWrites
    /\ CanFreeze(balances, u, amount)
    /\ balances' = [balances EXCEPT ![u].available = @ - amount]
    /\ holding' = [user |-> u, amount |-> amount]
    /\ UNCHANGED <<vars, process, world, orders, dumper, file>>

\* ... and Frozen; WriteOperLog.  The order is over and keeps its hold, or it meets
\* an order of the book and hangs in settleTrade.
FreezeFrozenAndLog ==
    /\ holding # NoHold
    /\ balances' = [balances EXCEPT ![holding.user].frozen = @ + holding.amount]
    /\ holding' = NoHold
    /\ Write
    /\ process' \in {"up"} \union {"stuck" : o \in orders}
    /\ UNCHANGED <<world, orders, dumper, file>>

\* CancelOrder hangs once the order is out of the book.
CancelOrder(o) ==
    /\ process = "up" /\ holding = NoHold
    /\ o \in orders
    /\ orders' = orders \ {o}
    /\ process' = "stuck"
    /\ UNCHANGED <<vars, world, balances, holding, dumper, file>>

-----------------------------------------------------------------------------
(* StartPeriodicSlices *)

SlicerAt(here, there) ==
    /\ process # "down"
    /\ slicer = here /\ slicer' = there

\* GetAllOrders, under e.mu: the loaded orders, with what they were loaded with,
\* for as long as e.mu can be had ...
ReadOrders ==
    /\ SlicerAt("waiting", "balances")
    /\ process = "up" /\ holding = NoHold
    /\ UNCHANGED <<vars, process, world, memory, todo, partial, file>>

\* ... and GetAllBalances, under bm.mu: pointers to the live accounts.
ReadBalances ==
    /\ SlicerAt("balances", "dumpOrders")
    /\ holding = NoHold
    /\ todo' = {u \in Users : balances[u].known}
    /\ UNCHANGED <<vars, process, world, memory, partial, file>>

\* DumpOrders: a file that nobody reads, or none; its insert fails either way.
DumpOrders ==
    /\ SlicerAt("dumpOrders", "dumpBalances")
    /\ UNCHANGED <<vars, process, world, memory, todo, partial, file>>

\* DumpBalances makes a file of its own, in the directory of the second it is.
DumpBalances ==
    /\ \/ SlicerAt("dumpBalances", "serializing") /\ file' = <<>> /\ UNCHANGED todo
       \/ faulty /\ SlicerAt("dumpBalances", "waiting") /\ todo' = {} /\ UNCHANGED file
    /\ UNCHANGED <<vars, process, world, memory, partial>>

\* SerializeBalance of an account, in the order of the map and with no lock: what
\* is available ...
\* Mutant: the ticker of a slice that is not done yet starts over.
SerializeAvailableThenWait(u) ==
    /\ SlicerAt("serializing", "waiting")
    /\ u \in todo /\ partial = NoHold
    /\ todo' = {}
    /\ UNCHANGED <<vars, process, world, memory, partial, file>>
SerializeAvailable(u) ==
    /\ SlicerAt("serializing", "serializing")
    /\ u \in todo /\ partial = NoHold
    /\ partial' = [user |-> u, available |-> balances[u].available]
    /\ UNCHANGED <<vars, process, world, memory, todo, file>>

\* ... what is frozen, and the record to the file; the insert fails.
\* Mutant: what is frozen is taken away from what is available.
SerializeNet ==
    /\ partial # NoHold
    /\ SlicerAt("serializing", "serializing")
    /\ LET u == partial.user
           record == [available |-> partial.available - balances[u].frozen,
                      frozen |-> balances[u].frozen]
       IN  /\ file' = [x \in DOMAIN file \union {u} |-> IF x = u THEN record ELSE file[x]]
           /\ todo' = todo \ {u}
    /\ partial' = NoHold
    /\ UNCHANGED <<vars, process, world, memory>>
SerializeFrozen ==
    /\ partial # NoHold
    /\ SlicerAt("serializing", "serializing")
    /\ LET u == partial.user
           record == [available |-> partial.available, frozen |-> balances[u].frozen]
       IN  /\ \/ file' = [x \in DOMAIN file \union {u} |-> IF x = u THEN record ELSE file[x]]
              \/ faulty /\ UNCHANGED file
           /\ todo' = todo \ {u}
    /\ partial' = NoHold
    /\ UNCHANGED <<vars, process, world, memory>>

DumpDone ==
    /\ SlicerAt("serializing", "waiting")
    /\ todo = {}
    /\ UNCHANGED <<vars, process, world, memory, todo, partial, file>>

-----------------------------------------------------------------------------
\* The process ends, between any two steps.
Crash ==
    /\ process # "down"
    /\ Restart
    /\ process' = "down"
    /\ balances' = NoBalances /\ orders' = {} /\ holding' = NoHold
    /\ slicer' = "waiting" /\ todo' = {} /\ partial' = NoHold
    /\ UNCHANGED <<world, file>>

Request == \/ \E u \in Users, amount \in Holds : FreezeAvailable(u, amount)
           \/ FreezeFrozenAndLog
           \/ \E o \in orders : CancelOrder(o)
Slicer == \/ ReadOrders \/ ReadBalances \/ DumpOrders \/ DumpBalances
          \/ \E u \in todo : SerializeAvailable(u)
          \/ SerializeFrozen \/ DumpDone
LogStep == (FlushLoop \/ NextDay) /\ UNCHANGED recoveryVars
RecoveryNext == Start \/ StartFails \/ Request \/ Slicer \/ LogStep \/ Crash

\* A request that has begun goes on; the slicer is a goroutine whose ticker keeps
\* ticking, and both locks let a waiting reader in when a writer leaves.
RecoveryFairness == /\ WF_allVars(FreezeFrozenAndLog)
                    /\ SF_allVars(Slicer)
                    /\ Fairness
RecoverySpec == RecoveryInit /\ [][RecoveryNext]_allVars
FairRecovery == RecoverySpec /\ RecoveryFairness

-----------------------------------------------------------------------------
\* A dump races with the requests, and still: a record shows no more frozen and no
\* less available than its account has later in that life, and is short of the
\* account's total by no more than the one hold that was being made.  (It is over
\* by the holds made between its two reads.)
DumpShortByOneHold ==
    process # "down" =>
        /\ partial # NoHold => partial.available >= balances[partial.user].available
        /\ \A u \in DOMAIN file : \E h \in Holds \union {0} :
               file[u].available + file[u].frozen >= Total(u) - h

\* The newest file comes to show a hold that was made, unless the engine hangs.
DumpsKeepUp ==
    \A u \in Users, n \in 1 .. MaxWrites :
        (process = "up" /\ balances[u].frozen >= n /\ ~faulty)
            ~> \/ process # "up"
               \/ u \in DOMAIN file /\ file[u].frozen >= n

\* As documented, a start restores the last snapshot.  (A file with a record of
\* every account is one.)
SnapshotRestored ==
    [][(Start /\ DOMAIN file = Users) =>
          \A u \in Users : /\ balances'[u].available = file[u].available
                           /\ balances'[u].frozen = file[u].frozen]_allVars
=============================================================================
