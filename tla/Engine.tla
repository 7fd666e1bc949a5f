------------------------------- MODULE Engine -------------------------------
(***************************************************************************)
(* The live engine: HTTP requests and the stop-order ticker, one goroutine *)
(* each, around e.mu.  e.mu is a sync.RWMutex, which no goroutine may take *)
(* twice: RLock waits while any goroutine has, or waits for, the write     *)
(* lock, the caller itself included.  One market; its book starts with the *)
(* orders of the last slice, and as the server sends limit orders only, an *)
(* order that meets no maker never enters it.                              *)
(*                                                                         *)
(* ProcessOrder and CancelOrder call GetMarket, which takes the read lock, *)
(* under the write lock.  Module Matching has what would come after.       *)
(***************************************************************************)
EXTENDS Balances, Sequences, FiniteSets, Functions

CONSTANTS Clients,      \* goroutines of the HTTP server
          Users,
          Requests,     \* what a client may ask: records of the sets below
          Slices,       \* books the last slice may hold: Id -> LoadedOrder
          Funds,        \* what each account of the slice has available
          MaxCreates    \* bound of the model on the orders created

Sides == {"bid", "ask"}
Keys == Users \X {"money", "stock"}
Cron == "cron"
Threads == Clients \union {Cron}
Nobody == "nobody"
NoRequest == [kind |-> "none"]

CreateRequest == [kind: {"create"}, user: Users, side: Sides, price: Nat, amount: Nat]
CancelRequest == [kind: {"cancel"}, order: Nat]
ReadRequest == [kind: {"read"}]
LoadedOrder == [user: Users, side: Sides, price: Nat, left: Int]

ASSUME RequestsAssumption == Requests \subseteq CreateRequest \union CancelRequest \union ReadRequest
ASSUME ClientsAssumption == Cron \notin Clients /\ Nobody \notin Threads
ASSUME SlicesAssumption == \A s \in Slices : s \in [DOMAIN s -> LoadedOrder]
ASSUME FundsAssumption == Funds \in Nat /\ MaxCreates \in Nat

VARIABLES pc,           \* where each goroutine is
          req,          \* the request it works on
          owner,        \* the goroutine that holds e.mu's inner mutex
          nextID,       \* IDGenerator.value
          hasBook,      \* e.orderBooks has the market
          heap,         \* the orders of both heaps, by id
          book,         \* ids in ob.orders
          balances,     \* e.balances
          oplog         \* what WriteOperLog was given, in order
vars == <<pc, req, owner, nextID, hasBook, heap, book, balances, oplog>>
engineState == <<nextID, hasBook, heap, book, balances, oplog>>

\* Steps of a goroutine: waiting for the read lock; holding it; waiting for the
\* mutex inside the RWMutex; announced, waiting for the readers to leave; in the
\* critical section (three parts for a creation); waiting for the read lock
\* under its own write lock, and past that.
Places == {"idle", "rlock", "reading", "lock", "announced", "writing", "frozen",
           "matching", "nested", "settling"}
Critical == {"writing", "frozen", "matching", "nested", "settling"}

CronRequest == [kind: {"markets", "lastprice", "stops"}]
Logged == [kind: {"create"}, id: Nat, user: Users, side: Sides, price: Nat, amount: Nat]

\* Goroutines, lock, book and balances are well typed.
TypeOK == /\ pc \in [Threads -> Places]
          /\ req \in [Threads -> {NoRequest} \union CancelRequest \union ReadRequest
                                   \union Logged \union CronRequest]
          /\ owner \in Threads \union {Nobody}
          /\ nextID \in 0 .. MaxCreates
          /\ hasBook \in BOOLEAN
          /\ heap \in [DOMAIN heap -> LoadedOrder]
          /\ book \subseteq DOMAIN heap
          /\ balances \in [Keys -> Account]
          /\ oplog \in Seq(Logged)

Init == /\ pc = [t \in Threads |-> "idle"]
        /\ req = [t \in Threads |-> NoRequest]
        /\ owner = Nobody
        /\ nextID = 0
        /\ heap \in Slices
        /\ book = DOMAIN heap
        /\ hasBook = (book # {})
        /\ balances = [k \in Keys |-> [known |-> TRUE, available |-> Funds, frozen |-> 0]]
        /\ oplog = <<>>

Goto(t, place) == pc' = [pc EXCEPT ![t] = place]

-----------------------------------------------------------------------------
(* sync.RWMutex *)

\* Mutant: a reader does not mind a writer.
RLockAtOnce(t) ==
    /\ pc[t] \in {"rlock", "nested"}
    /\ Goto(t, IF pc[t] = "rlock" THEN "reading" ELSE "settling")
    /\ UNCHANGED <<req, owner, engineState>>
\* RLock: goes through unless a writer holds or has announced itself.
RLock(t) ==
    /\ pc[t] \in {"rlock", "nested"}
    /\ owner = Nobody
    /\ Goto(t, IF pc[t] = "rlock" THEN "reading" ELSE "settling")
    /\ UNCHANGED <<req, owner, engineState>>

\* Lock: the inner mutex first, then no new reader gets in ...
Announce(t) ==
    /\ pc[t] = "lock"
    /\ owner = Nobody
    /\ owner' = t
    /\ Goto(t, "announced")
    /\ UNCHANGED <<req, engineState>>

\* ... and the old ones have to leave.
EnterWrite(t) ==
    /\ pc[t] = "announced"
    /\ \A r \in Threads : pc[r] # "reading"
    /\ Goto(t, "writing")
    /\ UNCHANGED <<req, owner, engineState>>

\* Unlock lets every waiting reader in before another writer can announce itself;
\* the goroutine has answered.
UnlockAndAnswer(t) ==
    /\ owner' = Nobody
    /\ pc' = [r \in Threads |-> IF r = t THEN "idle"
                                ELSE IF pc[r] = "rlock" THEN "reading" ELSE pc[r]]
    /\ req' = [req EXCEPT ![t] = NoRequest]

-----------------------------------------------------------------------------
(* Requests *)

\* IDGenerator.NextID.
\* Mutant: incremented before and after.
NextIDTwice == nextID + 2
NextID == nextID + 1

\* A request comes in.  A creation has its id before it asks for the lock.
Receive(t, r) ==
    /\ pc[t] = "idle"
    /\ IF r.kind = "create"
       THEN /\ nextID < MaxCreates
            /\ nextID' = NextID
            /\ req' = [req EXCEPT ![t] =
                          [kind |-> "create", id |-> nextID', user |-> r.user,
                           side |-> r.side, price |-> r.price, amount |-> r.amount]]
       ELSE req' = [req EXCEPT ![t] = r] /\ UNCHANGED nextID
    /\ Goto(t, IF r.kind = "read" THEN "rlock" ELSE "lock")
    /\ UNCHANGED <<owner, hasBook, heap, book, balances, oplog>>

\* A getter (GetOrder, GetOrderBook, GetAllAssets, GetAllOrders) returns.
Read(t) ==
    /\ pc[t] = "reading" /\ req[t].kind = "read"
    /\ Goto(t, "idle")
    /\ req' = [req EXCEPT ![t] = NoRequest]
    /\ UNCHANGED <<owner, engineState>>

Cost(o) == IF o.side = "bid" THEN o.price * o.amount ELSE o.amount
Asset(o) == IF o.side = "bid" THEN "money" ELSE "stock"
InCreate(t, place) == pc[t] = place /\ req[t].kind = "create"

\* ProcessOrder: the book is made if need be and the funds are frozen, or not ...
Freezes(t) ==
    /\ InCreate(t, "writing")
    /\ CanFreeze(balances, <<req[t].user, Asset(req[t])>>, Cost(req[t]))
    /\ balances' = Freeze(balances, <<req[t].user, Asset(req[t])>>, Cost(req[t]))
    /\ hasBook' = TRUE
    /\ Goto(t, "frozen")
    /\ UNCHANGED <<req, owner, nextID, heap, book, oplog>>

\* Mutant: the creation waits for funds under the lock.
RefusesLater(t) ==
    /\ InCreate(t, "writing")
    /\ ~CanFreeze(balances, <<req[t].user, Asset(req[t])>>, Cost(req[t]))
    /\ hasBook' = TRUE
    /\ UNCHANGED <<pc, req, owner, nextID, heap, book, balances, oplog>>
Refuses(t) ==
    /\ InCreate(t, "writing")
    /\ ~CanFreeze(balances, <<req[t].user, Asset(req[t])>>, Cost(req[t]))
    /\ hasBook' = TRUE
    /\ UnlockAndAnswer(t)
    /\ UNCHANGED <<nextID, heap, book, balances, oplog>>

\* ... the order goes to the operation log ...
\* Mutant: logged by the handler and again by ProcessOrder.
LogsTwice(t) ==
    /\ InCreate(t, "frozen")
    /\ oplog' = oplog \o <<req[t], req[t]>>
    /\ Goto(t, "matching")
    /\ UNCHANGED <<req, owner, nextID, hasBook, heap, book, balances>>
Logs(t) ==
    /\ InCreate(t, "frozen")
    /\ oplog' = Append(oplog, req[t])
    /\ Goto(t, "matching")
    /\ UNCHANGED <<req, owner, nextID, hasBook, heap, book, balances>>

\* ... and to matchAsTaker.  The maker is the first of the other heap, with the
\* highest price; the price decides whether it trades.
Opposite(o) == {i \in DOMAIN heap : heap[i].side # o.side}
Makers(o) == {i \in Opposite(o) : \A j \in Opposite(o) : heap[j].price <= heap[i].price}
Crosses(o, i) == IF o.side = "bid" THEN heap[i].price <= o.price
                                   ELSE heap[i].price >= o.price

\* No trade: the order is Finished, its funds stay frozen, and it is answered.
NoTrade(t) ==
    /\ InCreate(t, "matching")
    /\ \A i \in Makers(req[t]) : ~Crosses(req[t], i)
    /\ UnlockAndAnswer(t)
    /\ UNCHANGED engineState

\* A trade: both orders are reduced, and settleTrade calls GetMarket.
Trades(t, i) ==
    /\ InCreate(t, "matching")
    /\ i \in Makers(req[t]) /\ Crosses(req[t], i)
    /\ LET amount == IF heap[i].left < req[t].amount THEN heap[i].left ELSE req[t].amount
       IN  /\ heap' = [heap EXCEPT ![i].left = @ - amount]
           /\ req' = [req EXCEPT ![t].amount = @ - amount]
    /\ Goto(t, "nested")
    /\ UNCHANGED <<owner, nextID, hasBook, book, balances, oplog>>

InCancel(t) == pc[t] = "writing" /\ req[t].kind = "cancel"

\* CancelOrder of an order that is not in the book answers at once.
CancelsNothing(t) ==
    /\ InCancel(t)
    /\ req[t].order \notin book
    /\ UnlockAndAnswer(t)
    /\ UNCHANGED engineState

\* CancelOrder of one that is: out of the map, then GetMarket, and only then the
\* funds would be unlocked.
CancelRemoves(t) ==
    /\ InCancel(t)
    /\ req[t].order \in book
    /\ book' = book \ {req[t].order}
    /\ Goto(t, "nested")
    /\ UNCHANGED <<req, owner, nextID, hasBook, heap, balances, oplog>>

-----------------------------------------------------------------------------
(* startStopOrderCron: list the markets, read the last price, check the stops. *)

CronStep(next, kind) ==
    /\ Goto(Cron, next)
    /\ req' = [req EXCEPT ![Cron] = [kind |-> kind]]
    /\ UNCHANGED <<owner, engineState>>

CronTick == pc[Cron] = "idle" /\ CronStep("rlock", "markets")
CronReadsMarkets ==
    /\ pc[Cron] = "reading" /\ req[Cron].kind = "markets"
    /\ CronStep(IF hasBook THEN "rlock" ELSE "idle",
                IF hasBook THEN "lastprice" ELSE "none")
\* GetLastPrice reads the map: no order, no price.
CronReadsPrice ==
    /\ pc[Cron] = "reading" /\ req[Cron].kind = "lastprice"
    /\ CronStep(IF book # {} THEN "lock" ELSE "idle",
                IF book # {} THEN "stops" ELSE "none")
\* ProcessTriggeredStopOrders: no stop order was ever added (only the RPC server,
\* which is not started, adds them).
CronChecksStops ==
    /\ pc[Cron] = "writing" /\ req[Cron].kind = "stops"
    /\ UnlockAndAnswer(Cron)
    /\ UNCHANGED engineState

Step(t) == \/ RLock(t) \/ EnterWrite(t) \/ Read(t)
           \/ Freezes(t) \/ Refuses(t) \/ Logs(t) \/ NoTrade(t)
           \/ \E i \in DOMAIN heap : Trades(t, i)
           \/ CancelsNothing(t) \/ CancelRemoves(t)
CronMoves == CronReadsMarkets \/ CronReadsPrice \/ CronChecksStops

Next == \/ \E t \in Threads : Announce(t) \/ Step(t)
        \/ \E t \in Clients, r \in Requests : Receive(t, r)
        \/ CronTick \/ CronMoves

\* Go runs every goroutine that can run, and a sync.Mutex hands over to the one
\* that has waited for a millisecond, so no waiter is passed over for ever.
Fairness == /\ \A t \in Threads : WF_vars(Step(t)) /\ SF_vars(Announce(t))
            /\ WF_vars(CronTick) /\ WF_vars(CronMoves)
Spec == Init /\ [][Next]_vars
FairSpec == Spec /\ Fairness

-----------------------------------------------------------------------------
\* Whatever order the requests interleave in, what is frozen in an account is the
\* cost of the orders in the operation log, and of the one about to be logged: no
\* order is accepted without funds or logged twice, and no refusal leaves funds
\* on hold.
Pending(k) == {t \in Threads : InCreate(t, "frozen") /\ <<req[t].user, Asset(req[t])>> = k}
LoggedFor(k) == {i \in DOMAIN oplog : <<oplog[i].user, Asset(oplog[i])>> = k}
FrozenMatchesLog ==
    \A k \in Keys :
        balances[k].frozen =
            SumFunctionOnSet([i \in DOMAIN oplog |-> Cost(oplog[i])], LoggedFor(k))
            + SumFunctionOnSet([t \in Pending(k) |-> Cost(req[t])], Pending(k))

\* Once a goroutine waits under its own write lock, the engine is silent: nothing
\* of its state ever changes again and no getter returns, so a book with an order
\* half taken out or half filled is never seen, traded on or saved.
Stuck == \E t \in Threads : pc[t] = "nested"
StaysSilent == Stuck => /\ Stuck'
                        /\ UNCHANGED <<hasBook, heap, book, balances, oplog>>
                        /\ ~\E t \in Threads : Read(t)
StuckIsSilent == [][StaysSilent]_vars

\* Every request is answered, in every interleaving of requests and ticker, unless
\* a goroutine got stuck under the lock: nothing else keeps a client waiting.
AnsweredUnlessStuck == \A t \in Clients : pc[t] # "idle" ~> pc[t] = "idle" \/ Stuck

\* Every request is answered.
RequestsAnswered == \A t \in Clients : pc[t] # "idle" ~> pc[t] = "idle"
=============================================================================
