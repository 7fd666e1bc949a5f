------------------------------ MODULE RpcServer ------------------------------
(***************************************************************************)
(* The engine's RPC server (server/rpc_server.go, server/handler) with the *)
(* balance table, the duplicate check in redis (balance/update.go) and the *)
(* stop orders.  Every request of a connection is a goroutine.  A handler  *)
(* that places an order freezes its cost in an account named like the      *)
(* market, and ProcessOrder freezes it again in the asset it pays with.    *)
(*                                                                         *)
(* e.mu is free between steps or, once an order trades or is cancelled,    *)
(* never again (module Engine): ProcessOrder and CancelOrder are one step  *)
(* each, as nobody looks between.  One market, its book as the last slice  *)
(* left it.  main does not start the server; without it the table is what  *)
(* there is, and any goroutine calls any of its methods (BalanceManager).  *)
(***************************************************************************)
EXTENDS BalanceManager, RpcQueries, FiniteSetsExt

CONSTANTS Clients,      \* goroutines that handle a request
          Users,
          Requests,     \* what a client may ask: records of RequestSet
          Books,        \* the books a slice may hold: records of three sequences
          Funds,        \* what the accounts of the slice have available
          MaxRequests   \* bound of the model on the requests

Sides == {"bid", "ask"}
Put == [kind: {"limit", "market", "stop"}, user: Users, side: Sides, price: Nat, amount: Nat]
Cancel == [kind: {"cancel"}, user: Users, order: Nat, here: BOOLEAN]
Update == [kind: {"update"}, user: Users, asset: {"money", "stock", "market"}, id: Nat, change: Int]
RequestSet == Put \union Cancel \union Update
\* The heap arrays of both sides, and the map of the live orders by their ids.
IsBook(b) == /\ DOMAIN b = {"bids", "asks", "orders"}
             /\ b.bids \in Seq(BookOrder(Users)) /\ b.asks \in Seq(BookOrder(Users))
             /\ \A i \in DOMAIN b.orders : b.orders[i] \in BookOrder(Users)

ASSUME KeysAssumption == Keys = Users \X {"money", "stock", "market"}
ASSUME RequestsAssumption == Requests \subseteq RequestSet
ASSUME ClientsAssumption == IsFiniteSet(Clients)
ASSUME BooksAssumption == \A b \in Books : IsBook(b)
ASSUME BoundsAssumption == Funds \in Nat /\ MaxRequests \in Nat

VARIABLES serving,      \* the server runs
          guarded,      \* the engine has an UpdateManager
          faulty,       \* redis may fail
          pc, req,      \* where each goroutine is, and what it works on
          late,         \* those whose update's id was marked before it came
          received,     \* the number of requests
          ob,           \* the order book
          mu,           \* "free", or "stuck" for ever
          nextID,
          stops,        \* the stop orders that wait
          added, run,   \* how many were added, and how many were matched
          marks,        \* the business ids in redis
          accepted      \* the cost of the orders that were answered, by user and side
server == <<serving, guarded, faulty>>
engineVars == <<ob, mu, nextID, stops, added, run>>
rpcVars == <<vars, server, pc, req, late, received, engineVars, marks, accepted>>

NoRequest == [kind |-> "none"]
Places == {"idle", "find", "price", "hold", "process", "undo", "settle", "cancel", "again",
           "stop", "check", "mark", "change", "hung"}

Cost(r) == IF r.side = "ask" THEN r.amount ELSE r.price * r.amount
PaysWith(r) == <<r.user, IF r.side = "bid" THEN "money" ELSE "stock">>
MarketKey(r) == <<r.user, "market">>

\* The requests, the engine and the table behind them are well typed.
RpcTypeOK ==
    /\ TypeOK
    /\ serving \in BOOLEAN /\ guarded \in BOOLEAN /\ faulty \in BOOLEAN
    /\ pc \in [Clients -> Places] /\ req \in [Clients -> {NoRequest} \union RequestSet]
    /\ late \subseteq Clients
    /\ \A t \in Clients : pc[t] = "idle" <=> req[t] = NoRequest
    /\ received \in 0 .. MaxRequests
    /\ IsBook(ob)
    /\ mu \in {"free", "stuck"}
    /\ nextID \in Nat /\ added \in Nat /\ run \in Nat
    /\ stops \in Seq(Put)
    /\ accepted \in [Users \X Sides -> Nat]

FromSlice == [k \in Keys |-> IF k[2] = "market" THEN NoAccount ELSE Loaded(Funds, 0)]

NoBook == [bids |-> <<>>, asks |-> <<>>, orders |-> <<>>]

RpcInit ==
    /\ Init
    /\ serving \in BOOLEAN /\ guarded \in BOOLEAN /\ faulty \in BOOLEAN
    /\ serving => balances = FromSlice
    /\ ~serving => ~guarded /\ ~faulty
    /\ pc = [t \in Clients |-> "idle"] /\ req = [t \in Clients |-> NoRequest]
    /\ late = {} /\ received = 0
    /\ ob \in IF serving THEN Books ELSE {NoBook}
    /\ mu = "free" /\ nextID = 0
    /\ stops = <<>> /\ added = 0 /\ run = 0
    /\ marks = {}
    /\ accepted = [k \in Users \X Sides |-> 0]

-----------------------------------------------------------------------------
(* Goroutines *)

At(t, place) == pc[t] = place
Goto(t, place) == pc' = [pc EXCEPT ![t] = place] /\ UNCHANGED <<req, late, received>>
Answer(t) == /\ pc' = [pc EXCEPT ![t] = "idle"]
             /\ req' = [req EXCEPT ![t] = NoRequest]
             /\ late' = late \ {t}
             /\ UNCHANGED received

First == [limit |-> "hold", market |-> "price", stop |-> "stop", cancel |-> "find", update |-> "check"]

\* readPkg and dispatch.
Receive(t, r) ==
    /\ serving /\ At(t, "idle")
    /\ received < MaxRequests /\ received' = received + 1
    /\ pc' = [pc EXCEPT ![t] = First[r.kind]]
    /\ req' = [req EXCEPT ![t] = r]
    /\ late' = IF r.kind = "update" /\ r.id \in marks THEN late \union {t} ELSE late
    /\ UNCHANGED <<vars, server, engineVars, marks, accepted>>

-----------------------------------------------------------------------------
(* HandleOrderPutLimit and HandleOrderPutMarket *)

Other(side) == IF side = "bid" THEN "ask" ELSE "bid"

\* A market order takes the price of the first order of the other heap.
FindsPrice(t) ==
    /\ At(t, "price") /\ mu = "free"
    /\ IF Heap(ob, Other(req[t].side)) = <<>>
       THEN Answer(t)
       ELSE /\ pc' = [pc EXCEPT ![t] = "hold"]
            /\ req' = [req EXCEPT ![t].price = BestPrice(ob, Other(req[t].side))]
            /\ UNCHANGED <<late, received>>
    /\ UNCHANGED <<vars, server, engineVars, marks, accepted>>

\* LockBalance in the account of the market, and NextID.
HoldsInMarket(t) ==
    /\ At(t, "hold")
    /\ FreezeCall(MarketKey(req[t]), Cost(req[t]))
    /\ IF CanFreeze(balances, MarketKey(req[t]), Cost(req[t]))
       THEN Goto(t, "process") /\ nextID' = nextID + 1
       ELSE Answer(t) /\ UNCHANGED nextID
    /\ UNCHANGED <<server, ob, mu, stops, added, run, marks, accepted>>

\* matchAsTaker gets as far as a trade: a limit order has to reach the first
\* order's price.
Trades(kind, side, price) ==
    LET makers == Heap(ob, Other(side))
    IN  makers # <<>> /\ \/ kind = "market"
                         \/ side = "bid" /\ Head(makers).price <= price
                         \/ side = "ask" /\ Head(makers).price >= price

\* ProcessOrder: refused, over without a trade, or stuck in the first.
Processes(t) ==
    /\ At(t, "process") /\ mu = "free"
    /\ FreezeCall(PaysWith(req[t]), Cost(req[t]))
    /\ IF ~CanFreeze(balances, PaysWith(req[t]), Cost(req[t]))
       THEN Goto(t, "undo") /\ UNCHANGED mu
       ELSE IF Trades(req[t].kind, req[t].side, req[t].price)
       THEN Goto(t, "hung") /\ mu' = "stuck"
       ELSE Goto(t, "settle") /\ UNCHANGED mu
    /\ UNCHANGED <<server, ob, nextID, stops, added, run, marks, accepted>>

\* A refusal gives the market's hold back.
\* Mutant: it does not.
UndoesNothing(t) ==
    /\ At(t, "undo")
    /\ Answer(t)
    /\ UNCHANGED <<vars, server, engineVars, marks, accepted>>
Undoes(t) ==
    /\ At(t, "undo")
    /\ UnfreezeCall(MarketKey(req[t]), Cost(req[t]))
    /\ Answer(t)
    /\ UNCHANGED <<server, engineVars, marks, accepted>>

\* What is left of the order counts as spent: of an order that did not trade the
\* market's hold gives back nothing.
Settles(t) ==
    /\ At(t, "settle")
    /\ UnfreezeCall(MarketKey(req[t]), Cost(req[t]) - Cost(req[t]))
    /\ accepted' = [accepted EXCEPT ![<<req[t].user, req[t].side>>] = @ + Cost(req[t])]
    /\ Answer(t)
    /\ UNCHANGED <<server, engineVars, marks>>

-----------------------------------------------------------------------------
(* HandleOrderCancel *)

Finds(t) == OrderDetail(ob, req[t].order) # {}
Owns(t) == \E o \in OrderDetail(ob, req[t].order) : o.user = req[t].user

FindsOrder(t) ==
    /\ At(t, "find") /\ mu = "free"
    /\ IF Finds(t) /\ Owns(t) THEN Goto(t, "cancel") ELSE Answer(t)
    /\ UNCHANGED <<vars, server, engineVars, marks, accepted>>

\* CancelOrder takes the order out of the map and is stuck; with the name of
\* another market it does nothing and has no error.
Cancels(t) ==
    /\ At(t, "cancel") /\ mu = "free"
    /\ IF req[t].here
       THEN /\ ob' = [ob EXCEPT !.orders = [i \in DOMAIN @ \ {req[t].order} |-> @[i]]]
            /\ mu' = "stuck" /\ Goto(t, "hung")
       ELSE Goto(t, "again") /\ UNCHANGED <<ob, mu>>
    /\ UNCHANGED <<vars, server, nextID, stops, added, run, marks, accepted>>

\* The second GetOrder, whose order is the answer.
FindsAgain(t) ==
    /\ At(t, "again") /\ mu = "free"
    /\ Answer(t)
    /\ UNCHANGED <<vars, server, engineVars, marks, accepted>>

-----------------------------------------------------------------------------
(* Stop orders *)

\* HandleOrderPutStop: no funds are looked at, and the order has no id yet.
AddsStop(t) ==
    /\ At(t, "stop") /\ mu = "free"
    /\ stops' = Append(stops, [kind |-> "stop", user |-> req[t].user, side |-> req[t].side,
                               price |-> req[t].price, amount |-> req[t].amount])
    /\ added' = added + 1
    /\ Answer(t)
    /\ UNCHANGED <<vars, server, ob, mu, nextID, run, marks, accepted>>

\* A pass over a list: those of its orders that are among these, in their order.
Chosen(s, these) ==
    LET chosen[n \in 0 .. Len(s)] ==
            IF n = 0 THEN <<>>
            ELSE IF s[n] \in these THEN Append(chosen[n - 1], s[n]) ELSE chosen[n - 1]
    IN  chosen[Len(s)]

\* CheckStopOrders: a bid waits for the price to fall, an ask for it to rise.
Triggers(s, last) == IF s.side = "bid" THEN last <= s.price ELSE last >= s.price

\* ProcessTriggeredStopOrders, from the ticker, with the price of some order of
\* the map: each gets an id and is matched like a limit order, with no funds frozen.
\* The first that trades is stuck, and the ones behind it are off the list.
ProcessesStops(last) ==
    LET due == {s \in Range(stops) : Triggers(s, last)}
        triggered == Chosen(stops, due)
        trading == {i \in DOMAIN triggered : Trades("stop", triggered[i].side, triggered[i].price)}
        matched == IF trading = {} THEN Len(triggered) ELSE Min(trading)
    IN  /\ mu = "free" /\ triggered # <<>>
        /\ stops' = Chosen(stops, Range(stops) \ due)
        /\ run' = run + matched /\ nextID' = nextID + matched
        /\ mu' = IF trading = {} THEN "free" ELSE "stuck"
        /\ UNCHANGED <<vars, server, pc, req, late, received, ob, added, marks, accepted>>
Cron == serving /\ \E o \in Listed(ob) : ProcessesStops(o.price)

-----------------------------------------------------------------------------
(* HandleBalanceUpdate *)

\* UpdateBalance, if there is an UpdateManager: Exists ...
\* Mutant: the id is not looked up.
ChecksNothing(t) ==
    /\ At(t, "check")
    /\ Goto(t, "mark")
    /\ UNCHANGED <<vars, server, engineVars, marks, accepted>>
Checks(t) ==
    /\ At(t, "check")
    /\ \/ ~guarded /\ Goto(t, "change")
       \/ guarded /\ req[t].id \notin marks /\ Goto(t, "mark")
       \/ guarded /\ (req[t].id \in marks \/ faulty) /\ Answer(t)
    /\ UNCHANGED <<vars, server, engineVars, marks, accepted>>

\* ... and Set, which may fail before or after it took effect.
Marks(t) ==
    /\ At(t, "mark")
    /\ \/ marks' = marks \union {req[t].id} /\ Goto(t, "change")
       \/ faulty /\ marks' \in {marks, marks \union {req[t].id}} /\ Answer(t)
    /\ UNCHANGED <<vars, server, engineVars, accepted>>

\* The change, by its sign; the answer is "balance not enough" where Sub refuses.
Changes(t) ==
    /\ At(t, "change")
    /\ LET k == <<req[t].user, req[t].asset>>
       IN  \/ req[t].change > 0 /\ AddCall(k, req[t].change)
           \/ req[t].change < 0 /\ SubCall(k, -req[t].change)
    /\ Answer(t)
    /\ UNCHANGED <<server, engineVars, marks, accepted>>

-----------------------------------------------------------------------------
Handle(t) == \/ FindsPrice(t) \/ HoldsInMarket(t) \/ Processes(t) \/ Undoes(t) \/ Settles(t)
             \/ FindsOrder(t) \/ Cancels(t) \/ FindsAgain(t) \/ AddsStop(t)
             \/ Checks(t) \/ Marks(t) \/ Changes(t)
CallsOnly == /\ ~serving
             /\ Next
             /\ UNCHANGED <<server, pc, req, late, received, engineVars, marks, accepted>>
RpcNext == \/ \E t \in Clients, r \in Requests : Receive(t, r)
           \/ \E t \in Clients : Handle(t)
           \/ Cron
           \/ CallsOnly
RpcSpec == RpcInit /\ [][RpcNext]_rpcVars

-----------------------------------------------------------------------------
\* Whatever interleaves with whatever, an order that is refused leaves nothing
\* frozen, and one that is accepted keeps its cost frozen twice: in the account it
\* pays with and in the one named like the market.  Stop orders, triggered or not,
\* have nothing frozen.
Share(t, u, side, places) ==
    IF /\ pc[t] \in places /\ req[t].kind \in {"limit", "market"}
       /\ req[t].user = u /\ req[t].side = side
    THEN Cost(req[t]) ELSE 0
Working(u, side, places) ==
    SumFunctionOnSet([t \in Clients |-> Share(t, u, side, places)], Clients)
OnMarket == {"process", "undo", "settle", "hung"}
OnAsset == {"settle", "hung"}
HeldTwice ==
    serving => \A u \in Users :
        /\ balances[<<u, "market">>].frozen =
              accepted[<<u, "bid">>] + Working(u, "bid", OnMarket)
                  + accepted[<<u, "ask">>] + Working(u, "ask", OnMarket)
        /\ \A s \in Sides :
              balances[PaysWith([user |-> u, side |-> s])].frozen =
                  accepted[<<u, s>>] + Working(u, s, OnAsset)

\* A stop order waits or was matched, once, as long as the engine is not stuck.
StopsRunOnce == mu = "free" => added = Len(stops) + run

\* Orders and stop orders are accounted for: what is frozen is what was accepted,
\* and no stop order is lost or runs twice.
OrdersAccounted == HeldTwice /\ StopsRunOnce

\* An update that came in when its id was already marked never changes a balance,
\* whatever became of the update that left the mark.  (Two that overlap may both.)
MarkedStaysOut == guarded => ~\E t \in late : pc[t] = "change"

\* As long as the engine answers, its queries agree: the users' orders, the pages
\* of both sides, the depth at any interval, the market's status and its summary
\* speak of the same orders, and each order of a listing has its detail ...
BookAnswersAgree ==
    LET status == MarketStatus(ob)
        pages(side, n) == OrderBookPage(ob, side, 0, n).records
                             \o OrderBookPage(ob, side, n, MaxPage - n).records
        filled(side) == MapThenSumSet(LAMBDA i : pages(side, 1)[i].left, DOMAIN pages(side, 1))
        depth(side, n) == MapThenSumSet(LAMBDA p : Depth(ob, side, n)[p],
                                        DOMAIN Depth(ob, side, n))
    IN  /\ MapThenSumSet(LAMBDA u : (CHOOSE a \in OrderQuery(ob, u, 0, 1) : TRUE).total, Users)
              = status.orderCount
        /\ status.bidCount + status.askCount = status.orderCount
        /\ \A side \in Sides, n \in 0 .. MaxPage :
              /\ Len(pages(side, n)) = OrderBookPage(ob, side, 0, 1).total
              /\ {pages(side, n)[i] : i \in DOMAIN pages(side, n)} =
                    {OrderInfo(o) : o \in LiveOf(ob, side)}
              /\ depth(side, n) = filled(side)
        /\ \A u \in Users, n \in 0 .. 1 : \A a \in OrderQuery(ob, u, n, 1) :
              \A i \in DOMAIN a.records : OrderDetail(ob, a.records[i].id) = {a.records[i]}
        /\ LET summary == MarketSummary(ob)
           IN  /\ summary.buyOrderCount = status.bidCount
               /\ summary.sellOrderCount = status.askCount
               /\ summary.bidAmount + summary.askAmount <= filled("bid") + filled("ask")

\* ... nothing that asks for finished orders or their deals is answered with any,
\* as an order leaves the map when it is over ...
NoHistoryInBook ==
    /\ \A i \in DOMAIN ob.orders : OrderDetailFinished(ob, i) = {}
    /\ \A u \in Users : \A a \in OrderHistory(ob, u, 0, MaxPage)
                                 \union MarketUserDeals(ob, u, 0, MaxPage) : a.total = 0
    /\ MarketLast(ob) = {}
    /\ MarketStatusToday(ob).tradeCount = 0 /\ MarketSummary(ob).volume = 0

\* ... an asset's summary owns what its accounts own, and the two forms of
\* balance.query differ by what is frozen.
BalanceAnswersAgree ==
    \A asset \in {"money", "stock", "market"} :
        LET all(u) == BalanceQueryAll(balances, u, asset)
        IN  /\ AssetSummary(balances, asset).total =
                  MapThenSumSet(LAMBDA u : all(u).available + all(u).freeze, Users)
            /\ \A u \in Users :
                  BalanceQuery(balances, u, asset).available + all(u).freeze = all(u).available

\* All of them, until the engine is stuck: a query may then see half a cancellation.
AnswersAgree == mu = "free" => BookAnswersAgree /\ NoHistoryInBook /\ BalanceAnswersAgree
=============================================================================
