----------------------------- MODULE RpcQueries -----------------------------
(***************************************************************************)
(* What the read-only handlers of the engine's RPC server answer           *)
(* (server/handler), as functions of an order book and of the balance      *)
(* table.  A book is a record: the map of live orders, by id, and the heap *)
(* array of each side.  GetOrders lists the map in Go's random order, so a *)
(* page of it is one of several.  Parameters are well formed: not negative *)
(* and of their type; a handler answers an error to any other.             *)
(***************************************************************************)
EXTENDS Integers, Sequences, FiniteSets

LOCAL INSTANCE SequencesExt
LOCAL INSTANCE FiniteSetsExt

CONSTANT MaxPage        \* the largest page (100 in the code)

ASSUME MaxPageAssumption == MaxPage \in Nat

BookOrder(users) == [id: Nat, user: users, side: {"bid", "ask"}, price: Nat, amount: Nat,
                     left: Nat, updated: BOOLEAN,
                     status: {"pending", "partial", "finished", "canceled"}]
Live(o) == o.status \in {"pending", "partial"}
Done(o) == o.status \in {"finished", "canceled"}

\* orderToInfo: "left" is what is filled, and "deal_stock" what is left.
OrderInfo(o) == [id |-> o.id, user |-> o.user, side |-> o.side, price |-> o.price,
                 amount |-> o.amount, left |-> o.amount - o.left, dealStock |-> o.left,
                 dealMoney |-> o.price * o.left, status |-> o.status]

Listed(ob) == {ob.orders[i] : i \in DOMAIN ob.orders}
Heap(ob, side) == IF side = "bid" THEN ob.bids ELSE ob.asks

Page(s, offset, limit) ==
    LET start == Min({offset, Len(s)})
        end == Min({start + Min({limit, MaxPage}), Len(s)})
    IN  SubSeq(s, start + 1, end)

\* The pages a listing of the map may give.
PagesOf(orders, offset, limit) ==
    {[total |-> Cardinality(orders), records |-> Page(s, offset, limit)] :
        s \in SetToSeqs({OrderInfo(o) : o \in orders})}

\* order.query: the user's orders that are not cancelled.
OrderQuery(ob, user, offset, limit) ==
    PagesOf({o \in Listed(ob) : o.user = user /\ o.status # "canceled"}, offset, limit)

\* order.history: the user's finished or cancelled orders, of those in the book.
OrderHistory(ob, user, offset, limit) ==
    PagesOf({o \in Listed(ob) : o.user = user /\ Done(o)}, offset, limit)

\* order.book: a page of the heap array, in its order.
OrderBookPage(ob, side, offset, limit) ==
    LET infos == [i \in DOMAIN Heap(ob, side) |-> OrderInfo(Heap(ob, side)[i])]
    IN  [total |-> Len(infos), records |-> Page(infos, offset, limit)]

\* getDepthWithInterval: prices are rounded up to the interval, on both sides, an
\* order counts with what is filled of it, and the limit is not looked at.
LevelOf(price, interval) ==
    IF interval = 0 THEN price ELSE ((price + interval - 1) \div interval) * interval
\* Mutant: one order stands for its level.
DepthOfOne(ob, side, interval) ==
    LET s == Heap(ob, side)
        levels == {LevelOf(s[i].price, interval) : i \in DOMAIN s}
    IN  [p \in levels |-> LET o == s[CHOOSE i \in DOMAIN s : LevelOf(s[i].price, interval) = p]
                          IN  o.amount - o.left]
Depth(ob, side, interval) ==
    LET s == Heap(ob, side)
        levels == {LevelOf(s[i].price, interval) : i \in DOMAIN s}
        at(p) == {i \in DOMAIN s : LevelOf(s[i].price, interval) = p}
    IN  [p \in levels |-> MapThenSumSet(LAMBDA i : s[i].amount - s[i].left, at(p))]

\* order.detail and order.detail_finished: null is the empty set.
OrderDetail(ob, id) == {OrderInfo(o) : o \in {x \in Listed(ob) : x.id = id}}
OrderDetailFinished(ob, id) == {OrderInfo(o) : o \in {x \in Listed(ob) : x.id = id /\ Done(x)}}

\* GetBestBid and GetBestAsk: the first of a heap, or none.
BestPrice(ob, side) == IF Heap(ob, side) = <<>> THEN 0 ELSE Head(Heap(ob, side)).price

\* market.status.
LiveOf(ob, side) == {o \in Listed(ob) : Live(o) /\ o.side = side}
MarketStatus(ob) ==
    [orderCount |-> Cardinality(Listed(ob)),
     pendingOrderCount |-> Cardinality({o \in Listed(ob) : Live(o)}),
     bidPrice |-> BestPrice(ob, "bid"), askPrice |-> BestPrice(ob, "ask"),
     bidCount |-> Cardinality(LiveOf(ob, "bid")), askCount |-> Cardinality(LiveOf(ob, "ask")),
     bidAmount |-> MapThenSumSet(LAMBDA o : o.left, LiveOf(ob, "bid")),
     askAmount |-> MapThenSumSet(LAMBDA o : o.left, LiveOf(ob, "ask"))]

\* market.status_today: from the finished orders of the book, of which there are
\* none unless an order leaves the map later than it finishes.
Finished(ob) == {o \in Listed(ob) : o.status = "finished"}
MarketStatusToday(ob) ==
    [tradeCount |-> Cardinality(Finished(ob)),
     volume |-> MapThenSumSet(LAMBDA o : o.left, Finished(ob)),
     deal |-> MapThenSumSet(LAMBDA o : o.price * o.left, Finished(ob)),
     bidPrice |-> BestPrice(ob, "bid"), askPrice |-> BestPrice(ob, "ask")]

\* market.summary.
BestFilled(ob, side) ==
    IF Heap(ob, side) = <<>> THEN 0 ELSE Head(Heap(ob, side)).amount - Head(Heap(ob, side)).left
MarketSummary(ob) ==
    [buyOrderCount |-> Cardinality(LiveOf(ob, "bid")),
     sellOrderCount |-> Cardinality(LiveOf(ob, "ask")),
     volume |-> MapThenSumSet(LAMBDA o : o.left, Finished(ob)),
     bidPrice |-> BestPrice(ob, "bid"), bidAmount |-> BestFilled(ob, "bid"),
     askPrice |-> BestPrice(ob, "ask"), askAmount |-> BestFilled(ob, "ask")]

\* market.last and market.user_deals: of the finished orders that were never
\* updated.  market.kline and market.deals answer an empty list.
MarketLast(ob) == {OrderInfo(o) : o \in {x \in Finished(ob) : ~x.updated}}
MarketUserDeals(ob, user, offset, limit) ==
    PagesOf({o \in Finished(ob) : o.user = user /\ ~o.updated}, offset, limit)

-----------------------------------------------------------------------------
(* Balances: bal is the table, by <<user, asset>> *)

\* balance.query without assets answers what is available; with them, what is
\* available less what is frozen.
BalanceQueryAll(bal, user, asset) ==
    [available |-> bal[<<user, asset>>].available, freeze |-> bal[<<user, asset>>].frozen]
BalanceQuery(bal, user, asset) ==
    [available |-> bal[<<user, asset>>].available - bal[<<user, asset>>].frozen,
     freeze |-> bal[<<user, asset>>].frozen]

\* asset.summary: an account with a hold is counted by its hold only.
AssetSummary(bal, asset) ==
    LET of == {k \in DOMAIN bal : k[2] = asset /\ bal[k].known}
        holding == {k \in of : bal[k].frozen # 0}
    IN  [total |-> MapThenSumSet(LAMBDA k : bal[k].available + bal[k].frozen, of),
         availableCount |-> Cardinality(of \ holding),
         available |-> MapThenSumSet(LAMBDA k : bal[k].available, of \ holding),
         freezeCount |-> Cardinality(holding),
         freeze |-> MapThenSumSet(LAMBDA k : bal[k].frozen, holding)]
=============================================================================
