------------------------------ MODULE Matching ------------------------------
(***************************************************************************)
(* Matching and settlement of one market (engine/matching.go), one step    *)
(* per trade.  The driver is the recovery path, which runs alone: the      *)
(* orders of the last slice are loaded, then OperLogReplayHandler replays  *)
(* order creations (PutOrderNoLock) and cancellations.  Stop orders are    *)
(* not persisted, so CheckStopOrders finds none here.                      *)
(*                                                                         *)
(* Amounts count lots of 10^-16, the precision decimal.Div rounds to.  A   *)
(* price of p stands for p/TickDen money per stock, and balances count     *)
(* 1/(FeeDen * TickDen) of a lot, in which costs and fees are whole.       *)
(***************************************************************************)
EXTENDS Balances, Sequences, FiniteSets, Functions

CONSTANTS Users,
          Types,         \* the order types in play: "limit", "market"
          Prices, TickDen,
          FeeDen,        \* MakerFeeRate is 1/FeeDen (1000 in the code)
          Amounts,       \* amounts of orders, in lots
          MaxLoaded,     \* bound of the model on the orders in the slice
          MaxOrders,     \* bound of the model on all orders
          StartTables    \* balance tables the slice may hold

Ids == 1 .. MaxOrders
Sides == {"bid", "ask"}
Assets == {"money", "stock"}
Keys == Users \X Assets
Statuses == {"Pending", "Partial", "Finished", "Canceled"}
Active == {"Pending", "Partial"}

ASSUME ScaleAssumption == TickDen \in Nat \ {0} /\ FeeDen \in Nat \ {0}
ASSUME BoundsAssumption == MaxLoaded \in Nat /\ MaxOrders \in Nat /\ MaxLoaded <= MaxOrders
ASSUME AmountsAssumption == Amounts \subseteq Nat \ {0}
ASSUME TypesAssumption == Types \subseteq {"limit", "market"}
\* A maker's proceeds cover its fee: the price is at least MakerFeeRate.
ASSUME PricesAssumption == /\ Prices \subseteq Nat \ {0}
                           /\ \A p \in Prices : p * FeeDen >= TickDen
\* price * amount is a whole number of lots.
ASSUME LotsAssumption == \A p \in Prices, a \in Amounts : (p * a) % TickDen = 0
\* A key that the map does not hold reads as an empty account.
ASSUME TablesAssumption ==
    /\ StartTables \subseteq [Keys -> [known: BOOLEAN, available: Nat, frozen: Nat]]
    /\ \A table \in StartTables : \A k \in Keys : ~table[k].known => table[k] = NoAccount
ASSUME UsersAssumption == IsFiniteSet(Users)

VARIABLES orders,      \* every order that came in, by id
          queued,      \* how often each order is in the heap of its side
          book,        \* ids in ob.orders
          index,       \* ids in e.orderIndex and e.userOrders
          balances,    \* e.balances
          traded,      \* the sum of the amounts in e.orderTrades[id]
          taking,      \* the order that matchAsTaker works on, 0 for none
          deal         \* the last trade, as producers get it
vars == <<orders, queued, book, index, balances, traded, taking, deal>>

Order == [user: Users, side: Sides, type: {"limit", "market"}, price: Prices,
          amount: Amounts, left: Int, entered: Nat, status: Statuses]
\* A trade keeps the last bit of its id, so that two rounds never look the same.
Deal == [bit: {0, 1}, taker: Ids, maker: Ids, price: Prices, amount: Int]
NoDeal == [bit |-> 0, taker |-> 0, maker |-> 0, price |-> 0, amount |-> 0]

\* Book, fills and balances are well typed.
TypeOK == /\ orders \in Seq(Order) /\ Len(orders) <= MaxOrders
          /\ queued \in [Ids -> Nat]
          /\ book \subseteq DOMAIN orders /\ index \subseteq DOMAIN orders
          /\ balances \in [Keys -> Account]
          /\ traded \in [Ids -> Int]
          /\ taking \in {0} \union DOMAIN orders
          /\ deal \in Deal \union {NoDeal}

\* LoadOrdersToEngine puts the active orders of the slice in the book, and not in
\* the index; LoadBalancesToEngine sets the balances.  An order of the slice still
\* has something left: only such orders stay in ob.orders.
LoadedOrder == {o \in [user: Users, side: Sides, type: {"limit"}, price: Prices,
                       amount: Amounts, left: Amounts, entered: Amounts, status: {"Partial"}] :
                   o.left <= o.amount /\ o.entered = o.left}
Init == /\ \E n \in 0 .. MaxLoaded : orders \in [1 .. n -> LoadedOrder]
        /\ queued = [i \in Ids |-> IF i \in DOMAIN orders THEN 1 ELSE 0]
        /\ book = DOMAIN orders
        /\ index = {}
        /\ balances \in StartTables
        /\ traded = [i \in Ids |-> 0]
        /\ taking = 0
        /\ deal = NoDeal

-----------------------------------------------------------------------------
IsMarketBid(o) == o.type = "market" /\ o.side = "bid"

\* decimal.Div: the quotient rounded to a whole lot, half away from zero.
DivRound(left, price) == (2 * left * TickDen + price) \div (2 * price)

\* makerQueue.Orders[0]: the first of the other side has the highest price, the
\* best bid but the worst ask; module OrderBook shows that the heap is such a bag.
OtherSide(o) == {m \in DOMAIN orders : queued[m] > 0 /\ orders[m].side # o.side}
Makers(o) == {m \in OtherSide(o) :
                  \A n \in OtherSide(o) : orders[n].price <= orders[m].price}

\* matchAsTaker goes on while there is a maker, something is left, and the price
\* of a limit order allows the trade.
Crosses(o, m) == \/ o.type = "market"
                 \/ o.side = "bid" /\ orders[m].price <= o.price
                 \/ o.side = "ask" /\ orders[m].price >= o.price
CanTrade(o, m) == o.left > 0 /\ m \in Makers(o) /\ Crosses(o, m)

Lesser(a, b) == IF a < b THEN a ELSE b
\* Mutant: the maker's amount is not looked at.
TradeAmountOfTaker(o, m) == o.left
TradeAmount(o, m) ==
    IF IsMarketBid(o)
    THEN Lesser(DivRound(o.left, orders[m].price), orders[m].left)
    ELSE Lesser(o.left, orders[m].left)

\* A maker with nothing left after the trade is popped, once.
\* Mutant: a maker that is filled to the last lot stays.
UsedUpStrictly(m, amount) == orders[m].left < amount
UsedUp(m, amount) == orders[m].left <= amount
\* Mutant: popped by matchAsTaker and again on removal.
PopTwice(m) == [queued EXCEPT ![m] = @ - 2]
Pop(m) == [queued EXCEPT ![m] = @ - 1]

\* AddTradeToOrder for both orders.
AddTrade(t, m, amount) == [traded EXCEPT ![t] = @ + amount, ![m] = @ + amount]

\* settleTrade pays in one asset: what the taker gives leaves its available
\* balance, reaches the maker less the maker's fee, and the same amount of the
\* taker's frozen balance is released.  Errors of these calls are ignored.
Given(taker) == IF taker.side = "bid" THEN "money" ELSE "stock"
Fee(amount) == amount * TickDen
Settle(bal, taker, maker, price, amount) ==
    LET asset == Given(taker)
        cost == IF taker.side = "bid" THEN price * amount * FeeDen
                                      ELSE amount * FeeDen * TickDen
        paid == Sub(bal, <<taker.user, asset>>, cost)
        credited == Add(paid, <<maker.user, asset>>, cost - Fee(amount))
    IN  Unfreeze(credited, <<taker.user, asset>>, cost)

-----------------------------------------------------------------------------
\* HandleOrderCreate: the logged order enters matching.  A market order is logged
\* with Left = price * amount, a limit order with Left = amount.
Take(user, side, type, price, amount) ==
    /\ taking = 0
    /\ Len(orders) < MaxOrders
    /\ LET left == IF type = "market" THEN (price * amount) \div TickDen ELSE amount
       IN  orders' = Append(orders, [user |-> user, side |-> side, type |-> type,
                                     price |-> price, amount |-> amount, left |-> left,
                                     entered |-> left, status |-> "Pending"])
    /\ taking' = Len(orders')
    /\ UNCHANGED <<queued, book, index, balances, traded, deal>>

\* One round of matchAsTaker's loop, settlement included.  A maker that is
\* used up leaves the map and the index too.
Trade(m) ==
    /\ taking # 0
    /\ CanTrade(orders[taking], m)
    /\ LET t == orders[taking]
           amount == TradeAmount(t, m)
           filled == UsedUp(m, amount)
       IN  /\ orders' = [orders EXCEPT ![taking].left = @ - amount, ![m].left = @ - amount]
           /\ balances' = Settle(balances, t, orders[m], orders[m].price, amount)
           /\ traded' = AddTrade(taking, m, amount)
           /\ deal' = [bit |-> 1 - deal.bit, taker |-> taking, maker |-> m,
                       price |-> orders[m].price, amount |-> amount]
           /\ queued' = IF filled THEN Pop(m) ELSE queued
           /\ book' = IF filled THEN book \ {m} ELSE book
           /\ index' = IF filled THEN index \ {m} ELSE index
    /\ UNCHANGED taking

\* The rest of match and PutOrderNoLock: an order that traded in part is added by
\* both; any other is Finished and stays out, one that traded nothing included.
Finish ==
    /\ taking # 0
    /\ ~\E m \in DOMAIN orders : CanTrade(orders[taking], m)
    /\ LET t == orders[taking]
           rests == 0 < t.left /\ t.left < t.amount
       IN  /\ orders' = [orders EXCEPT ![taking].status =
                            IF rests THEN "Partial" ELSE "Finished"]
           /\ queued' = [queued EXCEPT ![taking] = IF rests THEN @ + 2 ELSE @]
           /\ book' = IF rests THEN book \union {taking} ELSE book
           /\ index' = IF rests THEN index \union {taking} ELSE index
    /\ taking' = 0
    /\ UNCHANGED <<balances, traded, deal>>

\* HandleOrderCancel of the replay: the map forgets the order, the heap does not.
Cancel(o) ==
    /\ taking = 0
    /\ o \in book
    /\ book' = book \ {o}
    /\ orders' = [orders EXCEPT ![o].status = "Canceled"]
    /\ UNCHANGED <<queued, index, balances, traded, taking, deal>>

Next == \/ \E u \in Users, s \in Sides, t \in Types, p \in Prices, a \in Amounts :
              Take(u, s, t, p, a)
        \/ \E m \in DOMAIN orders : Trade(m)
        \/ Finish
        \/ \E o \in DOMAIN orders : Cancel(o)

\* matchAsTaker is a loop of one goroutine: once entered, it runs on.
Fairness == WF_vars(Finish \/ \E m \in DOMAIN orders : Trade(m))
Spec == Init /\ [][Next]_vars
FairSpec == Spec /\ Fairness

-----------------------------------------------------------------------------
\* The map and the heap are changed by different calls in different orders, yet
\* an order of the map is always in its heap, active, and has something left, and
\* a heap entry the map does not know is cancelled or used up (ob.Remove, heap.Pop
\* and ob.Add in match, matchAsTaker, PutOrderNoLock and HandleOrderCancel).
BookAgreesWithHeap ==
    \A o \in DOMAIN orders :
        /\ o \in book => /\ queued[o] > 0
                         /\ orders[o].status \in Active
                         /\ orders[o].left > 0
        /\ queued[o] > 0 /\ o \notin book =>
              orders[o].status = "Canceled" \/ orders[o].left <= 0

\* The trade history explains what is left of every order, taker or maker, over
\* all rounds and duplicates: nothing is filled without a trade or twice.
FillsAccounted ==
    \A o \in DOMAIN orders : orders[o].left = orders[o].entered - traded[o]

\* A limit order is never over-filled, whichever side of how many trades it was on
\* and whatever market order it met.
NeverOverfilled ==
    \A o \in DOMAIN orders : orders[o].type = "limit" => orders[o].left \in 0 .. orders[o].amount

\* A trade never has a worse price than either order asked for, and never two
\* orders of one side.
DealRespectsLimits ==
    deal.taker # 0 =>
        LET t == orders[deal.taker]
            m == orders[deal.maker]
        IN  /\ t.side # m.side /\ deal.price = m.price
            /\ t.type = "limit" => IF t.side = "bid" THEN deal.price <= t.price
                                                     ELSE deal.price >= t.price

\* A fill is right in all three ways.
FillsAreRight == FillsAccounted /\ NeverOverfilled /\ DealRespectsLimits

\* What all users own of an asset.  A trade whose taker has the cost available
\* burns exactly the maker's fee of one asset; otherwise the cost is credited but
\* never paid, and that is the only way an asset grows.
Owned(asset) ==
    SumFunctionOnSet([u \in Users |-> balances[<<u, asset>>].available + balances[<<u, asset>>].frozen],
                     Users)
CoversCost(t, price, amount) ==
    IF t.side = "bid"
    THEN balances[<<t.user, "money">>].available >= price * amount * FeeDen
    ELSE balances[<<t.user, "stock">>].available >= amount * FeeDen * TickDen
BurnsTheFee ==
    \A m \in DOMAIN orders, given \in Assets :
        /\ Trade(m)
        /\ given = Given(orders[taking])
        /\ CoversCost(orders[taking], deal'.price, deal'.amount)
        => /\ Owned(given)' = Owned(given) - Fee(deal'.amount)
           /\ \A a \in Assets \ {given} : Owned(a)' = Owned(a)
NothingFromNowhere == [][BurnsTheFee]_vars

\* Matching a limit order comes to an end, whatever market orders rest in the book.
LimitMatchingEnds == taking # 0 /\ orders[taking].type = "limit" ~> taking = 0

=============================================================================
