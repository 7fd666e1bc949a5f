--------------------------- MODULE Matching_proofs ---------------------------
(***************************************************************************)
(* Proofs about matching and settlement, for any users, prices and amounts *)
(* and whatever book and balance table the slice holds.                    *)
(***************************************************************************)
EXTENDS Matching, SumTheorems, TLAPS

\* Nothing is known of an id before its order comes.
Fresh == \A i \in Ids \ DOMAIN orders : queued[i] = 0 /\ traded[i] = 0
\* The order that is being matched is not in the book yet, in neither of its parts.
TakerIsNew == taking # 0 => queued[taking] = 0 /\ taking \notin book
\* What the heap still holds of a used-up order has nothing left, and never less.
HeapHolds == \A o \in DOMAIN orders : queued[o] > 0 => orders[o].left >= 0
DealIsOfOrders == deal.taker # 0 => deal.taker \in DOMAIN orders /\ deal.maker \in DOMAIN orders
AbsentIsEmpty == \A k \in Keys : ~balances[k].known => balances[k] = NoAccount

\* The inductive invariant.
Shape == Fresh /\ TakerIsNew /\ HeapHolds /\ DealIsOfOrders
IInv == TypeOK /\ Shape /\ BookAgreesWithHeap /\ FillsAreRight /\ AbsentIsEmpty

-----------------------------------------------------------------------------
\* The ids that came in are the first ones.
LEMMA OrdersAreTyped ==
    ASSUME TypeOK
    PROVE  /\ Len(orders) \in Nat /\ DOMAIN orders = 1 .. Len(orders) /\ DOMAIN orders \subseteq Ids
           /\ orders \in [1 .. Len(orders) -> Order]
           /\ \A i \in DOMAIN orders : orders[i] \in Order
           /\ MaxOrders \in Nat /\ 0 \notin Ids
  BY BoundsAssumption DEF TypeOK, Ids

\* A function on 1 .. n is a sequence.
LEMMA FunctionIsSequence ==
    ASSUME NEW S, NEW n \in Nat, NEW s, s = [i \in 1 .. n |-> s[i]], \A i \in 1 .. n : s[i] \in S
    PROVE  s \in Seq(S) /\ Len(s) = n
  OBVIOUS

\* Prices and amounts are positive numbers of lots and ticks.
LEMMA PricesArePositive ==
    /\ \A p \in Prices : p \in Nat /\ p > 0
    /\ \A a \in Amounts : a \in Nat /\ a > 0
    /\ TickDen \in Nat /\ FeeDen \in Nat /\ TickDen > 0 /\ FeeDen > 0
  BY PricesAssumption, AmountsAssumption, ScaleAssumption

\* A quotient of lots that are not negative is not negative.
LEMMA QuotientIsNat ==
    ASSUME NEW a \in Nat, NEW b \in Nat, b > 0
    PROVE  a \div b \in Nat
  OBVIOUS

\* decimal.Div of what a bid has left by a price is a number of lots.
LEMMA DivRoundIsNat ==
    ASSUME NEW left \in Nat, NEW price \in Prices
    PROVE  DivRound(left, price) \in Nat
<1>1. price \in Nat /\ price > 0 /\ TickDen \in Nat
  BY PricesArePositive
<1>2. \A x, y \in Nat : x * y \in Nat
  OBVIOUS
<1>3. 2 * left * TickDen + price \in Nat /\ 2 * price \in Nat /\ 2 * price > 0
  BY <1>1, <1>2
<1> DEFINE a == 2 * left * TickDen + price
           b == 2 * price
<1>4. a \div b \in Nat
  <2> HIDE DEF a, b
  <2>1. a \in Nat /\ b \in Nat /\ b > 0
    BY <1>3 DEF a, b
  <2>2. QED BY <2>1, QuotientIsNat
<1>5. QED BY <1>4 DEF DivRound

\* A round trades no more than the maker has left, and no more than the taker has
\* left unless that is money; the two orders are different ones.
LEMMA TradeIsCovered ==
    ASSUME IInv, NEW m, taking # 0, CanTrade(orders[taking], m),
           NEW amount, amount = TradeAmount(orders[taking], m)
    PROVE  /\ taking \in DOMAIN orders /\ m \in DOMAIN orders /\ m # taking
           /\ orders[m].side # orders[taking].side
           /\ queued[m] > 0 /\ queued[m] \in Nat
           /\ amount \in Nat /\ amount <= orders[m].left
           /\ ~IsMarketBid(orders[taking]) => amount <= orders[taking].left
<1>1. taking \in DOMAIN orders
  BY DEF IInv, TypeOK
<1>2. m \in DOMAIN orders /\ queued[m] > 0 /\ orders[m].side # orders[taking].side
  BY DEF CanTrade, Makers, OtherSide
<1>3. orders[m] \in Order /\ orders[taking] \in Order /\ queued[m] \in Nat
  BY <1>1, <1>2, OrdersAreTyped DEF IInv, TypeOK
<1>4. orders[taking].left \in Nat /\ orders[m].left \in Nat
  <2>1. orders[taking].left > 0 /\ orders[m].left >= 0
    BY <1>2 DEF CanTrade, IInv, Shape, HeapHolds
  <2>2. QED BY <2>1, <1>3 DEF Order
<1>5. DivRound(orders[taking].left, orders[m].price) \in Nat
  BY <1>3, <1>4, DivRoundIsNat DEF Order
<1>6. \A a, b \in Nat : Lesser(a, b) \in Nat /\ Lesser(a, b) <= a /\ Lesser(a, b) <= b
  BY DEF Lesser
<1>7. /\ amount \in Nat /\ amount <= orders[m].left
      /\ ~IsMarketBid(orders[taking]) => amount <= orders[taking].left
  BY <1>4, <1>5, <1>6 DEF TradeAmount
<1>8. QED BY <1>1, <1>2, <1>3, <1>7

\* What a round leaves of the orders.
LEMMA TradeTakesFromBoth ==
    ASSUME IInv, NEW m, Trade(m),
           NEW amount, amount = TradeAmount(orders[taking], m)
    PROVE  /\ DOMAIN orders' = DOMAIN orders /\ Len(orders') = Len(orders)
           /\ \A i \in DOMAIN orders :
                 orders'[i] = IF i \in {taking, m}
                              THEN [orders[i] EXCEPT !.left = orders[i].left - amount]
                              ELSE orders[i]
           /\ orders' \in Seq(Order)
<1>1. /\ taking \in DOMAIN orders /\ m \in DOMAIN orders /\ m # taking /\ amount \in Nat
  BY TradeIsCovered DEF Trade
<1>2. orders' = [orders EXCEPT ![taking].left = @ - amount, ![m].left = @ - amount]
  BY DEF Trade
<1>3. /\ Len(orders) \in Nat /\ DOMAIN orders = 1 .. Len(orders)
      /\ \A i \in DOMAIN orders : orders[i] \in Order
  BY OrdersAreTyped DEF IInv
<1>4. DOMAIN orders' = DOMAIN orders
  BY <1>2
<1>5. \A i \in DOMAIN orders :
         orders'[i] = IF i \in {taking, m}
                      THEN [orders[i] EXCEPT !.left = orders[i].left - amount] ELSE orders[i]
  BY <1>1, <1>2
<1>6. ASSUME NEW i \in DOMAIN orders PROVE orders'[i] \in Order
  <2>1. orders[i] \in Order /\ orders[i].left - amount \in Int
    BY <1>1, <1>3 DEF Order
  <2>2. [orders[i] EXCEPT !.left = orders[i].left - amount] \in Order
    BY <2>1 DEF Order
  <2>3. QED BY <1>5, <2>1, <2>2
<1>7. orders' = [i \in 1 .. Len(orders) |-> orders'[i]]
  BY <1>2, <1>3, <1>4
<1>8. orders' \in Seq(Order) /\ Len(orders') = Len(orders)
  BY <1>3, <1>6, <1>7, FunctionIsSequence
<1>9. QED BY <1>4, <1>5, <1>8

\* A taken order gets the next id and changes no other.
LEMMA TakeAppends ==
    ASSUME TypeOK, NEW u \in Users, NEW s \in Sides, NEW t \in Types, NEW p \in Prices,
           NEW a \in Amounts, Take(u, s, t, p, a)
    PROVE  /\ taking' = Len(orders) + 1 /\ taking' \in Ids /\ taking' \notin DOMAIN orders
           /\ DOMAIN orders' = DOMAIN orders \union {taking'}
           /\ \A i \in DOMAIN orders : orders'[i] = orders[i]
           /\ orders'[taking'] \in Order /\ orders' \in Seq(Order) /\ Len(orders') <= MaxOrders
           /\ orders'[taking'].left = orders'[taking'].entered
           /\ orders'[taking'].type = "limit" => orders'[taking'].left \in 0 .. orders'[taking'].amount
<1> DEFINE left == IF t = "market" THEN (p * a) \div TickDen ELSE a
           o == [user |-> u, side |-> s, type |-> t, price |-> p,
                 amount |-> a, left |-> left, entered |-> left, status |-> "Pending"]
<1>1. left \in Nat
  <2>1. p * a \in Nat /\ a \in Nat
    BY PricesArePositive
  <2>2. (p * a) \div TickDen \in Nat
    BY <2>1, QuotientIsNat, PricesArePositive
  <2>3. QED BY <2>1, <2>2
<1>2. o \in Order
  <2> HIDE DEF left
  <2>1. QED BY <1>1, TypesAssumption DEF Order, Sides, Statuses
<1>3. Len(orders) \in Nat /\ DOMAIN orders = 1 .. Len(orders) /\ Len(orders) < MaxOrders
      /\ orders \in Seq(Order) /\ MaxOrders \in Nat
  BY OrdersAreTyped DEF Take, TypeOK
<1>4. orders' = Append(orders, o) /\ taking' = Len(orders')
  BY DEF Take
<1>5. o.left = o.entered /\ (o.type = "limit" => o.left \in 0 .. o.amount)
  BY PricesArePositive
<1> HIDE DEF o
<1>6. QED BY <1>2, <1>3, <1>4, <1>5 DEF Ids

\* A change of one order's status changes nothing else of it.
LEMMA StatusOnly ==
    ASSUME TypeOK, NEW o \in DOMAIN orders, NEW status \in Statuses,
           orders' = [orders EXCEPT ![o].status = status]
    PROVE  /\ DOMAIN orders' = DOMAIN orders /\ orders' \in Seq(Order)
           /\ Len(orders') = Len(orders)
           /\ \A i \in DOMAIN orders : i # o => orders'[i] = orders[i]
           /\ orders'[o] = [orders[o] EXCEPT !.status = status]
<1>1. /\ Len(orders) \in Nat /\ DOMAIN orders = 1 .. Len(orders)
      /\ \A i \in DOMAIN orders : orders[i] \in Order
  BY OrdersAreTyped
<1>2. DOMAIN orders' = DOMAIN orders
  OBVIOUS
<1>3. /\ \A i \in DOMAIN orders : i # o => orders'[i] = orders[i]
      /\ orders'[o] = [orders[o] EXCEPT !.status = status]
  OBVIOUS
<1>4. \A i \in DOMAIN orders : orders'[i] \in Order
  BY <1>1, <1>3 DEF Order
<1>5. orders' = [i \in 1 .. Len(orders) |-> orders'[i]]
  BY <1>1, <1>2
<1>6. orders' \in Seq(Order) /\ Len(orders') = Len(orders)
  <2> DEFINE n == Len(orders)
             new == orders'
  <2>1. n \in Nat /\ new = [i \in 1 .. n |-> new[i]] /\ \A i \in 1 .. n : new[i] \in Order
    BY <1>1, <1>4, <1>5
  <2> HIDE DEF n, new
  <2>2. new \in Seq(Order) /\ Len(new) = n
    BY <2>1, FunctionIsSequence
  <2>3. QED BY <2>2 DEF n, new
<1>7. QED BY <1>2, <1>3, <1>6

-----------------------------------------------------------------------------
\* The orders of the slice fill a heap and a book that agree.
LEMMA InitHolds == Init => IInv
<1> SUFFICES ASSUME Init PROVE IInv
  OBVIOUS
<1>1. PICK n \in 0 .. MaxLoaded : orders \in [1 .. n -> LoadedOrder]
  BY DEF Init
<1>2. n \in Nat /\ MaxOrders \in Nat /\ n <= MaxOrders
  BY BoundsAssumption
<1>3. \A o \in LoadedOrder : /\ o \in Order /\ o.left > 0 /\ o.left \in 0 .. o.amount
                             /\ o.status = "Partial" /\ o.left = o.entered
  <2> SUFFICES ASSUME NEW o \in LoadedOrder
               PROVE  /\ o \in Order /\ o.left > 0 /\ o.left \in 0 .. o.amount
                      /\ o.status = "Partial" /\ o.left = o.entered
    OBVIOUS
  <2>1. o.left \in Nat /\ o.left > 0 /\ o.amount \in Nat /\ o.left <= o.amount /\ o.entered = o.left
    BY PricesArePositive DEF LoadedOrder
  <2>2. QED BY <2>1 DEF LoadedOrder, Order, Statuses
<1>4. orders \in Seq(Order) /\ Len(orders) = n /\ DOMAIN orders = 1 .. n
  <2>1. orders = [i \in 1 .. n |-> orders[i]] /\ \A i \in 1 .. n : orders[i] \in Order
    BY <1>1, <1>3
  <2>2. QED BY <1>1, <1>2, <2>1, FunctionIsSequence
<1>5. \A k \in Keys : balances[k] \in Account /\ (~balances[k].known => balances[k] = NoAccount)
  BY TablesAssumption DEF Init, Account
<1>6. TypeOK
  <2>1. balances \in [Keys -> Account]
    BY <1>5, TablesAssumption DEF Init
  <2>2. queued \in [Ids -> Nat] /\ traded \in [Ids -> Int]
    BY DEF Init
  <2>3. QED BY <1>2, <1>4, <2>1, <2>2 DEF Init, TypeOK
<1>7. Shape
  BY <1>1, <1>3, <1>4 DEF Init, Shape, Fresh, TakerIsNew, HeapHolds, DealIsOfOrders, NoDeal, Ids
<1>8. BookAgreesWithHeap
  BY <1>1, <1>2, <1>3, <1>4 DEF Init, BookAgreesWithHeap, Active, Ids
<1>9. FillsAreRight
  <2>1. \A o \in DOMAIN orders : orders[o].left = orders[o].entered - traded[o]
    BY <1>1, <1>2, <1>3, <1>4 DEF Init, Ids, Order
  <2>2. \A o \in DOMAIN orders : orders[o].left \in 0 .. orders[o].amount
    BY <1>1, <1>3, <1>4
  <2>3. deal.taker = 0
    BY DEF Init, NoDeal
  <2>4. QED BY <2>1, <2>2, <2>3 DEF FillsAreRight, FillsAccounted, NeverOverfilled, DealRespectsLimits
<1>10. QED BY <1>5, <1>6, <1>7, <1>8, <1>9 DEF IInv, AbsentIsEmpty

\* The next order: it is in no heap, and has left what it came in with.
LEMMA TakeKeeps ==
    ASSUME IInv, NEW u \in Users, NEW s \in Sides, NEW t \in Types, NEW p \in Prices,
           NEW a \in Amounts, Take(u, s, t, p, a)
    PROVE  IInv'
<1> DEFINE n == taking'
<1>1. /\ n \in Ids /\ n \notin DOMAIN orders /\ DOMAIN orders' = DOMAIN orders \union {n}
      /\ \A i \in DOMAIN orders : orders'[i] = orders[i]
      /\ orders'[n] \in Order /\ orders' \in Seq(Order) /\ Len(orders') <= MaxOrders
      /\ orders'[n].left = orders'[n].entered
      /\ orders'[n].type = "limit" => orders'[n].left \in 0 .. orders'[n].amount
  BY TakeAppends DEF IInv
<1>2. UNCHANGED <<queued, book, index, balances, traded, deal>>
  BY DEF Take
<1>3. queued[n] = 0 /\ traded[n] = 0 /\ n \notin book
  BY <1>1 DEF IInv, Shape, Fresh, TypeOK
<1> HIDE DEF n
<1>4. TypeOK'
  BY <1>1, <1>2 DEF IInv, TypeOK, n
<1>5. Shape'
  <2>1. Fresh' /\ TakerIsNew'
    BY <1>1, <1>2, <1>3 DEF IInv, Shape, Fresh, TakerIsNew, n
  <2>2. HeapHolds' /\ DealIsOfOrders'
    BY <1>1, <1>2, <1>3 DEF IInv, Shape, HeapHolds, DealIsOfOrders
  <2>3. QED BY <2>1, <2>2 DEF Shape
<1>6. BookAgreesWithHeap'
  BY <1>1, <1>2, <1>3 DEF IInv, BookAgreesWithHeap
<1>7. FillsAreRight'
  <2>1. FillsAccounted'
    <3>1. orders'[n].left = orders'[n].entered - traded'[n]
      BY <1>1, <1>2, <1>3 DEF Order
    <3>2. QED BY <1>1, <1>2, <3>1 DEF IInv, FillsAreRight, FillsAccounted
  <2>2. NeverOverfilled'
    BY <1>1 DEF IInv, FillsAreRight, NeverOverfilled
  <2>3. DealRespectsLimits'
    BY <1>1, <1>2 DEF IInv, Shape, DealIsOfOrders, FillsAreRight, DealRespectsLimits
  <2>4. QED BY <2>1, <2>2, <2>3 DEF FillsAreRight
<1>8. QED BY <1>2, <1>4, <1>5, <1>6, <1>7 DEF IInv, AbsentIsEmpty

\* A finished order rests with something left, or stays out of the book.
LEMMA FinishKeeps == IInv /\ Finish => IInv'
<1> SUFFICES ASSUME IInv, Finish PROVE IInv'
  OBVIOUS
<1> DEFINE t == orders[taking]
           rests == 0 < t.left /\ t.left < t.amount
           status == IF rests THEN "Partial" ELSE "Finished"
<1>1. taking \in DOMAIN orders /\ taking \in Ids /\ t \in Order
  BY OrdersAreTyped DEF Finish, IInv, TypeOK
<1>2. status \in Statuses /\ (rests => status = "Partial")
  BY DEF Statuses
<1>3. /\ orders' = [orders EXCEPT ![taking].status = status]
      /\ queued' = [queued EXCEPT ![taking] = IF rests THEN @ + 2 ELSE @]
      /\ book' = IF rests THEN book \union {taking} ELSE book
      /\ index' = IF rests THEN index \union {taking} ELSE index
      /\ taking' = 0 /\ UNCHANGED <<balances, traded, deal>>
  BY DEF Finish
<1>4. queued[taking] = 0 /\ taking \notin book /\ queued \in [Ids -> Nat]
      /\ book \subseteq DOMAIN orders /\ index \subseteq DOMAIN orders
  BY DEF Finish, IInv, Shape, TakerIsNew, TypeOK
<1>5. rests => t.left > 0
  BY <1>1 DEF Order
<1> HIDE DEF rests, status
<1>6. /\ DOMAIN orders' = DOMAIN orders /\ orders' \in Seq(Order)
      /\ Len(orders') = Len(orders)
      /\ \A i \in DOMAIN orders : i # taking => orders'[i] = orders[i]
      /\ orders'[taking] = [orders[taking] EXCEPT !.status = status]
  BY <1>1, <1>2, <1>3, StatusOnly DEF IInv
<1>7. \A i \in DOMAIN orders :
         /\ orders'[i].left = orders[i].left /\ orders'[i].entered = orders[i].entered
         /\ orders'[i].amount = orders[i].amount /\ orders'[i].price = orders[i].price
         /\ orders'[i].side = orders[i].side /\ orders'[i].type = orders[i].type
  BY <1>1, <1>6, OrdersAreTyped DEF IInv, Order
<1>8. orders'[taking].status = status
  BY <1>1, <1>6 DEF Order
<1>9. /\ \A i \in Ids : i # taking => queued'[i] = queued[i]
      /\ queued'[taking] = IF rests THEN 2 ELSE 0
      /\ queued' \in [Ids -> Nat]
  BY <1>1, <1>3, <1>4
<1>10. TypeOK'
  <2>1. book' \subseteq DOMAIN orders' /\ index' \subseteq DOMAIN orders'
    BY <1>1, <1>3, <1>4, <1>6
  <2>2. QED BY <1>3, <1>6, <1>9, <2>1 DEF IInv, TypeOK
<1>11. Shape'
  <2>1. Fresh'
    BY <1>1, <1>3, <1>6, <1>9 DEF IInv, Shape, Fresh
  <2>2. ASSUME NEW o \in DOMAIN orders, queued'[o] > 0 PROVE orders'[o].left >= 0
    <3>1. CASE o = taking
      BY <1>1, <1>5, <1>7, <1>9, <2>2, <3>1 DEF Order
    <3>2. CASE o # taking
      <4>1. queued'[o] = queued[o] /\ orders'[o] = orders[o]
        BY <1>6, <1>9, <3>2, OrdersAreTyped DEF IInv
      <4>2. QED BY <2>2, <4>1 DEF IInv, Shape, HeapHolds
    <3>3. QED BY <3>1, <3>2
  <2>3. QED BY <1>3, <1>6, <2>1, <2>2 DEF IInv, Shape, TakerIsNew, HeapHolds, DealIsOfOrders
<1>12. BookAgreesWithHeap'
  <2> SUFFICES ASSUME NEW o \in DOMAIN orders'
               PROVE  /\ o \in book' => /\ queued'[o] > 0
                                        /\ orders'[o].status \in Active
                                        /\ orders'[o].left > 0
                      /\ queued'[o] > 0 /\ o \notin book' =>
                            orders'[o].status = "Canceled" \/ orders'[o].left <= 0
    BY DEF BookAgreesWithHeap
  <2>1. CASE o # taking
    <3>1. orders'[o] = orders[o] /\ queued'[o] = queued[o] /\ (o \in book' <=> o \in book)
      BY <1>3, <1>6, <1>9, <2>1, OrdersAreTyped DEF IInv
    <3>2. QED BY <1>6, <3>1 DEF IInv, BookAgreesWithHeap
  <2>2. CASE o = taking
    <3>1. CASE rests
      <4>1. orders'[o].left > 0 /\ o \in book'
        BY <1>1, <1>3, <1>5, <1>7, <2>2, <3>1
      <4>2. orders'[o].status \in Active /\ queued'[o] > 0
        BY <1>2, <1>8, <1>9, <2>2, <3>1 DEF Active
      <4>3. QED BY <4>1, <4>2
    <3>2. CASE ~rests
      BY <1>3, <1>4, <1>9, <2>2, <3>2
    <3>3. QED BY <3>1, <3>2
  <2>3. QED BY <2>1, <2>2
<1>13. FillsAreRight'
  <2>1. FillsAccounted' /\ NeverOverfilled'
    BY <1>3, <1>6, <1>7 DEF IInv, FillsAreRight, FillsAccounted, NeverOverfilled
  <2>2. DealRespectsLimits'
    BY <1>3, <1>7 DEF IInv, Shape, DealIsOfOrders, FillsAreRight, DealRespectsLimits
  <2>3. QED BY <2>1, <2>2 DEF FillsAreRight
<1>14. QED BY <1>3, <1>10, <1>11, <1>12, <1>13 DEF IInv, AbsentIsEmpty

\* A cancelled order leaves the map; the heap knows it as cancelled.
LEMMA CancelKeeps == ASSUME IInv, NEW o, Cancel(o) PROVE IInv'
<1>1. o \in DOMAIN orders /\ o \in book
  BY DEF Cancel, IInv, TypeOK
<1>2. /\ orders' = [orders EXCEPT ![o].status = "Canceled"] /\ book' = book \ {o}
      /\ taking = 0 /\ UNCHANGED <<queued, index, balances, traded, taking, deal>>
  BY DEF Cancel
<1>3. /\ DOMAIN orders' = DOMAIN orders /\ orders' \in Seq(Order)
      /\ Len(orders') = Len(orders)
      /\ \A i \in DOMAIN orders : i # o => orders'[i] = orders[i]
      /\ orders'[o] = [orders[o] EXCEPT !.status = "Canceled"]
  BY <1>1, <1>2, StatusOnly DEF IInv, Statuses
<1>4. \A i \in DOMAIN orders :
         /\ orders'[i].left = orders[i].left /\ orders'[i].entered = orders[i].entered
         /\ orders'[i].amount = orders[i].amount /\ orders'[i].price = orders[i].price
         /\ orders'[i].side = orders[i].side /\ orders'[i].type = orders[i].type
  BY <1>1, <1>3, OrdersAreTyped DEF IInv, Order
<1>5. orders'[o].status = "Canceled"
  BY <1>1, <1>3, OrdersAreTyped DEF IInv, Order
<1>6. TypeOK'
  BY <1>2, <1>3 DEF IInv, TypeOK
<1>7. Shape'
  BY <1>2, <1>3, <1>4 DEF IInv, Shape, Fresh, TakerIsNew, HeapHolds, DealIsOfOrders
<1>8. BookAgreesWithHeap'
  BY <1>2, <1>3, <1>5 DEF IInv, BookAgreesWithHeap
<1>9. FillsAreRight'
  <2>1. FillsAccounted' /\ NeverOverfilled'
    BY <1>2, <1>3, <1>4 DEF IInv, FillsAreRight, FillsAccounted, NeverOverfilled
  <2>2. DealRespectsLimits'
    BY <1>2, <1>4 DEF IInv, Shape, DealIsOfOrders, FillsAreRight, DealRespectsLimits
  <2>3. QED BY <2>1, <2>2 DEF FillsAreRight
<1>10. QED BY <1>2, <1>6, <1>7, <1>8, <1>9 DEF IInv, AbsentIsEmpty

-----------------------------------------------------------------------------
\* A table of accounts in which a key that is not there reads as zero.
WellFormed(bal) == bal \in [Keys -> Account] /\ \A k \in Keys : ~bal[k].known => bal[k] = NoAccount
Worth(bal, k) == bal[k].available + bal[k].frozen

\* Setting an account leaves the others as they are.
LEMMA SetKeepsAccounts ==
    ASSUME NEW bal, WellFormed(bal), NEW k \in Keys, NEW available \in Int, NEW frozen \in Int
    PROVE  LET op == SetBalance(bal, k, available, frozen)
           IN  WellFormed(op) /\ \A j \in Keys \ {k} : op[j] = bal[j]
  BY DEF SetBalance, Account, WellFormed

\* The three calls of a settlement keep the table well formed and change one key.
LEMMA CallsKeepAccounts ==
    ASSUME NEW bal, WellFormed(bal), NEW k \in Keys, NEW amount \in Int,
           NEW op \in {Sub(bal, k, amount), Add(bal, k, amount), Unfreeze(bal, k, amount)}
    PROVE  WellFormed(op) /\ \A j \in Keys \ {k} : op[j] = bal[j]
<1>1. bal[k].available \in Int /\ bal[k].frozen \in Int
  BY DEF WellFormed, Account
<1>2. /\ bal[k].available + amount \in Int /\ bal[k].available - amount \in Int
      /\ bal[k].frozen - amount \in Int
  BY <1>1
<1>3. \/ op = bal
      \/ op = SetBalance(bal, k, bal[k].available - amount, bal[k].frozen)
      \/ op = SetBalance(bal, k, bal[k].available + amount, bal[k].frozen)
      \/ op = SetBalance(bal, k, bal[k].available + amount, bal[k].frozen - amount)
  BY DEF Sub, Add, Unfreeze
<1>4. QED BY <1>1, <1>2, <1>3, SetKeepsAccounts

\* Sub takes what it can, Add adds, and Unfreeze moves within the account.
LEMMA CallsMoveWorth ==
    ASSUME NEW bal, WellFormed(bal), NEW k \in Keys, NEW amount \in Int
    PROVE  /\ bal[k].available >= amount /\ amount >= 0 =>
                 Worth(Sub(bal, k, amount), k) = Worth(bal, k) - amount
           /\ Worth(Add(bal, k, amount), k) = Worth(bal, k) + amount
           /\ Worth(Unfreeze(bal, k, amount), k) = Worth(bal, k)
<1> USE DEF SetBalance, Account, WellFormed, Worth
<1>1. bal[k].available >= amount /\ amount >= 0 => Worth(Sub(bal, k, amount), k) = Worth(bal, k) - amount
  BY DEF Sub, CanSub, NoAccount
<1>2. Worth(Add(bal, k, amount), k) = Worth(bal, k) + amount
  BY DEF Add
<1>3. Worth(Unfreeze(bal, k, amount), k) = Worth(bal, k)
  BY DEF Unfreeze, CanUnfreeze
<1>4. QED BY <1>1, <1>2, <1>3

\* What the taker of a round gives.
CostOf(t, price, amount) == IF t.side = "bid" THEN price * amount * FeeDen
                                              ELSE amount * FeeDen * TickDen

\* Costs and fees are whole numbers.
LEMMA CostsAreWhole ==
    ASSUME NEW t, NEW price \in Prices, NEW amount \in Nat
    PROVE  CostOf(t, price, amount) \in Nat /\ Fee(amount) \in Nat
<1>1. \A x, y \in Nat : x * y \in Nat
  OBVIOUS
<1>2. price \in Nat /\ FeeDen \in Nat /\ TickDen \in Nat
  BY PricesArePositive
<1>3. /\ price * amount \in Nat /\ (price * amount) * FeeDen \in Nat
      /\ amount * FeeDen \in Nat /\ (amount * FeeDen) * TickDen \in Nat /\ amount * TickDen \in Nat
  BY <1>1, <1>2
<1>4. QED BY <1>3 DEF CostOf, Fee

\* A settlement is the three calls, on two accounts of one asset.
LEMMA SettleIsThreeCalls ==
    ASSUME WellFormed(balances), NEW t, NEW m, t.user \in Users, m.user \in Users,
           NEW price \in Prices, NEW amount \in Nat
    PROVE  LET cost == CostOf(t, price, amount)
               from == <<t.user, Given(t)>>
               to == <<m.user, Given(t)>>
               paid == Sub(balances, from, cost)
               credited == Add(paid, to, cost - Fee(amount))
           IN  /\ Settle(balances, t, m, price, amount) = Unfreeze(credited, from, cost)
               /\ from \in Keys /\ to \in Keys /\ Given(t) \in Assets
               /\ WellFormed(paid) /\ \A j \in Keys \ {from} : paid[j] = balances[j]
               /\ WellFormed(credited) /\ \A j \in Keys \ {to} : credited[j] = paid[j]
               /\ WellFormed(Settle(balances, t, m, price, amount))
               /\ \A j \in Keys \ {from} :
                      Settle(balances, t, m, price, amount)[j] = credited[j]
<1> DEFINE cost == CostOf(t, price, amount)
           fee == Fee(amount)
           from == <<t.user, Given(t)>>
           to == <<m.user, Given(t)>>
           paid == Sub(balances, from, cost)
           credited == Add(paid, to, cost - fee)
           settled == Unfreeze(credited, from, cost)
<1>1. cost \in Int /\ cost - fee \in Int
  BY CostsAreWhole
<1>2. from \in Keys /\ to \in Keys /\ Given(t) \in Assets
  BY DEF Keys, Assets, Given
<1>3. Settle(balances, t, m, price, amount) = settled
  BY DEF Settle, CostOf, Given
<1> HIDE DEF cost, fee, from, to
<1>4. WellFormed(paid) /\ \A j \in Keys \ {from} : paid[j] = balances[j]
  BY <1>1, <1>2, CallsKeepAccounts
<1> HIDE DEF paid
<1>5. WellFormed(credited) /\ \A j \in Keys \ {to} : credited[j] = paid[j]
  BY <1>1, <1>2, <1>4, CallsKeepAccounts
<1> HIDE DEF credited
<1>6. WellFormed(settled) /\ \A j \in Keys \ {from} : settled[j] = credited[j]
  BY <1>1, <1>2, <1>5, CallsKeepAccounts
<1>7. QED BY <1>2, <1>3, <1>4, <1>5, <1>6, Zenon DEF cost, fee, from, to, paid, credited

\* One round: both orders lose what is traded, and a used-up maker leaves the book
\* and one of its places in the heap.
LEMMA TradeKeeps == ASSUME IInv, NEW m, Trade(m) PROVE IInv'
<1> DEFINE t == orders[taking]
           amount == TradeAmount(t, m)
           filled == UsedUp(m, amount)
<1>1. /\ taking \in DOMAIN orders /\ m \in DOMAIN orders /\ m # taking
      /\ orders[m].side # t.side /\ queued[m] > 0 /\ queued[m] \in Nat
      /\ amount \in Nat /\ amount <= orders[m].left
      /\ ~IsMarketBid(t) => amount <= t.left
  <2>1. taking # 0 /\ CanTrade(t, m)
    BY DEF Trade
  <2>2. QED BY <2>1, TradeIsCovered
<1>2. /\ DOMAIN orders' = DOMAIN orders /\ Len(orders') = Len(orders) /\ orders' \in Seq(Order)
      /\ \A i \in DOMAIN orders :
            orders'[i] = IF i \in {taking, m}
                         THEN [orders[i] EXCEPT !.left = orders[i].left - amount]
                         ELSE orders[i]
  BY TradeTakesFromBoth
<1>3. /\ balances' = Settle(balances, t, orders[m], orders[m].price, amount)
      /\ traded' = AddTrade(taking, m, amount)
      /\ deal' = [bit |-> 1 - deal.bit, taker |-> taking, maker |-> m,
                  price |-> orders[m].price, amount |-> amount]
      /\ queued' = IF filled THEN Pop(m) ELSE queued
      /\ book' = IF filled THEN book \ {m} ELSE book
      /\ index' = IF filled THEN index \ {m} ELSE index
      /\ taking' = taking /\ taking # 0 /\ Crosses(t, m)
  BY DEF Trade, CanTrade
<1>4. /\ Len(orders) \in Nat /\ DOMAIN orders \subseteq Ids /\ 0 \notin Ids
      /\ \A i \in DOMAIN orders : orders[i] \in Order
  BY OrdersAreTyped DEF IInv
<1>5. filled <=> orders[m].left <= amount
  BY DEF UsedUp
<1> HIDE DEF amount, filled
<1>6. \A i \in DOMAIN orders :
         /\ orders'[i].status = orders[i].status /\ orders'[i].entered = orders[i].entered
         /\ orders'[i].amount = orders[i].amount /\ orders'[i].price = orders[i].price
         /\ orders'[i].side = orders[i].side /\ orders'[i].type = orders[i].type
         /\ orders'[i].left = IF i \in {taking, m} THEN orders[i].left - amount ELSE orders[i].left
  BY <1>2, <1>4 DEF Order
<1>7. /\ queued' \in [Ids -> Nat] /\ \A i \in Ids \ {m} : queued'[i] = queued[i]
      /\ queued'[m] = IF filled THEN queued[m] - 1 ELSE queued[m]
  <2>1. queued \in [Ids -> Nat] /\ m \in Ids
    BY <1>1, <1>4 DEF IInv, TypeOK
  <2>2. queued[m] - 1 \in Nat
    BY <1>1
  <2>3. QED BY <1>3, <2>1, <2>2 DEF Pop
<1>8. /\ traded' \in [Ids -> Int] /\ \A i \in Ids \ {taking, m} : traded'[i] = traded[i]
      /\ traded'[taking] = traded[taking] + amount /\ traded'[m] = traded[m] + amount
  BY <1>1, <1>3, <1>4 DEF IInv, TypeOK, AddTrade
<1>9. /\ WellFormed(balances')
  <2>1. WellFormed(balances)
    BY DEF IInv, TypeOK, AbsentIsEmpty, WellFormed
  <2>2. t.user \in Users /\ orders[m].user \in Users /\ orders[m].price \in Prices
    BY <1>1, <1>4 DEF Order
  <2>3. QED BY <1>1, <1>3, <2>1, <2>2, SettleIsThreeCalls
<1>10. TypeOK'
  <2>1. deal' \in Deal
    <3>1. deal.bit \in {0, 1}
      BY DEF IInv, TypeOK, Deal, NoDeal
    <3>2. 1 - deal.bit \in {0, 1}
      BY <3>1
    <3>3. orders[m].price \in Prices /\ taking \in Ids /\ m \in Ids /\ amount \in Int
      BY <1>1, <1>4 DEF Order
    <3>4. QED BY <1>3, <3>2, <3>3 DEF Deal
  <2>2. book' \subseteq DOMAIN orders' /\ index' \subseteq DOMAIN orders'
    BY <1>2, <1>3 DEF IInv, TypeOK
  <2>3. taking' \in {0} \union DOMAIN orders' /\ Len(orders') <= MaxOrders
    BY <1>1, <1>2, <1>3 DEF IInv, TypeOK
  <2>4. QED BY <1>2, <1>7, <1>8, <1>9, <2>1, <2>2, <2>3 DEF TypeOK, WellFormed
<1>11. Shape'
  <2>1. Fresh'
    BY <1>1, <1>2, <1>4, <1>7, <1>8 DEF IInv, Shape, Fresh
  <2>2. TakerIsNew'
    BY <1>1, <1>3, <1>4, <1>7 DEF IInv, Shape, TakerIsNew
  <2>3. ASSUME NEW o \in DOMAIN orders', queued'[o] > 0 PROVE orders'[o].left >= 0
    <3>1. CASE o = m
      BY <1>1, <1>4, <1>6, <3>1 DEF Order
    <3>2. CASE o # m
      <4>1. queued'[o] = queued[o] /\ o # taking /\ o \in DOMAIN orders
        BY <1>2, <1>3, <1>4, <1>7, <2>3, <3>2 DEF IInv, Shape, TakerIsNew
      <4>2. orders'[o].left = orders[o].left
        BY <1>6, <3>2, <4>1
      <4>3. QED BY <2>3, <4>1, <4>2 DEF IInv, Shape, HeapHolds
    <3>3. QED BY <3>1, <3>2
  <2>4. DealIsOfOrders'
    BY <1>1, <1>2, <1>3 DEF DealIsOfOrders
  <2>5. QED BY <2>1, <2>2, <2>3, <2>4 DEF Shape, HeapHolds
<1>12. BookAgreesWithHeap'
  <2> SUFFICES ASSUME NEW o \in DOMAIN orders
               PROVE  /\ o \in book' => /\ queued'[o] > 0
                                        /\ orders'[o].status \in Active
                                        /\ orders'[o].left > 0
                      /\ queued'[o] > 0 /\ o \notin book' =>
                            orders'[o].status = "Canceled" \/ orders'[o].left <= 0
    BY <1>2 DEF BookAgreesWithHeap
  <2>0. /\ o \in book => /\ queued[o] > 0
                         /\ orders[o].status \in Active
                         /\ orders[o].left > 0
        /\ queued[o] > 0 /\ o \notin book =>
              orders[o].status = "Canceled" \/ orders[o].left <= 0
    BY DEF IInv, BookAgreesWithHeap
  <2>1. CASE o = m
    <3>1. orders'[m].left = orders[m].left - amount /\ orders[m].left \in Int /\ amount \in Int
      BY <1>1, <1>4, <1>6 DEF Order
    <3>2. CASE filled
      <4>1. m \notin book' /\ orders'[m].left <= 0
        BY <1>3, <1>5, <3>1, <3>2
      <4>2. QED BY <2>1, <4>1
    <3>3. CASE ~filled
      <4>1. queued'[m] = queued[m] /\ (m \in book' <=> m \in book) /\ orders'[m].left > 0
        BY <1>3, <1>5, <1>7, <3>1, <3>3
      <4>2. orders'[m].status = orders[m].status /\ orders[m].left > 0
        BY <1>1, <1>5, <1>6, <3>1, <3>3
      <4>3. QED BY <2>0, <2>1, <3>1, <4>1, <4>2
    <3>4. QED BY <3>2, <3>3
  <2>2. CASE o = taking
    BY <1>1, <1>3, <1>4, <1>7, <2>2 DEF IInv, Shape, TakerIsNew
  <2>3. CASE o \notin {taking, m}
    <3>1. orders'[o] = orders[o] /\ queued'[o] = queued[o] /\ (o \in book' <=> o \in book)
      BY <1>2, <1>3, <1>4, <1>7, <2>3
    <3>2. QED BY <2>0, <3>1
  <2>4. QED BY <2>1, <2>2, <2>3
<1>13. FillsAreRight'
  <2>1. ASSUME NEW o \in DOMAIN orders PROVE orders'[o].left = orders'[o].entered - traded'[o]
    <3>1. orders[o].left = orders[o].entered - traded[o] /\ traded[o] \in Int /\ orders[o].entered \in Int
      BY <1>4 DEF IInv, FillsAreRight, FillsAccounted, TypeOK, Order
    <3>2. traded'[o] = IF o \in {taking, m} THEN traded[o] + amount ELSE traded[o]
      BY <1>4, <1>8
    <3>3. QED BY <1>1, <1>6, <3>1, <3>2
  <2>2. ASSUME NEW o \in DOMAIN orders, orders'[o].type = "limit"
        PROVE  orders'[o].left \in 0 .. orders'[o].amount
    <3>1. orders[o].left \in 0 .. orders[o].amount /\ orders[o].amount \in Nat
      BY <1>4, <1>6, <2>2, PricesArePositive DEF IInv, FillsAreRight, NeverOverfilled, Order
    <3>2. o \in {taking, m} => amount <= orders[o].left
      BY <1>1, <1>6, <2>2 DEF IsMarketBid
    <3>3. QED BY <1>1, <1>6, <3>1, <3>2
  <2>3. DealRespectsLimits'
    <3>1. deal'.taker = taking /\ deal'.maker = m /\ deal'.price = orders[m].price
      BY <1>3
    <3>2. t.type = "limit" => IF t.side = "bid" THEN orders[m].price <= t.price
                                                ELSE orders[m].price >= t.price
      BY <1>3 DEF Crosses
    <3>3. QED BY <1>1, <1>6, <3>1, <3>2 DEF DealRespectsLimits
  <2>4. QED BY <1>2, <2>1, <2>2, <2>3 DEF FillsAreRight, FillsAccounted, NeverOverfilled
<1>14. QED BY <1>9, <1>10, <1>11, <1>12, <1>13 DEF IInv, WellFormed, AbsentIsEmpty

\* Whatever limit and market orders come, in whatever order and with whatever
\* cancellations between them: book and heap agree, every fill has its trade, no
\* limit order is overfilled, and no trade is worse than a limit.
THEOREM MatchingIsRight == Spec => [](TypeOK /\ BookAgreesWithHeap /\ FillsAreRight)
<1>1. IInv /\ [Next]_vars => IInv'
  <2>1. IInv /\ UNCHANGED vars => IInv'
    BY DEF vars, IInv, TypeOK, Shape, Fresh, TakerIsNew, HeapHolds, DealIsOfOrders,
           BookAgreesWithHeap, FillsAreRight, FillsAccounted, NeverOverfilled,
           DealRespectsLimits, AbsentIsEmpty
  <2>2. QED BY <2>1, TakeKeeps, TradeKeeps, FinishKeeps, CancelKeeps DEF Next
<1>2. IInv => TypeOK /\ BookAgreesWithHeap /\ FillsAreRight
  BY DEF IInv
<1>3. QED BY <1>1, <1>2, InitHolds, PTL DEF Spec

\* Its parts: orders, heaps, map, index, balances and the last trade stay well typed, ...
THEOREM MatchingStaysTyped == Spec => []TypeOK
  BY MatchingIsRight, PTL

\* ... and an order of the map is in its heap, active and with something left, while an
\* entry of the heap that the map does not know is cancelled or used up (matching.go).
THEOREM BookAndHeapAgree == Spec => []BookAgreesWithHeap
  BY MatchingIsRight, PTL

-----------------------------------------------------------------------------
(* What the users own *)

\* All users' worth in one asset, as the sum of a function.
WorthOf(bal, asset) == [u \in Users |-> Worth(bal, <<u, asset>>)]
Sum(bal, asset) == SumFunctionOnSet(WorthOf(bal, asset), Users)

\* The sum changes by what one account changes, and the other assets' sums stay.
LEMMA OneAccountMoves ==
    ASSUME NEW bal, WellFormed(bal), NEW new, WellFormed(new),
           NEW u \in Users, NEW asset \in Assets,
           \A j \in Keys \ {<<u, asset>>} : new[j] = bal[j]
    PROVE  /\ Sum(new, asset) = Sum(bal, asset) + (Worth(new, <<u, asset>>) - Worth(bal, <<u, asset>>))
           /\ \A a \in Assets \ {asset} : Sum(new, a) = Sum(bal, a)
           /\ Sum(bal, asset) \in Int
<1>1. IsFiniteSet(Users)
  BY UsersAssumption
<1>2. \A v \in Users, a \in Assets : /\ <<v, a>> \in Keys
                                     /\ Worth(bal, <<v, a>>) \in Int /\ Worth(new, <<v, a>>) \in Int
  <2> SUFFICES ASSUME NEW v \in Users, NEW a \in Assets
               PROVE  /\ <<v, a>> \in Keys
                      /\ Worth(bal, <<v, a>>) \in Int /\ Worth(new, <<v, a>>) \in Int
    OBVIOUS
  <2>1. <<v, a>> \in Keys
    BY DEF Keys
  <2>2. bal[<<v, a>>] \in Account /\ new[<<v, a>>] \in Account
    BY <2>1 DEF WellFormed
  <2>3. QED BY <2>1, <2>2 DEF Worth, Account
<1>3. \A v \in Users, a \in Assets :
         <<v, a>> # <<u, asset>> => Worth(new, <<v, a>>) = Worth(bal, <<v, a>>)
  BY <1>2 DEF Worth
<1> DEFINE f == WorthOf(bal, asset)
           g == WorthOf(new, asset)
<1>4. /\ \A v \in Users : f[v] \in Int /\ g[v] \in Int
      /\ \A v \in Users \ {u} : f[v] = g[v]
      /\ f[u] = Worth(bal, <<u, asset>>) /\ g[u] = Worth(new, <<u, asset>>)
  BY <1>2, <1>3 DEF WorthOf
<1>5. SumFunctionOnSet(g, Users) = SumFunctionOnSet(f, Users) + (g[u] - f[u])
      /\ SumFunctionOnSet(f, Users) \in Int
  <2> HIDE DEF f, g
  <2>1. QED BY <1>1, <1>4, SumUpdate, SumIsInt
<1>6. ASSUME NEW a \in Assets \ {asset} PROVE Sum(new, a) = Sum(bal, a)
  <2> DEFINE h == WorthOf(bal, a)
             i == WorthOf(new, a)
  <2>1. \A v \in Users : h[v] = i[v]
    BY <1>3 DEF WorthOf
  <2>2. SumFunctionOnSet(h, Users) = SumFunctionOnSet(i, Users)
    <3> HIDE DEF h, i
    <3>1. QED BY <1>1, <2>1, SumCongruent
  <2>3. QED BY <2>2 DEF Sum
<1>7. QED
  <2>1. Sum(new, asset) = SumFunctionOnSet(g, Users) /\ Sum(bal, asset) = SumFunctionOnSet(f, Users)
    BY DEF Sum
  <2> HIDE DEF f, g
  <2>2. QED BY <1>4, <1>5, <1>6, <2>1

\* A covered settlement burns the maker's fee and nothing else.
LEMMA SettlementBurnsTheFee ==
    ASSUME WellFormed(balances), NEW t, NEW m, t.user \in Users, m.user \in Users,
           NEW price \in Prices, NEW amount \in Nat,
           balances' = Settle(balances, t, m, price, amount),
           CoversCost(t, price, amount), NEW asset \in Assets, asset = Given(t)
    PROVE  /\ Sum(balances', asset) = Sum(balances, asset) - Fee(amount)
           /\ \A a \in Assets \ {asset} : Sum(balances', a) = Sum(balances, a)
<1> DEFINE cost == CostOf(t, price, amount)
           fee == Fee(amount)
           from == <<t.user, asset>>
           to == <<m.user, asset>>
           paid == Sub(balances, from, cost)
           credited == Add(paid, to, cost - fee)
           settled == Unfreeze(credited, from, cost)
<1>1. cost \in Nat /\ fee \in Nat /\ cost \in Int /\ cost - fee \in Int /\ asset \in Assets
      /\ from \in Keys /\ to \in Keys
  BY CostsAreWhole DEF Given, Assets, Keys
<1>2. balances[from].available >= cost
  BY DEF CoversCost, CostOf, Given
<1>3. balances' = settled
  BY DEF Settle, CostOf, Given
<1> HIDE DEF cost, fee
<1>5. /\ WellFormed(paid) /\ \A j \in Keys \ {from} : paid[j] = balances[j]
      /\ Worth(paid, from) = Worth(balances, from) - cost
  <2> HIDE DEF from
  <2>1. WellFormed(paid) /\ \A j \in Keys \ {from} : paid[j] = balances[j]
    BY <1>1, CallsKeepAccounts
  <2>2. Worth(paid, from) = Worth(balances, from) - cost
    <3>1. cost >= 0
      BY <1>1
    <3>2. QED BY <1>1, <1>2, <3>1, CallsMoveWorth
  <2>3. QED BY <2>1, <2>2
<1> HIDE DEF paid
<1>6. /\ WellFormed(credited) /\ \A j \in Keys \ {to} : credited[j] = paid[j]
      /\ Worth(credited, to) = Worth(paid, to) + (cost - fee)
  <2> HIDE DEF to
  <2>1. QED BY <1>1, <1>5, CallsKeepAccounts, CallsMoveWorth
<1> HIDE DEF credited
<1>7. /\ WellFormed(settled) /\ \A j \in Keys \ {from} : settled[j] = credited[j]
      /\ Worth(settled, from) = Worth(credited, from)
  <2> HIDE DEF from
  <2>1. QED BY <1>1, <1>6, CallsKeepAccounts, CallsMoveWorth
<1> HIDE DEF settled
<1>8. \A bal, k : WellFormed(bal) /\ k \in Keys => Worth(bal, k) \in Int
  <2> SUFFICES ASSUME NEW bal, NEW k \in Keys, WellFormed(bal) PROVE Worth(bal, k) \in Int
    OBVIOUS
  <2>1. bal[k] \in Account
    BY DEF WellFormed
  <2>2. QED BY <2>1 DEF Account, Worth
<1>9. /\ Sum(paid, asset) = Sum(balances, asset) + (Worth(paid, from) - Worth(balances, from))
      /\ \A a \in Assets \ {asset} : Sum(paid, a) = Sum(balances, a)
      /\ Sum(balances, asset) \in Int
  BY <1>1, <1>5, OneAccountMoves
<1>10. /\ Sum(credited, asset) = Sum(paid, asset) + (Worth(credited, to) - Worth(paid, to))
       /\ \A a \in Assets \ {asset} : Sum(credited, a) = Sum(paid, a)
  BY <1>1, <1>5, <1>6, OneAccountMoves
<1>11. /\ Sum(settled, asset) = Sum(credited, asset) + (Worth(settled, from) - Worth(credited, from))
       /\ \A a \in Assets \ {asset} : Sum(settled, a) = Sum(credited, a)
  BY <1>1, <1>6, <1>7, OneAccountMoves
<1>12. Sum(settled, asset) = Sum(balances, asset) - fee
  <2>1. /\ Worth(balances, from) \in Int /\ Worth(paid, to) \in Int /\ Worth(credited, from) \in Int
    BY <1>1, <1>5, <1>6, <1>8
  <2>2. WellFormed(balances) => Sum(balances, asset) \in Int
    BY <1>9
  <2> HIDE DEF from, to
  <2>3. QED BY <1>1, <1>5, <1>6, <1>7, <1>9, <1>10, <1>11, <2>1
<1>13. \A a \in Assets \ {asset} : Sum(settled, a) = Sum(balances, a)
  BY <1>9, <1>10, <1>11
<1>14. QED BY <1>3, <1>12, <1>13 DEF fee

\* The trade whose taker has the cost available burns exactly the maker's fee in
\* one asset, and leaves what all users own of the other: for any users, and with
\* the errors of the three balance calls ignored as the code does.
THEOREM NothingComesFromNowhere == Spec => NothingFromNowhere
<1>1. IInv /\ [Next]_vars => IInv'
  <2>1. IInv /\ UNCHANGED vars => IInv'
    BY DEF vars, IInv, TypeOK, Shape, Fresh, TakerIsNew, HeapHolds, DealIsOfOrders,
           BookAgreesWithHeap, FillsAreRight, FillsAccounted, NeverOverfilled,
           DealRespectsLimits, AbsentIsEmpty
  <2>2. QED BY <2>1, TakeKeeps, TradeKeeps, FinishKeeps, CancelKeeps DEF Next
<1>2. IInv => BurnsTheFee
  <2> SUFFICES ASSUME IInv, NEW m \in DOMAIN orders, NEW given \in Assets, Trade(m),
                      given = Given(orders[taking]),
                      CoversCost(orders[taking], deal'.price, deal'.amount)
               PROVE  /\ Owned(given)' = Owned(given) - Fee(deal'.amount)
                      /\ \A a \in Assets \ {given} : Owned(a)' = Owned(a)
    BY DEF BurnsTheFee
  <2> DEFINE t == orders[taking]
             maker == orders[m]
             price == maker.price
             amount == TradeAmount(t, m)
  <2>1. taking # 0 /\ CanTrade(t, m) /\ deal'.price = price /\ deal'.amount = amount
        /\ balances' = Settle(balances, t, maker, price, amount)
    BY DEF Trade
  <2>2. taking \in DOMAIN orders /\ amount \in Nat
    BY <2>1, TradeIsCovered
  <2>3. t \in Order /\ maker \in Order
    BY <2>2, OrdersAreTyped DEF IInv
  <2>4. t.user \in Users /\ maker.user \in Users /\ price \in Prices
    BY <2>3 DEF Order
  <2>5. WellFormed(balances)
    BY DEF IInv, TypeOK, AbsentIsEmpty, WellFormed
  <2>6. CoversCost(t, price, amount)
    BY <2>1, Zenon
  <2> HIDE DEF amount, price, maker, t
  <2>7. /\ Sum(balances', given) = Sum(balances, given) - Fee(amount)
        /\ \A a \in Assets \ {given} : Sum(balances', a) = Sum(balances, a)
    <3>1. given = Given(t)
      BY DEF t
    <3>2. QED BY <2>1, <2>2, <2>4, <2>5, <2>6, <3>1, SettlementBurnsTheFee
  <2>8. \A a : Owned(a) = Sum(balances, a) /\ Owned(a)' = Sum(balances', a)
    BY DEF Owned, Sum, WorthOf, Worth
  <2>9. QED BY <2>1, <2>7, <2>8, Zenon
<1>3. QED BY <1>1, <1>2, InitHolds, PTL DEF Spec, NothingFromNowhere
=============================================================================
