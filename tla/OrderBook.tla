------------------------------ MODULE OrderBook ------------------------------
(***************************************************************************)
(* One market's OrderBook (order/orderbook.go): a heap of orders per side  *)
(* and the map of live orders.  Every method holds ob.mu, so a call is one *)
(* step.  The matcher takes the first order of a side when it is filled    *)
(* (heap.Pop, then Remove); a cancellation calls Remove alone, which       *)
(* leaves the heap as it is.                                               *)
(***************************************************************************)
EXTENDS PriceQueue, FiniteSets, Functions

CONSTANTS MaxOrders,   \* bound of the model on the orders that come in
          Prices,      \* prices, in ticks
          MaxEntries   \* bound of the model on the heap entries of one side

BookSides == {"bid", "ask"}
\* IDGenerator.NextID numbers the orders as they come.
Orders == 1 .. MaxOrders

ASSUME PricesAssumption == Prices \subseteq Nat \ {0}
ASSUME BookBoundsAssumption == MaxOrders \in Nat /\ MaxEntries \in Nat

VARIABLES orders,       \* side and price of each order that came in, by id
          queue,        \* the heaps: queue["bid"] is ob.Bids.Orders
          book          \* the ids in ob.orders
bookVars == <<orders, queue, book>>

Arrived == DOMAIN orders
price == [o \in Orders |-> IF o \in Arrived THEN orders[o].price ELSE 0]
Copies(s, o) == Cardinality({i \in DOMAIN queue[s] : queue[s][i] = o})

\* The map and the heaps are well typed.
BookTypeOK == /\ orders \in Seq([side: BookSides, price: Prices]) /\ Len(orders) <= MaxOrders
              /\ queue \in [BookSides -> Seq(Arrived)]
              /\ \A s \in BookSides : Len(queue[s]) <= MaxEntries
              /\ book \subseteq Arrived

BookInit == /\ orders = <<>>
            /\ queue = [s \in BookSides |-> <<>>]
            /\ book = {}

\* The next order, with its side and price, has its id in the map.
Arrives(s, p) == /\ Len(orders) < MaxOrders
                 /\ orders' = Append(orders, [side |-> s, price |-> p])
                 /\ book' = book \union {Len(orders) + 1}

\* Mutant: the id is drawn once more for the heap.
AddUnderNextId(s, p) ==
    /\ Arrives(s, p)
    /\ Len(orders') < MaxOrders
    /\ queue' = [queue EXCEPT ![s] = Append(@, Len(orders') + 1)]
\* OrderBook.Add, as match and LoadOrdersToEngine call it.
AddOrder(s, p) ==
    /\ Arrives(s, p)
    /\ Len(queue[s]) < MaxEntries
    /\ queue' = [queue EXCEPT ![s] = HeapPush(price', @, Len(orders'))]

\* PutOrderNoLock adds the order that match has just added once more: the map
\* holds it once, the heap twice.
AddTwice(s, p) ==
    /\ Arrives(s, p)
    /\ Len(queue[s]) + 1 < MaxEntries
    /\ queue' = [queue EXCEPT ![s] =
                    HeapPush(price', HeapPush(price', @, Len(orders')), Len(orders'))]

RemoveOrder(o) ==
    /\ o \in book
    /\ book' = book \ {o}
    /\ UNCHANGED <<orders, queue>>

\* Mutant: heap.Pop without ob.Remove.
TakeFirstKeepsMap(s) ==
    /\ queue[s] # <<>>
    /\ queue' = [queue EXCEPT ![s] = HeapPop(price, @)]
    /\ UNCHANGED <<orders, book>>
\* The matcher is done with the first order of a side.
TakeFirst(s) ==
    /\ queue[s] # <<>>
    /\ queue' = [queue EXCEPT ![s] = HeapPop(price, @)]
    /\ book' = book \ {Head(queue[s])}
    /\ UNCHANGED orders

BookNext == \/ \E s \in BookSides, p \in Prices : AddOrder(s, p) \/ AddTwice(s, p)
            \/ \E o \in book : RemoveOrder(o)
            \/ \E s \in BookSides : TakeFirst(s)

BookSpec == BookInit /\ [][BookNext]_bookVars

-----------------------------------------------------------------------------
\* No order of the map has dropped out of its heap: an order that can still be
\* cancelled or listed can still trade.
BookOrdersAreQueued == \A o \in book : Copies(orders[o].side, o) > 0

\* Whatever was pushed and popped before, in any order and with the same order
\* pushed twice, each side implements the bag: a pop takes exactly one copy of an
\* entry with the highest price, a push adds one, and no entry is lost or made by
\* sifting (the matcher and GetBestBid read nothing but Orders[0]).
CopiesOn(s) == [o \in Orders |-> Copies(s, o)]
BidBag == INSTANCE PriorityBag WITH Entries <- Orders, count <- CopiesOn("bid")
AskBag == INSTANCE PriorityBag WITH Entries <- Orders, count <- CopiesOn("ask")
SidesImplementBag == BidBag!BagSpec /\ AskBag!BagSpec

\* Price priority, then time priority: of the live orders of a side, the one that
\* is taken has the best price (the lowest of the asks), and is the oldest of those.
Better(s, p, q) == IF s = "bid" THEN p > q ELSE p < q
PriceTimePriority ==
    [][\A s \in BookSides : TakeFirst(s) /\ Head(queue[s]) \in book =>
         LET taken == Head(queue[s])
         IN  \A o \in Range(queue[s]) \intersect book :
                 \/ Better(s, price[taken], price[o])
                 \/ price[taken] = price[o] /\ taken <= o]_bookVars
=============================================================================
