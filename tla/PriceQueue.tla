----------------------------- MODULE PriceQueue -----------------------------
(***************************************************************************)
(* PriceQueue (order/pricequeue.go) with Go's container/heap on top of it, *)
(* as operators on sequences.  Positions count from 1, so the children of  *)
(* i are 2i and 2i+1.  The same Less serves both sides of a book: the      *)
(* higher price goes first.                                                *)
(***************************************************************************)
EXTENDS Integers, Sequences

\* PriceQueue.Less on the entries at i and j; price is a function of entries.
Less(price, q, i, j) == price[q[i]] > price[q[j]]

SwapAt(q, i, j) == [q EXCEPT ![i] = q[j], ![j] = q[i]]

\* The arrays of q's length with entries of q.
Arrays(q) == [DOMAIN q -> {q[i] : i \in DOMAIN q}]

\* heap.up: the entry at j climbs while it goes before its parent.
HeapUp(price, q, j) ==
    LET up[k \in 1 .. Len(q)] ==
            [s \in Arrays(q) |->
                IF k > 1 /\ Less(price, s, k, k \div 2)
                THEN up[k \div 2][SwapAt(s, k, k \div 2)]
                ELSE s]
    IN  up[j][q]

\* The child of i that goes first, if i has any.
FirstChild(price, q, i) ==
    IF 2 * i + 1 <= Len(q) /\ Less(price, q, 2 * i + 1, 2 * i) THEN 2 * i + 1 ELSE 2 * i

\* heap.down: the entry at i sinks below the child that goes first.
HeapDown(price, q, i) ==
    LET down[k \in 1 .. Len(q) + 1] ==
            [s \in Arrays(q) |->
                LET j == FirstChild(price, s, k)
                IN  IF j <= Len(q) /\ Less(price, s, j, k) THEN down[j][SwapAt(s, k, j)] ELSE s]
    IN  down[i][q]

HeapPush(price, q, e) == HeapUp(price, Append(q, e), Len(q) + 1)

\* Mutant: the new top does not sink.
HeapPopUnsifted(price, q) == SubSeq(SwapAt(q, 1, Len(q)), 1, Len(q) - 1)
\* heap.Pop moves the last entry to the top, drops the old top and sinks it.
HeapPop(price, q) == HeapDown(price, SubSeq(SwapAt(q, 1, Len(q)), 1, Len(q) - 1), 1)

=============================================================================
