----------------------------- MODULE PriorityBag -----------------------------
(***************************************************************************)
(* What one side of a book promises: a bag of entries (an entry may be in  *)
(* it more than once) from which an extraction takes one copy of some      *)
(* entry with the highest price.  Which one, among equal prices, is open.  *)
(***************************************************************************)
EXTENDS Integers

CONSTANT Entries
VARIABLES count,       \* copies of each entry in the bag
          price        \* the price of each entry
bagVars == <<count, price>>

Held(c) == {e \in Entries : c[e] > 0}
\* The entries an extraction may take.
Best(c, p) == {e \in Held(c) : \A f \in Held(c) : p[f] <= p[e]}

BagInit == count = [e \in Entries |-> 0]

\* One copy, or two by one call.
Insert(e) == \E n \in {1, 2} : count' = [count EXCEPT ![e] = @ + n]
Extract(e) == e \in Best(count, price) /\ count' = [count EXCEPT ![e] = @ - 1]

\* The price of an entry never changes while it is in the bag.
PricesKept == \A e \in Held(count) : price'[e] = price[e]

BagNext == PricesKept /\ (UNCHANGED count \/ \E e \in Entries : Insert(e) \/ Extract(e))
BagSpec == BagInit /\ [][BagNext]_bagVars
=============================================================================
