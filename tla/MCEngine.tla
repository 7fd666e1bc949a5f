------------------------------ MODULE MCEngine ------------------------------
(* The engine for TLC: one order that rests in the book, and requests that do or *)
(* do not meet it.                                                               *)
EXTENDS Engine

NoOrders == <<>>
OneAsk(u) == <<[user |-> u, side |-> "ask", price |-> 2, left |-> 2]>>
AskOrNothing == {NoOrders} \union {OneAsk(u) : u \in Users}

CreateOf(u, s, p, a) == [kind |-> "create", user |-> u, side |-> s, price |-> p, amount |-> a]
Cancels == {[kind |-> "cancel", order |-> i] : i \in 1 .. 2}
Reads == {[kind |-> "read"]}

\* Bids at 2 meet the ask of the slice; bids at 1 and asks meet nothing.
AllRequests == {CreateOf(u, s, p, 1) : u \in Users, s \in Sides, p \in 1 .. 2} \union Cancels \union Reads
=============================================================================
