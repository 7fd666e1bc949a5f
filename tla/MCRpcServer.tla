----------------------------- MODULE MCRpcServer -----------------------------
(* The RPC server for TLC: one user, a book with a bid and an ask that is partly *)
(* filled, or with bids of one user only.                                        *)
EXTENDS RpcServer

AllKeys == Users \X {"money", "stock", "market"}

OrderOf(i, u, side, price, amount, left) ==
    [id |-> i, user |-> u, side |-> side, price |-> price, amount |-> amount, left |-> left,
     updated |-> TRUE, status |-> IF left < amount THEN "partial" ELSE "pending"]
Book(bids, asks) ==
    LET all == {bids[i] : i \in DOMAIN bids} \union {asks[i] : i \in DOMAIN asks}
    IN  [bids |-> bids, asks |-> asks,
         orders |-> [i \in {o.id : o \in all} |-> CHOOSE o \in all : o.id = i]]

AllBooks == UNION {{Book(<<OrderOf(1, u, "bid", 2, 2, 1), OrderOf(2, u, "bid", 1, 2, 1)>>, <<>>),
                    Book(<<>>, <<OrderOf(1, u, "ask", 2, 2, 1)>>)} : u \in Users}

PutOf(kind, u, side, price) ==
    [kind |-> kind, user |-> u, side |-> side, price |-> price, amount |-> 1]
UpdateOf(u, asset, change) ==
    [kind |-> "update", user |-> u, asset |-> asset, id |-> 1, change |-> change]
AllRequests ==
    UNION {{PutOf("limit", u, "bid", 1), PutOf("limit", u, "bid", 2), PutOf("limit", u, "ask", 2),
            PutOf("market", u, "ask", 0), PutOf("stop", u, "bid", 2), PutOf("stop", u, "ask", 3),
            UpdateOf(u, "market", 1), UpdateOf(u, "market", 2), UpdateOf(u, "money", -1)} : u \in Users}
    \union {[kind |-> "cancel", user |-> u, order |-> 1, here |-> h] : u \in Users, h \in BOOLEAN}
    \union {[kind |-> "cancel", user |-> u, order |-> 3, here |-> TRUE] : u \in Users}
=============================================================================
