---------------------------- MODULE ReadHistory ----------------------------
(***************************************************************************)
(* The readhistory service: five queries on the sharded history tables and *)
(* the handlers in front of them - the JSON-RPC route and the routes of    *)
(* their own that main serves, the commands of the RPC server and the REST *)
(* handlers that it does not.  A table is a set of rows; a query picks the *)
(* newest of those that match, from an offset on.  Filters on market, side *)
(* and times only narrow the match, and are left out.                      *)
(***************************************************************************)
EXTENDS Integers, Sequences, FiniteSets, SequencesExt

CONSTANTS ReaderShards,   \* HISTORY_HASH_NUM of the reader, 100 in the code
          MaxLimit        \* rows of one answer, 101 in the code

ASSUME ReadHistoryAssumption == {ReaderShards, MaxLimit} \subseteq Nat \ {0}

Result(rows, limit) == [kind |-> "result", rows |-> rows, limit |-> limit]
Failure(code)       == [kind |-> "error", code |-> code]
Null                == [kind |-> "null"]
InvalidParams       == Failure(-32602)
InternalError       == Failure(-32603)

Newest(rows) == SetToSortSeq(rows, LAMBDA a, b : a.id > b.id)

(* ORDER BY id DESC LIMIT ? OFFSET ?, which refuses negative numbers.      *)
Page(rows, offset, limit) ==
  IF offset < 0 \/ limit < 0 THEN InternalError
  ELSE LET last == IF offset + limit > Cardinality(rows) THEN Cardinality(rows) ELSE offset + limit
       IN  Result(SubSeq(Newest(rows), offset + 1, last), limit)

OrderHistoryTable(user)    == <<"order", user % ReaderShards>>
UserDealHistoryTable(user) == <<"user_deal", user % ReaderShards>>
BalanceHistoryTable(user)  == <<"balance", user % ReaderShards>>
\* Mutant: the details are looked up one table further.
OrderDetailTableNext(id)   == <<"detail", (id + 1) % ReaderShards>>
OrderDetailTable(id)       == <<"detail", id % ReaderShards>>
DealHistoryTable(id)       == <<"deal", id % ReaderShards>>

GetFinishedOrders(db, user, offset, limit) ==
  Page({row \in db[OrderHistoryTable(user)] : row.user = user}, offset, limit)
GetUserMarketDeals(db, user, offset, limit) ==
  Page({row \in db[UserDealHistoryTable(user)] : row.user = user}, offset, limit)
GetBalanceHistory(db, user, offset, limit) ==
  Page({row \in db[BalanceHistoryTable(user)] : row.user = user}, offset, limit)
GetOrderDeals(db, id, offset, limit) ==
  Page({row \in db[DealHistoryTable(id)] : row.order = id}, offset, limit)

GetFinishedOrderDetail(db, id) ==
  LET found == {row \in db[OrderDetailTable(id)] : row.id = id} IN
  IF found = {} THEN Null ELSE Result(SetToSeq(found), 1)

(* The HTTP handlers make a limit of zero, and one that is too large, the  *)
(* largest; a negative one goes on to the database.                        *)
HTTPLimit(limit) == IF limit = 0 \/ limit > MaxLimit THEN MaxLimit ELSE limit

HTTPOrderDeals(db, p) ==
  IF p.id = 0 THEN InvalidParams ELSE GetOrderDeals(db, p.id, p.offset, HTTPLimit(p.limit))
HTTPOrderFinished(db, p) ==
  IF p.user = 0 THEN InvalidParams ELSE GetFinishedOrders(db, p.user, p.offset, HTTPLimit(p.limit))
HTTPOrderFinishedDetail(db, p) ==
  IF p.id = 0 THEN InvalidParams ELSE GetFinishedOrderDetail(db, p.id)
HTTPBalanceHistory(db, p) ==
  GetBalanceHistory(db, p.user, p.offset, HTTPLimit(p.limit))
HTTPUserDeals(db, p) ==
  IF p.user = 0 THEN InvalidParams ELSE GetUserMarketDeals(db, p.user, p.offset, HTTPLimit(p.limit))

(* The dispatch of the JSON-RPC route.                                     *)
HTTPJSONRPC(db, method, p) ==
  CASE method = "order.deals"           -> HTTPOrderDeals(db, p)
    [] method = "order.finished"        -> HTTPOrderFinished(db, p)
    [] method = "order.finished_detail" -> HTTPOrderFinishedDetail(db, p)
    [] method = "balance.history"       -> HTTPBalanceHistory(db, p)
    [] method = "market.user_deals"     -> HTTPUserDeals(db, p)
    [] OTHER                            -> Failure(-32601)

(* The routes of their own repeat the handlers word for word, but that the *)
(* balance history reports an error as a bare string.                      *)
BareError == [kind |-> "bare_error"]
RouteBalanceHistory(db, p) ==
  LET reply == HTTPBalanceHistory(db, p) IN
  IF reply.kind = "error" THEN BareError ELSE reply
RouteOrderDeals(db, p)          == HTTPOrderDeals(db, p)
RouteOrderFinished(db, p)       == HTTPOrderFinished(db, p)
RouteOrderFinishedDetail(db, p) == HTTPOrderFinishedDetail(db, p)

(* The commands of the RPC server refuse a limit that HTTP would replace.  *)
RPCError == [kind |-> "rpc_error"]
RPCRefuses(limit) == limit = 0 \/ limit > MaxLimit

RPCPage(page) == IF page.kind = "error" THEN RPCError ELSE page

HandleOrderHistory(db, p) ==
  IF p.user = 0 \/ RPCRefuses(p.limit) THEN RPCError
  ELSE RPCPage(GetFinishedOrders(db, p.user, p.offset, p.limit))
HandleOrderDeals(db, p) ==
  IF p.id = 0 \/ RPCRefuses(p.limit) THEN RPCError
  ELSE RPCPage(GetOrderDeals(db, p.id, p.offset, p.limit))
HandleOrderDetailFinished(db, p) ==
  IF p.id = 0 THEN RPCError ELSE GetFinishedOrderDetail(db, p.id)
HandleBalanceHistory(db, p) ==
  IF p.user = 0 \/ RPCRefuses(p.limit) THEN RPCError
  ELSE RPCPage(GetBalanceHistory(db, p.user, p.offset, p.limit))
HandleMarketUserDeals(db, p) ==
  IF p.user = 0 \/ RPCRefuses(p.limit) THEN RPCError
  ELSE RPCPage(GetUserMarketDeals(db, p.user, p.offset, p.limit))

(* The REST handlers refuse what is not positive and cap what is too large.*)
RESTRefuses(p) == p.limit <= 0 \/ p.offset < 0
RESTLimit(p)   == IF p.limit > MaxLimit THEN MaxLimit ELSE p.limit

RESTFinishedOrders(db, p) ==
  IF RESTRefuses(p) THEN InvalidParams ELSE GetFinishedOrders(db, p.user, p.offset, RESTLimit(p))
RESTUserMarketDeals(db, p) ==
  IF RESTRefuses(p) THEN InvalidParams ELSE GetUserMarketDeals(db, p.user, p.offset, RESTLimit(p))
RESTBalanceHistory(db, p) ==
  IF RESTRefuses(p) THEN InvalidParams ELSE GetBalanceHistory(db, p.user, p.offset, RESTLimit(p))
RESTFinishedOrderDetail(db, p) == GetFinishedOrderDetail(db, p.id)

----------------------------------------------------------------------------
(* What one of the front ends answers to a question, the others that       *)
(* answer it answer too, and never with more rows than MaxLimit.           *)
AgreeOn(db, p) ==
  LET answers ==
        {{HTTPOrderFinished(db, p), RouteOrderFinished(db, p),
          HandleOrderHistory(db, p), RESTFinishedOrders(db, p)},
         {HTTPUserDeals(db, p), HandleMarketUserDeals(db, p), RESTUserMarketDeals(db, p)},
         {HTTPBalanceHistory(db, p), RouteBalanceHistory(db, p),
          HandleBalanceHistory(db, p), RESTBalanceHistory(db, p)},
         {HTTPOrderDeals(db, p), RouteOrderDeals(db, p), HandleOrderDeals(db, p)},
         {HTTPOrderFinishedDetail(db, p), RouteOrderFinishedDetail(db, p),
          HandleOrderDetailFinished(db, p), RESTFinishedOrderDetail(db, p)}}
  IN  \A front \in answers : LET given == {a \in front : a.kind \in {"result", "null"}} IN
        /\ Cardinality(given) <= 1
        /\ \A a \in given : a.kind = "result" => Len(a.rows) <= MaxLimit
=============================================================================
