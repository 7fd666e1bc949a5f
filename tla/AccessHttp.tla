----------------------------- MODULE AccessHttp -----------------------------
(***************************************************************************)
(* The HTTP gateway: one request at a time through HandleJSONRPC to one of *)
(* three backends, and the health check that walks over their pools.  Of   *)
(* the backends, readhistory answers from the tables the engine's history  *)
(* writer fills; of the others only the routes count.                      *)
(***************************************************************************)
EXTENDS HistoryWriter, ReadHistory

CONSTANTS Pools,         \* the backends, in the order in which a round of checks visits them
          Methods,       \* methods the clients call
          Asked,         \* parameters they call them with
          Questions,     \* parameters the front ends of readhistory are compared on
          MaxRequests,   \* bound: requests
          MaxOutages     \* bound: times a backend goes down

(* Ids are read as unsigned numbers, offset and limit as any integers.     *)
Parameters == [user : Nat, id : Nat, offset : Int, limit : Int]
ASSUME GatewayAssumption ==
  /\ Pools \in Seq({"matchengine", "readhistory", "marketprice"}) /\ Pools # <<>>
  /\ Asked \subseteq Parameters /\ Questions \subseteq Parameters
  /\ ReaderShards <= Shards
  /\ {MaxRequests, MaxOutages} \subseteq Nat

VARIABLES running,    \* the backends that run
          available,  \* what their pools believe
          checking,   \* the pool the round of checks visits next, 0 between rounds
          request, reply,
          requests, outages

gatewayVars == <<running, available, checking, request, reply, requests, outages>>
vars == <<writerVars, gatewayVars>>

Backends == Range(Pools)

(* Where each method goes and how: through forward, which asks the pool    *)
(* whether it is available and posts to the root, or to a route of its own *)
(* whatever the pool believes.                                             *)
Forward(backend) == [backend |-> backend, checked |-> TRUE, path |-> "/"]
ForwardTo(backend, path) == [backend |-> backend, checked |-> FALSE, path |-> path]

Own == [m \in {"asset.list", "asset.summary", "balance.query", "balance.history"} |->
          IF m = "balance.history" THEN ForwardTo("readhistory", "/balance_history") ELSE ForwardTo("matchengine", m)]

Forwarded(backend) ==
  CASE backend = "matchengine" ->
         {"balance.update", "order.put_limit", "order.put_market", "order.cancel", "order.book", "order.depth",
          "order.pending", "order.pending_detail", "market.list", "market.summary"}
    [] backend = "readhistory" -> {"order.deals", "order.finished", "order.finished_detail", "market.user_deals"}
    [] backend = "marketprice" -> {"market.last", "market.deals", "market.kline", "market.status", "market.status_today"}

Routes == DOMAIN Own \cup UNION {Forwarded(b) : b \in Backends}
Route(m) == IF m \in DOMAIN Own THEN Own[m]
            ELSE Forward(CHOOSE b \in Backends : m \in Forwarded(b))

(* The routes the backends serve: the engine and marketprice have nothing  *)
(* at their root.                                                          *)
Served(route) == route.backend = "readhistory" \/ route.path # "/"

Idle    == [method |-> "none"]
NoReply == [kind |-> "none", owed |-> FALSE]

(* What a backend writes in answer to a request that reaches it.           *)
Body(r) ==
  IF ~Served(Route(r.method)) THEN [kind |-> "not_json"]
  ELSE IF Route(r.method).path = "/balance_history" THEN RouteBalanceHistory(tables, r.params)
  ELSE IF Route(r.method).backend = "readhistory" THEN HTTPJSONRPC(tables, r.method, r.params)
  ELSE Result(<<>>, 0)

(* What the gateway makes of a body.  An error that is not an RPCError -   *)
(* the body is not JSON, or its error is a bare string - leaves a reply    *)
(* that says neither.                                                      *)
Decoded(body) == IF body.kind \in {"not_json", "bare_error"} THEN Null ELSE body

GatewayInit ==
  /\ running = Backends /\ available = {} /\ checking = 1
  /\ request = Idle /\ reply = NoReply
  /\ requests = 0 /\ outages = 0

Init == WriterInit /\ GatewayInit

(* The order is in its table, and the reader would look there.             *)
Known(id) ==
  /\ id % WriterShards = id % ReaderShards
  /\ \E row \in tables[<<"detail", id % WriterShards>>] : row.id = id

(* A reply without its rows; "owed": the backend, up all the time, had the *)
(* order's detail when the question was asked.                             *)
Reply(kind, r) ==
  [kind |-> kind, owed |-> r.known /\ ~r.down /\ r.method = "order.finished_detail"]

\* Mutant: a method that no backend has is forwarded like the others.
HandleJSONRPCForwardsAll(method, params) ==
  /\ request = Idle /\ requests < MaxRequests
  /\ requests' = requests + 1
  /\ request' = [method |-> method, params |-> params, known |-> Known(params.id), down |-> FALSE]
  /\ reply' = NoReply
  /\ UNCHANGED <<writerVars, running, available, checking, outages>>

HandleJSONRPC(method, params) ==
  /\ request = Idle /\ requests < MaxRequests
  /\ requests' = requests + 1
  /\ LET r == [method |-> method, params |-> params, known |-> Known(params.id), down |-> FALSE] IN
     IF method \notin Routes \/ (Route(method).checked /\ Route(method).backend \notin available)
     THEN reply' = Reply("error", r) /\ UNCHANGED request
     ELSE /\ request' = [r EXCEPT !.down = Route(method).backend \notin running]
          /\ reply' = NoReply
  /\ UNCHANGED <<writerVars, running, available, checking, outages>>

Answers(kind) ==
  /\ reply' = Reply(kind, request)
  /\ request' = Idle
  /\ UNCHANGED <<writerVars, running, available, checking, requests, outages>>

BackendAnswers ==
  /\ request # Idle /\ Route(request.method).backend \in running
  /\ Answers(Decoded(Body(request)).kind)

(* A refused or broken connection is an error that is not an RPCError.     *)
ConnectionFails ==
  /\ request # Idle /\ request.down
  /\ Answers("null")

DeadlinePasses == request # Idle /\ Answers("error")

\* Mutant: a round of checks ends at the first backend that is down.
CheckHealthStops ==
  /\ checking # 0
  /\ LET b == Pools[checking] IN
     IF b \in running THEN available' = available \cup {b} /\ checking' = (checking + 1) % (Len(Pools) + 1)
     ELSE available' = available \ {b} /\ checking' = 0
  /\ UNCHANGED <<writerVars, running, request, reply, requests, outages>>

(* CheckHealth of one backend after the other.                             *)
CheckHealth ==
  /\ checking # 0
  /\ LET b == Pools[checking] IN available' = IF b \in running THEN available \cup {b} ELSE available \ {b}
  /\ checking' = (checking + 1) % (Len(Pools) + 1)
  /\ UNCHANGED <<writerVars, running, request, reply, requests, outages>>

CheckTick ==
  /\ checking = 0 /\ checking' = 1
  /\ UNCHANGED <<writerVars, running, available, request, reply, requests, outages>>

GoesDown(b) ==
  /\ b \in running /\ outages < MaxOutages
  /\ running' = running \ {b} /\ outages' = outages + 1
  /\ request' = IF request # Idle /\ Route(request.method).backend = b THEN [request EXCEPT !.down = TRUE] ELSE request
  /\ UNCHANGED <<writerVars, available, checking, reply, requests>>

ComesUp(b) ==
  /\ b \notin running /\ running' = running \cup {b}
  /\ UNCHANGED <<writerVars, available, checking, request, reply, requests, outages>>

HealthCheck == CheckHealth \/ CheckTick

Next ==
  \/ WriterNext /\ UNCHANGED gatewayVars
  \/ \E m \in Methods, p \in Asked : HandleJSONRPC(m, p)
  \/ BackendAnswers
  \/ ConnectionFails
  \/ DeadlinePasses
  \/ HealthCheck
  \/ \E b \in Backends : GoesDown(b) \/ ComesUp(b)

(* The checker's ticker and the deadline of the request's context.         *)
Spec == Init /\ [][Next]_vars /\ WF_vars(HealthCheck) /\ WF_vars(DeadlinePasses)

----------------------------------------------------------------------------
GatewayTypeOK ==
  /\ running \subseteq Backends /\ available \subseteq Backends /\ checking \in 0 .. Len(Pools)
  /\ request = Idle \/ request.method \in Routes
  /\ requests \in 0 .. MaxRequests /\ outages \in 0 .. MaxOutages

\* The gateway, its pools, and the history behind it are well typed.
TypeOK == WriterTypeOK /\ GatewayTypeOK

(* Whatever the tables hold, the front ends of readhistory agree.          *)
FrontEndsAgree == \A p \in Questions : AgreeOn(tables, p)

(* A client told of no order by a working backend can take its word: where *)
(* the shards of reader and writer agree, the order had not reached its    *)
(* table when the question was asked.                                      *)
NothingMeansUnknown == reply.kind = "null" => ~reply.owed

(* Both at once: what a client is told does not depend on whom it asks, and *)
(* is what the tables hold.                                                *)
AnswersHold == FrontEndsAgree /\ NothingMeansUnknown

(* The pools follow the backends: one that stays up is found available,    *)
(* and one that stays down is found missing, whatever the others do.       *)
PoolsFollow ==
  \A b \in Backends :
    /\ <>[](b \in running) => <>[](b \in available)
    /\ <>[](b \notin running) => <>[](b \notin available)
=============================================================================
