---------------------------- MODULE PushServices ----------------------------
(***************************************************************************)
(* The gateway (accessws) but for its depth feed: clients authenticate and *)
(* subscribe (server.go, handler/, subscription/manager.go), workers       *)
(* handle their messages in no particular order, the poller asks the       *)
(* market-data service for deals, prices, klines and states and pushes     *)
(* them (server.go), and two consumers turn the engine's events into       *)
(* notifications (kafka/consumer.go).                                      *)
(*                                                                         *)
(* One market, one asset.  The service polled is the list of DealList and  *)
(* a version of everything else it tells; its answers are those of the     *)
(* call (RpcClient is about the connection).  Each behaviour is about one  *)
(* member of Themes, the kinds its clients subscribe to: kinds share no    *)
(* more than sessions, workers and the poller.                             *)
(***************************************************************************)
EXTENDS DealList, FiniteSets

CONSTANTS Sessions, Users, Themes,
          Workers,       \* how many there are (10 in the code)
          MaxRequests,   \* bound, for each theme: messages of clients and of the balances topic
          MaxEvents,     \* bound: events of the engine
          MaxVersion,    \* bound: changes of what the service tells
          MaxFaults,     \* bound: queries that fail
          NotifyCap,     \* capacity of notifyCh (10000 in the code)
          Nobody         \* the user of a session that has not authenticated (0)

Private == {"order", "asset"}              \* kinds that need authentication
Cacheable == {"kline", "state", "today"}
Polled == Cacheable \union {"price"}
Kinds == Private \union Polled \union {"deals"}

ASSUME PushAssumption ==
  /\ \A t \in Themes : t \subseteq Kinds
  /\ Nobody \notin Users
  /\ \A d \in Deals : d.id \in Nat
  /\ {MaxEvents, MaxVersion} \subseteq Nat /\ NotifyCap \in Nat \ {0}

VARIABLES theme,
          session,      \* state of each (open, dead or gone), auth, user
          msgChan,      \* messages the workers have yet to take, in any order: they race
          work,         \* what the workers are doing that are not idle
          subs,         \* <<kind, user, session>>; Nobody in kinds that are not private
          buffer,       \* the DealsBuffer: ids and lastID
          poll,         \* where the poller is
          version, cache,
          events,       \* the orders topic: the user of each event
          read,         \* events read
          posting,      \* notifications the orders consumer has yet to post
          balances,     \* the balances topic: the user of the message not read, one at a time
          asking,       \* the user whose balance its consumer has asked for
          notifyCh,
          \* History:
          was,          \* the users each session has authenticated as
          told,         \* <<kind, user or Nobody, number>> each session has been sent
          got,          \* ids of the deals each session has been sent since it subscribed
          steady,       \* it subscribed when no push was under way
          repeated,     \* it was pushed a deal it had been sent in an earlier message
          requests, faults
pushVars == <<theme, session, msgChan, work, subs, buffer, poll, version, cache, events, read, posting,
              balances, asking, notifyCh, was, told, got, steady, repeated, requests, faults>>
vars == <<pushVars, dealListVars>>

sessionVars == <<theme, session, msgChan, was, requests>>
feedVars    == <<buffer, got, steady, repeated, dealListVars>>
cacheVars   == <<version, cache>>
kafkaVars   == <<events, read, posting, balances, asking, notifyCh>>

Asleep == [pc |-> "asleep"]
Requests == [op : {"auth"}, s : Sessions, user : Users]
            \union [op : {"subscribe", "unsubscribe", "query"}, s : Sessions, kind : Kinds]
Notifications == [method : Private, user : Users, n : 0 .. MaxEvents]

\* Sessions, workers, poller, cache and channels are well typed.
TypeOK ==
  /\ theme \in Themes
  /\ session \in [Sessions -> [state : {"open", "dead", "gone"}, auth : BOOLEAN, user : Users \union {Nobody}]]
  /\ \A s \in Sessions : session[s].user # Nobody => session[s].auth /\ session[s].user \in was[s]
  /\ msgChan \subseteq Requests
  /\ \A sub \in subs : (sub[1] \in Private \/ sub[2] = Nobody) /\ sub[1] \in theme /\ sub[3] \in Sessions
  /\ Len(buffer.ids) <= Cap /\ \A i \in 1 .. Len(buffer.ids) : buffer.ids[i] <= buffer.lastID
  /\ \A i, j \in 1 .. Len(buffer.ids) : i < j => buffer.ids[i] < buffer.ids[j]
  /\ version \in 0 .. MaxVersion /\ cache \in [Cacheable -> [value : -1 .. MaxVersion, fresh : BOOLEAN]]
  /\ read \in 0 .. Len(events) /\ Len(posting) <= 2 /\ {asking, balances} \subseteq Users \union {Nobody}
  /\ notifyCh \in Seq(Notifications) /\ Len(notifyCh) <= NotifyCap

Init ==
  /\ theme \in Themes
  /\ session = [s \in Sessions |-> [state |-> "open", auth |-> FALSE, user |-> Nobody]]
  /\ msgChan = {} /\ work = <<>> /\ subs = {}
  /\ buffer = [ids |-> <<>>, lastID |-> 0] /\ poll = Asleep
  /\ version = 0 /\ cache = [k \in Cacheable |-> [value |-> -1, fresh |-> FALSE]]
  /\ events = <<>> /\ read = 0 /\ posting = <<>>
  /\ balances = Nobody /\ asking = Nobody /\ notifyCh = <<>>
  /\ was = [s \in Sessions |-> {}] /\ told = [s \in Sessions |-> {}] /\ got = [s \in Sessions |-> {}]
  /\ steady = [s \in Sessions |-> FALSE] /\ repeated = FALSE
  /\ requests = 0 /\ faults = 0
  /\ DealListInit

Fault == faults < MaxFaults /\ faults' = faults + 1

-----------------------------------------------------------------------------
(* Subscriptions (manager.go). *)

SubscribersOf(kind) == {s \in Sessions : <<kind, Nobody, s>> \in subs}
\* Mutant: the user of the event is not looked at.
OrderSubscribersOfMarket(kind, user) == {s \in Sessions : \E u \in Users : <<kind, u, s>> \in subs}
OrderSubscribers(kind, user) == {s \in Sessions : <<kind, user, s>> \in subs}

MarketSubscribe(kind, s)   == subs' = subs \union {<<kind, Nobody, s>>}
MarketUnsubscribe(kind, s) == subs' = subs \ {<<kind, Nobody, s>>}
OrderSubscribe(s)          == subs' = subs \union {<<"order", session[s].user, s>>}
OrderUnsubscribe(s)        == subs' = subs \ {<<"order", session[s].user, s>>}
AssetSubscribe(s)          == subs' = subs \union {<<"asset", session[s].user, s>>}
AssetUnsubscribe(s)        == subs' = subs \ {<<"asset", session[s].user, s>>}

-----------------------------------------------------------------------------
(* Sessions. *)

(* readLoop hands a message to whichever worker is free. *)
ReadLoop(m) ==
  /\ session[m.s].state = "open" /\ requests < MaxRequests[theme] /\ m \notin msgChan
  /\ requests' = requests + 1 /\ msgChan' = msgChan \union {m}
  /\ UNCHANGED <<theme, session, work, subs, poll, was, told, faults, feedVars, cacheVars, kafkaVars>>

MarkDead(s) ==
  /\ session[s].state = "open" /\ session' = [session EXCEPT ![s].state = "dead"]
  /\ UNCHANGED <<theme, msgChan, was, requests, work, subs, poll, told, faults, feedVars, cacheVars, kafkaVars>>

(* Orders of the user the session is now, and every public kind; the       *)
(* assets are forgotten about.                                             *)
RemoveSession(s) ==
  /\ session[s].state = "dead" /\ session' = [session EXCEPT ![s].state = "gone"]
  /\ subs' = {sub \in subs : sub[3] # s \/ sub[1] = "asset" \/ (sub[1] = "order" /\ sub[2] # session[s].user)}
  /\ UNCHANGED <<theme, msgChan, was, requests, work, poll, told, faults, feedVars, cacheVars, kafkaVars>>

-----------------------------------------------------------------------------
(* Messages and their workers (handleMessage). *)

Take(m) == Len(work) < Workers /\ m \in msgChan /\ msgChan' = msgChan \ {m}
GoOn(job) == work' = Append(work, job)
Done(i)   == work' = RemoveAt(work, i)

(* AuthenticateSession and VerifySessionSignature: after the call to the   *)
(* auth service (external; the tonces that it guards are left out),        *)
(* Auth is set, then the user.                                             *)
HandleAuth(m) ==
  /\ Take(m) /\ m.op = "auth"
  /\ \/ /\ session' = [session EXCEPT ![m.s].auth = TRUE]
        /\ was' = [was EXCEPT ![m.s] = @ \union {m.user}]
        /\ GoOn([pc |-> "user", s |-> m.s, user |-> m.user])
     \/ UNCHANGED <<session, was, work>>
  /\ UNCHANGED <<theme, requests, subs, poll, told, faults, feedVars, cacheVars, kafkaVars>>

SetUser(i) ==
  /\ work[i].pc = "user"
  /\ session' = [session EXCEPT ![work[i].s].user = work[i].user]
  /\ Done(i)
  /\ UNCHANGED <<theme, msgChan, was, requests, subs, poll, told, faults, feedVars, cacheVars, kafkaVars>>

(* Auth, once set, stays set: who finds it set reads the user, whom        *)
(* another worker may be about to set.                                     *)
HandleOrderSubscribe(m) ==
  /\ Take(m) /\ m.op = "subscribe" /\ m.kind = "order"
  /\ IF session[m.s].auth THEN OrderSubscribe(m.s) ELSE UNCHANGED subs
  /\ UNCHANGED <<theme, session, was, requests, work, poll, told, faults, feedVars, cacheVars, kafkaVars>>

HandleAssetSubscribe(m) ==
  /\ Take(m) /\ m.op = "subscribe" /\ m.kind = "asset"
  /\ IF session[m.s].auth THEN AssetSubscribe(m.s) ELSE UNCHANGED subs
  /\ UNCHANGED <<theme, session, was, requests, work, poll, told, faults, feedVars, cacheVars, kafkaVars>>

HandleOrderUnsubscribe(m) ==
  /\ Take(m) /\ m.op = "unsubscribe" /\ m.kind = "order"
  /\ IF session[m.s].auth THEN OrderUnsubscribe(m.s) ELSE UNCHANGED subs
  /\ UNCHANGED <<theme, session, was, requests, work, poll, told, faults, feedVars, cacheVars, kafkaVars>>

HandleAssetUnsubscribe(m) ==
  /\ Take(m) /\ m.op = "unsubscribe" /\ m.kind = "asset"
  /\ IF session[m.s].auth THEN AssetUnsubscribe(m.s) ELSE UNCHANGED subs
  /\ UNCHANGED <<theme, session, was, requests, work, poll, told, faults, feedVars, cacheVars, kafkaVars>>

(* The engine or the history is asked for the user the session is now, and *)
(* may not answer.                                                         *)
PrivateQuery(m, kind) ==
  /\ Take(m) /\ m.op = "query" /\ m.kind = kind
  /\ \/ session[m.s].auth /\ told' = [told EXCEPT ![m.s] = @ \union {<<kind, session[m.s].user, 0>>}]
     \/ UNCHANGED told
  /\ UNCHANGED <<theme, session, was, requests, work, subs, poll, faults, feedVars, cacheVars, kafkaVars>>

HandleOrderQuery(m) == PrivateQuery(m, "order")
HandleAssetQuery(m) == PrivateQuery(m, "asset")

HandleMarketSubscribe(m) ==
  /\ Take(m) /\ m.op = "subscribe" /\ m.kind \in Polled
  /\ MarketSubscribe(m.kind, m.s)
  /\ UNCHANGED <<theme, session, was, requests, work, poll, told, faults, feedVars, cacheVars, kafkaVars>>

HandleMarketUnsubscribe(m) ==
  /\ Take(m) /\ m.op = "unsubscribe" /\ m.kind \notin Private
  /\ MarketUnsubscribe(m.kind, m.s)
  /\ steady' = IF m.kind = "deals" THEN [steady EXCEPT ![m.s] = FALSE] ELSE steady
  /\ UNCHANGED <<theme, session, was, requests, work, poll, told, faults, buffer, got, repeated, dealListVars,
                 cacheVars, kafkaVars>>

(* First the deals in the buffer, then the subscription. *)
HandleDealsSubscribe(m) ==
  /\ Take(m) /\ m.op = "subscribe" /\ m.kind = "deals"
  /\ got' = [got EXCEPT ![m.s] = ToSet(buffer.ids)] /\ steady' = [steady EXCEPT ![m.s] = FALSE]
  /\ GoOn([pc |-> "deals", s |-> m.s, lastID |-> buffer.lastID])
  /\ UNCHANGED <<theme, session, was, requests, subs, poll, told, faults, buffer, repeated, dealListVars,
                 cacheVars, kafkaVars>>

RegisterDeals(i) ==
  /\ work[i].pc = "deals"
  /\ MarketSubscribe("deals", work[i].s)
  /\ steady' = [steady EXCEPT ![work[i].s] = @ \/ (work[i].lastID = buffer.lastID /\ poll.pc # "push")]
  /\ Done(i)
  /\ UNCHANGED <<sessionVars, poll, told, faults, buffer, got, repeated, dealListVars, cacheVars, kafkaVars>>

-----------------------------------------------------------------------------
(* The cache in front of the market-data service (QueryMarketPrice): the   *)
(* poller and the workers look, ask, and store what they got.              *)

Cached(kind) == kind \in Cacheable /\ cache[kind].fresh

HandleMarketQuery(m) ==
  /\ Take(m) /\ m.op = "query" /\ m.kind \in Polled
  /\ IF Cached(m.kind) THEN UNCHANGED work
     ELSE GoOn([pc |-> "store", kind |-> m.kind, value |-> version])
  /\ UNCHANGED <<theme, session, was, requests, subs, poll, told, faults, feedVars, cacheVars, kafkaVars>>

Store(kind, value) ==
  cache' = IF kind \in Cacheable THEN [cache EXCEPT ![kind] = [value |-> value, fresh |-> TRUE]] ELSE cache

QueryStores(i) ==
  /\ work[i].pc = "store" /\ Store(work[i].kind, work[i].value)
  /\ Done(i)
  /\ UNCHANGED <<sessionVars, subs, poll, told, faults, feedVars, version, kafkaVars>>

\* Mutant: what is found in the cache is stored again.
PollMarketRenews(kind) ==
  /\ poll = Asleep /\ SubscribersOf(kind) # {}
  /\ poll' = IF Cached(kind) THEN [pc |-> "store", kind |-> kind, value |-> cache[kind].value]
             ELSE [pc |-> "store", kind |-> kind, value |-> version]
  /\ UNCHANGED <<sessionVars, work, subs, told, faults, feedVars, cacheVars, kafkaVars>>
(* pollPrice, pollKline, pollState, pollToday. *)
PollMarket(kind) ==
  /\ poll = Asleep /\ SubscribersOf(kind) # {}
  /\ poll' = IF Cached(kind) THEN [pc |-> "tell", kind |-> kind, value |-> cache[kind].value]
             ELSE [pc |-> "store", kind |-> kind, value |-> version]
  /\ UNCHANGED <<sessionVars, work, subs, told, faults, feedVars, cacheVars, kafkaVars>>

PollStores ==
  /\ poll.pc = "store" /\ Store(poll.kind, poll.value)
  /\ poll' = [poll EXCEPT !.pc = "tell"]
  /\ UNCHANGED <<sessionVars, work, subs, told, faults, feedVars, version, kafkaVars>>

(* BroadcastToSessions leaves out the dead. *)
Told(kind, user, n, to) ==
  told' = [s \in Sessions |-> IF s \in to /\ session[s].state = "open" THEN told[s] \union {<<kind, user, n>>} ELSE told[s]]

PollTells ==
  /\ poll.pc = "tell"
  /\ Told(poll.kind, Nobody, poll.value, SubscribersOf(poll.kind))
  /\ poll' = Asleep
  /\ UNCHANGED <<sessionVars, work, subs, faults, feedVars, cacheVars, kafkaVars>>

Expires(kind) ==
  /\ cache[kind].fresh /\ cache' = [cache EXCEPT ![kind] = [value |-> -1, fresh |-> FALSE]]
  /\ UNCHANGED <<sessionVars, work, subs, poll, told, faults, feedVars, version, kafkaVars>>

MarketMoves ==
  /\ theme \intersect Polled # {} /\ version < MaxVersion /\ version' = version + 1
  /\ UNCHANGED <<sessionVars, work, subs, poll, told, faults, feedVars, cache, kafkaVars>>

-----------------------------------------------------------------------------
(* The deals feed (pollDeals, DealsBuffer). *)

IdsAfter(n) == {d.id : d \in {e \in ToSet(list) : e.id > n}}

\* Mutant: the buffer is not cut.
AddUncapped(b, id) ==
  IF id <= b.lastID THEN b ELSE [ids |-> Append(b.ids, id), lastID |-> id]
\* Mutant: the buffer takes every deal offered.
AddKeepsLast(b, id) == [ids |-> Newest(Append(b.ids, id), Cap), lastID |-> id]
BufferAdd(b, id) ==
  IF id <= b.lastID THEN b ELSE [ids |-> Newest(Append(b.ids, id), Cap), lastID |-> id]

(* What the buffer is offered of the list, the oldest first. *)
BufferAddsAfter(n) == FoldLeft(LAMBDA b, d : IF d.id > n THEN BufferAdd(b, d.id) ELSE b, buffer, list)

(* The deals after the buffer's last, of which the buffer takes those that *)
(* come in order; all of them are pushed.                                  *)
PollDeals ==
  /\ poll = Asleep /\ SubscribersOf("deals") # {}
  /\ IdsAfter(buffer.lastID) # {}
  /\ buffer' = BufferAddsAfter(buffer.lastID)
  /\ poll' = [pc |-> "push", ids |-> IdsAfter(buffer.lastID)]
  /\ UNCHANGED <<sessionVars, work, subs, told, faults, got, steady, repeated, dealListVars, cacheVars, kafkaVars>>

PushDeals ==
  /\ poll.pc = "push"
  /\ LET to == {s \in SubscribersOf("deals") : session[s].state = "open"} IN
     /\ got' = [s \in Sessions |-> IF s \in to THEN got[s] \union poll.ids ELSE got[s]]
     /\ repeated' = (repeated \/ \E s \in to : steady[s] /\ got[s] \intersect poll.ids # {})
  /\ poll' = Asleep
  /\ UNCHANGED <<sessionVars, work, subs, told, faults, buffer, steady, dealListVars, cacheVars, kafkaVars>>

(* A query that fails is tried again at the next tick. *)
PollFails ==
  /\ Fault /\ poll.pc = "store" /\ poll' = Asleep
  /\ UNCHANGED <<sessionVars, work, subs, told, feedVars, cacheVars, kafkaVars>>

ServiceSteps ==
  /\ "deals" \in theme /\ DealListNext
  /\ UNCHANGED pushVars

-----------------------------------------------------------------------------
(* Notifications (kafka/consumer.go). *)

EngineEvent(u) ==
  /\ theme \intersect Private # {} /\ Len(events) < MaxEvents /\ events' = Append(events, u)
  /\ UNCHANGED <<sessionVars, work, subs, poll, told, faults, feedVars, cacheVars, read, posting, balances, asking, notifyCh>>

(* An event of an order makes two notifications, posted one by one: the    *)
(* consumer waits while the channel is full.                               *)
ConsumeOrder ==
  /\ posting = <<>> /\ read < Len(events)
  /\ read' = read + 1
  /\ posting' = <<[method |-> "order", user |-> events[read + 1], n |-> read + 1],
                  [method |-> "asset", user |-> events[read + 1], n |-> 0]>>
  /\ UNCHANGED <<sessionVars, work, subs, poll, told, faults, feedVars, cacheVars, events, balances, asking, notifyCh>>

Post ==
  /\ posting # <<>> /\ Len(notifyCh) < NotifyCap
  /\ notifyCh' = Append(notifyCh, Head(posting)) /\ posting' = Tail(posting)
  /\ UNCHANGED <<sessionVars, work, subs, poll, told, faults, feedVars, cacheVars, events, read, balances, asking>>

BalanceEvent(u) ==
  /\ "asset" \in theme /\ balances = Nobody /\ balances' = u
  /\ requests < MaxRequests[theme] /\ requests' = requests + 1
  /\ UNCHANGED <<theme, session, msgChan, was, work, subs, poll, told, faults, feedVars, cacheVars, events, read, posting, asking, notifyCh>>

(* For each message its consumer asks the engine for the balance. *)
ConsumeBalance ==
  /\ asking = Nobody /\ balances # Nobody
  /\ asking' = balances /\ balances' = Nobody
  /\ UNCHANGED <<sessionVars, work, subs, poll, told, faults, feedVars, cacheVars, events, read, posting, notifyCh>>

BalanceAnswered ==
  /\ asking # Nobody /\ Len(notifyCh) < NotifyCap
  /\ notifyCh' = Append(notifyCh, [method |-> "asset", user |-> asking, n |-> 0])
  /\ asking' = Nobody
  /\ UNCHANGED <<sessionVars, work, subs, poll, told, faults, feedVars, cacheVars, events, read, posting, balances>>

BalanceQueryFails ==
  /\ Fault /\ asking # Nobody /\ asking' = Nobody
  /\ UNCHANGED <<sessionVars, work, subs, poll, told, feedVars, cacheVars, events, read, posting, balances, notifyCh>>

SendNotification ==
  /\ notifyCh # <<>> /\ notifyCh' = Tail(notifyCh)
  /\ LET m == Head(notifyCh) IN Told(m.method, m.user, m.n, OrderSubscribers(m.method, m.user))
  /\ UNCHANGED <<sessionVars, work, subs, poll, faults, feedVars, cacheVars, events, read, posting, balances, asking>>

-----------------------------------------------------------------------------
Worker ==
  \/ \E m \in msgChan :
       \/ HandleAuth(m)
       \/ HandleOrderSubscribe(m) \/ HandleOrderUnsubscribe(m) \/ HandleOrderQuery(m)
       \/ HandleAssetSubscribe(m) \/ HandleAssetUnsubscribe(m) \/ HandleAssetQuery(m)
       \/ HandleMarketSubscribe(m) \/ HandleMarketUnsubscribe(m) \/ HandleDealsSubscribe(m)
       \/ HandleMarketQuery(m)
  \/ \E i \in 1 .. Len(work) : SetUser(i) \/ RegisterDeals(i) \/ QueryStores(i)

Poller == PollDeals \/ PushDeals \/ (\E k \in Polled : PollMarket(k)) \/ PollStores \/ PollTells

OrdersConsumer   == ConsumeOrder \/ Post
BalancesConsumer == ConsumeBalance \/ BalanceAnswered

(* What a client asks for. *)
Asks == {m \in Requests : IF m.op = "auth" THEN theme \intersect Private # {}
                          ELSE m.kind \in theme /\ (m.op = "query" => m.kind \in Cacheable \union Private)}

Next ==
  \/ \E m \in Asks : ReadLoop(m)
  \/ \E s \in Sessions : MarkDead(s) \/ RemoveSession(s)
  \/ Worker
  \/ Poller \/ PollFails
  \/ \E k \in Cacheable : Expires(k)
  \/ MarketMoves \/ ServiceSteps
  \/ \E u \in Users : EngineEvent(u) \/ BalanceEvent(u)
  \/ OrdersConsumer \/ BalancesConsumer \/ BalanceQueryFails
  \/ SendNotification

(* Goroutines that run for as long as the process does, and time. *)
Fairness ==
  /\ WF_vars(Worker) /\ WF_vars(Poller) /\ WF_vars(OrdersConsumer) /\ WF_vars(SendNotification)
  /\ \A k \in Cacheable : WF_vars(Expires(k))

Spec == Init /\ [][Next]_vars /\ Fairness

-----------------------------------------------------------------------------
(* AuthenticateSession changes the user of a session that may hold         *)
(* subscriptions already, and sets Auth before the user while other        *)
(* workers look at both.  Still, a subscription is under a user the        *)
(* session has been, or under nobody (the engine's user 0), and a session  *)
(* is told of the orders and assets of no user it has not been.            *)
OwnUpdates ==
  /\ \A sub \in subs : sub[1] \in Private => sub[2] \in was[sub[3]] \union {Nobody}
  /\ \A s \in Sessions : \A t \in told[s] : t[1] \in Private => t[2] \in was[s] \union {Nobody}

(* HandleDealsSubscribe sends the buffer and then subscribes, pollDeals    *)
(* fills the buffer and then looks who subscribes.  A session that did not *)
(* come while a push was under way has been sent, between pushes, every    *)
(* deal in the buffer, and no deal in two messages - whatever kafka        *)
(* delivers again and wherever the ids of a restarted engine begin.        *)
FeedAgrees ==
  /\ ~repeated
  /\ \A s \in Sessions :
       steady[s] /\ session[s].state = "open" =>
         ToSet(buffer.ids) \subseteq got[s] \union (IF poll.pc = "push" THEN poll.ids ELSE {})

Subscribed(s, sub) == sub \in subs /\ session[s].state = "open"

(* Through caches that hold old answers, a buffer that ignores old ids and *)
(* a channel that fills up, whoever stays subscribed is told: a version of *)
(* the market as new as the one there was; a deal the gateway had not got, *)
(* unless it leaves the list first; an order event not yet read.           *)
SubscribersCatchUp ==
  \A s \in Sessions :
    /\ \A k \in Polled \intersect UNION Themes, n \in 1 .. MaxVersion :
         Subscribed(s, <<k, Nobody, s>>) /\ version >= n
           ~> ~Subscribed(s, <<k, Nobody, s>>) \/ \E j \in n .. MaxVersion : <<k, Nobody, j>> \in told[s]
    /\ \A d \in Deals :
         steady[s] /\ session[s].state = "open" /\ d \in ToSet(list) /\ d.id > buffer.lastID
           ~> ~steady[s] \/ session[s].state # "open" \/ d \notin ToSet(list) \/ d.id \in got[s]
    /\ \A n \in 1 .. MaxEvents :
         read < n /\ Len(events) >= n /\ Subscribed(s, <<"order", events[n], s>>)
           ~> (Len(events) >= n /\ ~Subscribed(s, <<"order", events[n], s>>)) \/ \E u \in Users : <<"order", u, n>> \in told[s]
=============================================================================
