------------------------- MODULE PushServices_proofs -------------------------
(***************************************************************************)
(* Proofs about the gateway but for its depth feed, for any sessions,      *)
(* users, workers, messages, deals and events: whose orders and assets a   *)
(* session is told of, then the deals feed and the types of everything.    *)
(***************************************************************************)
EXTENDS PushServices, SumTheorems, SequenceTheorems, TLAPS

\* A sequence of whatever it holds.
IsSequence(s) == s \in Seq({s[i] : i \in 1 .. Len(s)})

\* A user that a session with these users behind it may act for.
Mine(users, user) == user \in users \union {Nobody}

\* What a worker is doing, a subscription and a notice are the session's own.
JobFits(job, behind)  == /\ job.pc \in {"user", "deals"} => job.s \in Sessions
                         /\ job.pc = "user" => job.user \in behind[job.s]
SubFits(sub, behind)  == sub[3] \in Sessions /\ (sub[1] \in Private => Mine(behind[sub[3]], sub[2]))
NoticeFits(t, users)  == t[1] \in Private => Mine(users, t[2])

SessionsOK ==
  /\ session \in [Sessions -> [state : {"open", "dead", "gone"}, auth : BOOLEAN, user : Users \union {Nobody}]]
  /\ was \in [Sessions -> SUBSET Users]
  /\ \A s \in Sessions : Mine(was[s], session[s].user)
WorkOK    == IsSequence(work) /\ \A i \in 1 .. Len(work) : JobFits(work[i], was)
SubsOK    == \A sub \in subs : SubFits(sub, was)
NoticesOK == DOMAIN told = Sessions /\ \A s \in Sessions : \A t \in told[s] : NoticeFits(t, was[s])

\* The inductive invariant.
OwnInv == SessionsOK /\ WorkOK /\ SubsOK /\ NoticesOK /\ msgChan \subseteq Requests

-----------------------------------------------------------------------------
\* What is a sequence of some set's elements is one of its own.
LEMMA OfItsOwn ==
  ASSUME NEW S, NEW s \in Seq(S)
  PROVE  IsSequence(s)
<1> DEFINE n == Len(s)
           T == {s[i] : i \in 1 .. n}
<1>1. n \in Nat /\ s = [i \in 1 .. n |-> s[i]]
  OBVIOUS
<1>2. \A i \in 1 .. n : s[i] \in T
  OBVIOUS
<1> HIDE DEF n, T
<1>3. s \in [1 .. n -> T]
  BY <1>1, <1>2
<1>4. s \in Seq(T)
  BY <1>1, <1>3
<1>5. QED BY <1>4 DEF IsSequence, T, n

\* A worker that begins something is the last of those at work, ...
LEMMA OneMoreJob ==
  ASSUME IsSequence(work), NEW job, work' = Append(work, job)
  PROVE  /\ IsSequence(work')
         /\ \A i \in 1 .. Len(work') : work'[i] = job \/ \E j \in 1 .. Len(work) : work'[i] = work[j]
<1> DEFINE T == {work[i] : i \in 1 .. Len(work)} \union {job}
<1>1. work \in Seq({work[i] : i \in 1 .. Len(work)})
  BY DEF IsSequence
<1>2. work \in Seq(T) /\ job \in T /\ Len(work) \in Nat
  <2>1. Len(work) \in Nat /\ work \in [1 .. Len(work) -> {work[i] : i \in 1 .. Len(work)}]
    BY <1>1
  <2>2. work \in [1 .. Len(work) -> T]
    BY <2>1
  <2>3. QED BY <2>1, <2>2
<1> HIDE DEF T
<1>3. work' \in Seq(T) /\ Len(work') = Len(work) + 1
  BY <1>2
<1>4. \A i \in 1 .. Len(work') : IF i = Len(work) + 1 THEN work'[i] = job
                                 ELSE i \in 1 .. Len(work) /\ work'[i] = work[i]
  BY <1>2, <1>3
<1>5. IsSequence(work')
  BY <1>3, OfItsOwn
<1>6. QED BY <1>4, <1>5

\* ... and one that is done leaves the others.
LEMMA OneJobLess ==
  ASSUME IsSequence(work), NEW i \in 1 .. Len(work), work' = RemoveAt(work, i)
  PROVE  /\ IsSequence(work')
         /\ \A k \in 1 .. Len(work') : \E j \in 1 .. Len(work) : work'[k] = work[j]
<1> DEFINE T == {work[j] : j \in 1 .. Len(work)}
           n == Len(work)
           before == SubSeq(work, 1, i - 1)
           after == SubSeq(work, i + 1, n)
<1>1. work \in Seq(T) /\ n \in Nat /\ i \in 1 .. n /\ \A j \in 1 .. n : work[j] \in T
  BY DEF IsSequence
<1> HIDE DEF T, n
<1>2. before \in Seq(T)
  <2>1. \A j \in 1 .. i - 1 : work[j] \in T
    BY <1>1
  <2>2. QED BY <1>1, <2>1, SubSeqProperties
<1>3. after \in Seq(T)
  <2>1. \A j \in i + 1 .. n : work[j] \in T
    BY <1>1
  <2>2. QED BY <1>1, <2>1, SubSeqProperties
<1>4. work' = before \o after
  BY DEF RemoveAt, n
<1> HIDE DEF before, after
<1>5. work' \in Seq(T)
  BY <1>2, <1>3, <1>4
<1>6. \A k \in 1 .. Len(work') : work'[k] \in T
  BY <1>5
<1>7. QED BY <1>5, <1>6, OfItsOwn DEF T, n

\* At the start nobody has subscribed to anything or been told anything.
LEMMA NobodyToldYet == Init => OwnInv
<1> SUFFICES ASSUME Init PROVE OwnInv
  OBVIOUS
<1>1. SessionsOK
  BY DEF Init, SessionsOK, Mine
<1>2. WorkOK
  <2>1. work = <<>>
    BY DEF Init
  <2>2. work \in Seq({work[i] : i \in 1 .. Len(work)}) /\ Len(work) = 0
    BY <2>1
  <2>3. QED BY <2>2 DEF WorkOK, IsSequence
<1>3. SubsOK /\ NoticesOK /\ msgChan \subseteq Requests
  BY DEF Init, SubsOK, NoticesOK
<1>4. QED BY <1>1, <1>2, <1>3 DEF OwnInv

\* What may happen to each part, as long as no session forgets who it was.
LEMMA SessionsForgetNobody ==
  ASSUME OwnInv, was' \in [Sessions -> SUBSET Users], \A s \in Sessions : was[s] \subseteq was'[s]
  PROVE  /\ work' = work => WorkOK'
         /\ \A job : work' = Append(work, job) /\ JobFits(job, was') => WorkOK'
         /\ \A i \in 1 .. Len(work) : work' = RemoveAt(work, i) => WorkOK'
         /\ \A sub : subs' \subseteq subs \union {sub} /\ SubFits(sub, was') => SubsOK'
         /\ subs' \subseteq subs => SubsOK'
         /\ told' = told => NoticesOK'
<1> USE DEF OwnInv
<1>1. \A job : JobFits(job, was) => JobFits(job, was')
  BY DEF JobFits
<1>2. \A sub : SubFits(sub, was) => SubFits(sub, was')
  BY DEF SubFits, Mine
<1>3. \A t : \A s \in Sessions : NoticeFits(t, was[s]) => NoticeFits(t, was'[s])
  BY DEF NoticeFits, Mine
<1>4. work' = work => WorkOK'
  BY <1>1 DEF WorkOK
<1>5. ASSUME NEW job, work' = Append(work, job), JobFits(job, was') PROVE WorkOK'
  BY <1>1, <1>5, OneMoreJob DEF WorkOK
<1>6. ASSUME NEW i \in 1 .. Len(work), work' = RemoveAt(work, i) PROVE WorkOK'
  BY <1>1, <1>6, OneJobLess DEF WorkOK
<1>7. ASSUME NEW sub, subs' \subseteq subs \union {sub}, SubFits(sub, was') PROVE SubsOK'
  BY <1>2, <1>7 DEF SubsOK
<1>8. subs' \subseteq subs => SubsOK'
  BY <1>2 DEF SubsOK
<1>9. told' = told => NoticesOK'
  BY <1>3 DEF NoticesOK
<1>10. QED BY <1>4, <1>5, <1>6, <1>7, <1>8, <1>9

\* A message in the channel is of a session.
LEMMA MessagesAreRequests ==
  ASSUME OwnInv, NEW m \in msgChan
  PROVE  m \in Requests /\ m.s \in Sessions /\ (m.op = "auth" => m.user \in Users)
BY DEF OwnInv, Requests

\* A broadcast to subscribers tells each of a user it has been.
LEMMA BroadcastsFit ==
  ASSUME OwnInv, NEW kind, NEW user, NEW n, NEW to \in SUBSET Sessions, was' = was,
         Told(kind, user, n, to), kind \in Private => \A s \in to : Mine(was[s], user)
  PROVE  NoticesOK'
<1>1. DOMAIN told' = Sessions
  BY DEF Told
<1>2. ASSUME NEW s \in Sessions, NEW t \in told'[s] PROVE NoticeFits(t, was[s])
  <2>1. t \in told[s] \/ (s \in to /\ t = <<kind, user, n>>)
    BY <1>2 DEF Told
  <2>2. CASE t \in told[s]
    BY <2>2 DEF OwnInv, NoticesOK
  <2>3. CASE s \in to /\ t = <<kind, user, n>>
    BY <2>3 DEF NoticeFits
  <2>4. QED BY <2>1, <2>2, <2>3
<1>3. QED BY <1>1, <1>2 DEF NoticesOK

\* Every step keeps it.
LEMMA NextKeepsOwn == OwnInv /\ [Next]_vars => OwnInv'
<1> SUFFICES ASSUME OwnInv, [Next]_vars PROVE OwnInv'
  OBVIOUS
<1>a. /\ SessionsOK /\ WorkOK /\ SubsOK /\ NoticesOK /\ msgChan \subseteq Requests
      /\ was \in [Sessions -> SUBSET Users]
  BY DEF OwnInv, SessionsOK
<1>s. UNCHANGED <<session, was>> => SessionsOK'
  BY <1>a DEF SessionsOK
<1>t. was' = was => /\ \A s \in Sessions : was[s] \subseteq was'[s]
                    /\ was' \in [Sessions -> SUBSET Users]
  BY <1>a
\* Nobody changes users and no worker begins or ends anything.
<1>1. ASSUME UNCHANGED <<session, was, work>>, SubsOK', NoticesOK', msgChan' \subseteq msgChan PROVE OwnInv'
  BY <1>1, <1>a, <1>s, <1>t, SessionsForgetNobody DEF OwnInv
<1>2. CASE \E m \in Asks : ReadLoop(m)
  <2>1. PICK m \in Asks : ReadLoop(m)
    BY <1>2
  <2>2. UNCHANGED <<session, was, work, subs, told>> /\ msgChan' = msgChan \union {m} /\ m \in Requests
    BY <2>1 DEF ReadLoop, Asks
  <2>3. QED BY <1>a, <1>s, <1>t, <2>2, SessionsForgetNobody DEF OwnInv
<1>3. CASE \E s \in Sessions : MarkDead(s) \/ RemoveSession(s)
  <2>1. PICK s \in Sessions : MarkDead(s) \/ RemoveSession(s)
    BY <1>3
  <2>2. /\ UNCHANGED <<was, work, told, msgChan>> /\ subs' \subseteq subs
        /\ \E state \in {"dead", "gone"} : session' = [session EXCEPT ![s].state = state]
    BY <2>1 DEF MarkDead, RemoveSession
  <2>3. SessionsOK'
    BY <1>a, <2>2 DEF SessionsOK
  <2>4. QED BY <1>a, <1>t, <2>2, <2>3, SessionsForgetNobody DEF OwnInv
<1>4. CASE \E m \in msgChan : HandleAuth(m)
  <2>1. PICK m \in msgChan : HandleAuth(m)
    BY <1>4
  <2>2. m.s \in Sessions /\ m.user \in Users
    BY <2>1, MessagesAreRequests DEF HandleAuth
  <2>3. UNCHANGED <<subs, told>> /\ msgChan' \subseteq msgChan
    BY <2>1 DEF HandleAuth, Take
  <2>4. CASE UNCHANGED <<session, was, work>>
    BY <1>1, <1>a, <1>t, <2>3, <2>4, SessionsForgetNobody
  <2>5. CASE /\ session' = [session EXCEPT ![m.s].auth = TRUE]
             /\ was' = [was EXCEPT ![m.s] = @ \union {m.user}]
             /\ work' = Append(work, [pc |-> "user", s |-> m.s, user |-> m.user])
    <3>1. was' \in [Sessions -> SUBSET Users] /\ \A s \in Sessions : was[s] \subseteq was'[s]
      BY <1>a, <2>2, <2>5
    <3>2. SessionsOK'
      <4>1. /\ session' \in [Sessions -> [state : {"open", "dead", "gone"}, auth : BOOLEAN, user : Users \union {Nobody}]]
            /\ \A s \in Sessions : session'[s].user = session[s].user
        BY <1>a, <2>2, <2>5 DEF SessionsOK
      <4>2. QED BY <1>a, <3>1, <4>1 DEF SessionsOK, Mine
    <3>3. JobFits([pc |-> "user", s |-> m.s, user |-> m.user], was')
      BY <1>a, <2>2, <2>5 DEF JobFits
    <3>4. WorkOK' /\ SubsOK' /\ NoticesOK'
      BY <2>3, <2>5, <3>1, <3>3, SessionsForgetNobody
    <3>5. QED BY <1>a, <2>3, <3>2, <3>4 DEF OwnInv
  <2>6. QED BY <2>1, <2>4, <2>5 DEF HandleAuth, GoOn
<1>5. CASE \E i \in 1 .. Len(work) : SetUser(i)
  <2>1. PICK i \in 1 .. Len(work) : SetUser(i)
    BY <1>5
  <2>2. /\ UNCHANGED <<was, subs, told, msgChan>> /\ work[i].pc = "user" /\ work' = RemoveAt(work, i)
        /\ session' = [session EXCEPT ![work[i].s].user = work[i].user]
    BY <2>1 DEF SetUser, Done
  <2>3. work[i].s \in Sessions /\ work[i].user \in was[work[i].s]
    BY <1>a, <2>2 DEF WorkOK, JobFits
  <2>4. SessionsOK'
    BY <1>a, <2>2, <2>3 DEF SessionsOK, Mine
  <2>5. WorkOK' /\ SubsOK' /\ NoticesOK'
    BY <1>t, <2>2, SessionsForgetNobody
  <2>6. QED BY <1>a, <2>2, <2>4, <2>5 DEF OwnInv
\* A worker registers a session under the user it is now, or under none.
<1>6. ASSUME NEW m \in msgChan,
             \/ HandleOrderSubscribe(m) \/ HandleAssetSubscribe(m) \/ HandleOrderUnsubscribe(m)
             \/ HandleAssetUnsubscribe(m) \/ HandleMarketSubscribe(m) \/ HandleMarketUnsubscribe(m)
      PROVE  OwnInv'
  <2>1. m.s \in Sessions
    BY MessagesAreRequests
  <2>2. /\ UNCHANGED <<session, was, work, told>> /\ msgChan' \subseteq msgChan
        /\ \/ subs' \subseteq subs
           \/ \E kind \in Private : subs' = subs \union {<<kind, session[m.s].user, m.s>>}
           \/ \E kind \in Polled : subs' = subs \union {<<kind, Nobody, m.s>>}
    BY <1>6 DEF HandleOrderSubscribe, HandleAssetSubscribe, HandleOrderUnsubscribe, HandleAssetUnsubscribe,
                HandleMarketSubscribe, HandleMarketUnsubscribe, Take, OrderSubscribe, AssetSubscribe,
                OrderUnsubscribe, AssetUnsubscribe, MarketSubscribe, MarketUnsubscribe, Private
  <2>3. ASSUME NEW kind, NEW user, user = session[m.s].user \/ user = Nobody
        PROVE  SubFits(<<kind, user, m.s>>, was')
    BY <1>a, <2>1, <2>2, <2>3 DEF SubFits, Mine, SessionsOK
  <2>4. SubsOK' /\ NoticesOK'
    BY <1>t, <2>2, <2>3, SessionsForgetNobody
  <2>5. QED BY <1>1, <2>2, <2>4
<1>7. CASE \E m \in msgChan : HandleOrderQuery(m) \/ HandleAssetQuery(m)
  <2>1. PICK m \in msgChan, kind \in Private : PrivateQuery(m, kind)
    BY <1>7 DEF HandleOrderQuery, HandleAssetQuery, Private
  <2>2. m.s \in Sessions
    BY MessagesAreRequests
  <2>3. /\ UNCHANGED <<session, was, work, subs>> /\ msgChan' \subseteq msgChan
        /\ told' = told \/ told' = [told EXCEPT ![m.s] = @ \union {<<kind, session[m.s].user, 0>>}]
    BY <2>1 DEF PrivateQuery, Take
  <2>4. NoticesOK'
    <3>1. NoticeFits(<<kind, session[m.s].user, 0>>, was[m.s])
      BY <1>a, <2>2 DEF NoticeFits, SessionsOK
    <3>2. DOMAIN told' = Sessions
      BY <1>a, <2>3 DEF NoticesOK
    <3>3. ASSUME NEW s \in Sessions, NEW t \in told'[s] PROVE NoticeFits(t, was[s])
      BY <1>a, <2>2, <2>3, <3>1, <3>3 DEF NoticesOK
    <3>4. QED BY <2>3, <3>2, <3>3 DEF NoticesOK
  <2>5. SubsOK'
    BY <1>t, <2>3, SessionsForgetNobody
  <2>6. QED BY <1>1, <2>3, <2>4, <2>5
\* Workers that begin something for a session, and those that are done with it.
<1>8. CASE \E m \in msgChan : HandleDealsSubscribe(m) \/ HandleMarketQuery(m)
  <2>1. PICK m \in msgChan : HandleDealsSubscribe(m) \/ HandleMarketQuery(m)
    BY <1>8
  <2>2. m.s \in Sessions
    BY MessagesAreRequests
  <2>3. /\ UNCHANGED <<session, was, subs, told>> /\ msgChan' \subseteq msgChan
        /\ \/ work' = work
           \/ work' = Append(work, [pc |-> "deals", s |-> m.s, lastID |-> buffer.lastID])
           \/ work' = Append(work, [pc |-> "store", kind |-> m.kind, value |-> version])
    BY <2>1 DEF HandleDealsSubscribe, HandleMarketQuery, Take, GoOn
  <2>4. /\ JobFits([pc |-> "deals", s |-> m.s, lastID |-> buffer.lastID], was')
        /\ JobFits([pc |-> "store", kind |-> m.kind, value |-> version], was')
    BY <2>2 DEF JobFits
  <2>5. WorkOK' /\ SubsOK' /\ NoticesOK'
    BY <1>t, <2>3, <2>4, SessionsForgetNobody
  <2>6. QED BY <1>a, <1>s, <2>3, <2>5 DEF OwnInv
<1>9. CASE \E i \in 1 .. Len(work) : RegisterDeals(i) \/ QueryStores(i)
  <2>1. PICK i \in 1 .. Len(work) : RegisterDeals(i) \/ QueryStores(i)
    BY <1>9
  <2>2. /\ UNCHANGED <<session, was, told, msgChan>> /\ work' = RemoveAt(work, i)
        /\ subs' = subs \/ (work[i].pc = "deals" /\ subs' = subs \union {<<"deals", Nobody, work[i].s>>})
    BY <2>1 DEF RegisterDeals, QueryStores, Done, MarketSubscribe, sessionVars
  <2>3. work[i].pc = "deals" => SubFits(<<"deals", Nobody, work[i].s>>, was')
    BY <1>a DEF WorkOK, JobFits, SubFits, Private
  <2>4. WorkOK' /\ SubsOK' /\ NoticesOK'
    BY <1>t, <2>2, <2>3, SessionsForgetNobody
  <2>5. QED BY <1>a, <1>s, <2>2, <2>4 DEF OwnInv
\* Broadcasts.
<1>10. CASE PollTells \/ SendNotification
  <2>1. UNCHANGED <<session, was, work, subs, msgChan>>
    BY <1>10 DEF PollTells, SendNotification, sessionVars
  <2>2. NoticesOK'
    <3>1. CASE PollTells
      <4>1. Told(poll.kind, Nobody, poll.value, SubscribersOf(poll.kind))
        BY <3>1 DEF PollTells
      <4>2. SubscribersOf(poll.kind) \in SUBSET Sessions
        BY DEF SubscribersOf
      <4>3. \A s : Mine(was[s], Nobody)
        BY DEF Mine
      <4>4. QED BY <2>1, <4>1, <4>2, <4>3, BroadcastsFit
    <3>2. CASE SendNotification
      <4> DEFINE m == Head(notifyCh)
      <4>1. Told(m.method, m.user, m.n, OrderSubscribers(m.method, m.user))
        BY <3>2 DEF SendNotification
      <4>2. OrderSubscribers(m.method, m.user) \in SUBSET Sessions
        BY DEF OrderSubscribers
      <4>3. m.method \in Private => \A s \in OrderSubscribers(m.method, m.user) : Mine(was[s], m.user)
        BY <1>a DEF OrderSubscribers, SubsOK, SubFits
      <4> HIDE DEF m
      <4>4. QED BY <2>1, <4>1, <4>2, <4>3, BroadcastsFit
    <3>3. QED BY <1>10, <3>1, <3>2
  <2>3. SubsOK'
    BY <1>t, <2>1, SessionsForgetNobody
  <2>4. QED BY <1>1, <2>1, <2>2, <2>3
\* The others have nothing to do with users.
<1>11. CASE \/ PollDeals \/ PushDeals \/ (\E k \in Polled : PollMarket(k)) \/ PollStores \/ PollFails
            \/ (\E k \in Cacheable : Expires(k)) \/ MarketMoves \/ ServiceSteps
            \/ (\E u \in Users : EngineEvent(u) \/ BalanceEvent(u))
            \/ OrdersConsumer \/ BalancesConsumer \/ BalanceQueryFails \/ UNCHANGED vars
  <2>1. UNCHANGED <<session, was, work, subs, told, msgChan>>
    BY <1>11 DEF PollDeals, PushDeals, PollMarket, PollStores, PollFails, Expires, MarketMoves, ServiceSteps,
                 EngineEvent, BalanceEvent, OrdersConsumer, ConsumeOrder, Post, BalancesConsumer, ConsumeBalance,
                 BalanceAnswered, BalanceQueryFails, sessionVars, pushVars, vars
  <2>2. SubsOK' /\ NoticesOK'
    BY <1>t, <2>1, SessionsForgetNobody
  <2>3. QED BY <1>1, <2>1, <2>2
<1>12. QED BY <1>2, <1>3, <1>4, <1>5, <1>6, <1>7, <1>8, <1>9, <1>10, <1>11 DEF Next, Worker, Poller

\* AuthenticateSession sets Auth before the user and may change the user of a session
\* that holds subscriptions: still, in every interleaving of any number of workers,
\* clients and events, no session is told of a user it has not been.
THEOREM TellsOnlyOwn == Spec => []OwnUpdates
<1>1. OwnInv => OwnUpdates
  BY DEF OwnInv, OwnUpdates, SubsOK, SubFits, NoticesOK, NoticeFits, Mine
<1>2. QED BY <1>1, NobodyToldYet, NextKeepsOwn, PTL DEF Spec

-----------------------------------------------------------------------------
(***************************************************************************)
(* The deals buffer                                                        *)
(***************************************************************************)

\* A buffer holds at most Cap numbers, each larger than the one before, its last the largest.
BufferOK(b) ==
  /\ b.ids \in Seq(Nat) /\ b.lastID \in Nat
  /\ Len(b.ids) <= Cap /\ \A i \in 1 .. Len(b.ids) : b.ids[i] <= b.lastID
  /\ \A i, j \in 1 .. Len(b.ids) : i < j => b.ids[i] < b.ids[j]

\* The fold over the list as a table: T[1 .. k] is the buffer after k deals.
AddOne(n, b, d) == IF d.id > n THEN BufferAdd(b, d.id) ELSE b
AddStep(g, n, s) == IF s = {} THEN buffer ELSE AddOne(n, g[s \ {Max(s)}], list[Max(s)])
AddsUnfolded(g, n, S) == g = [s \in SUBSET S |-> AddStep(g, n, s)]
AddsTable(n, S) == CHOOSE g : AddsUnfolded(g, n, S)

\* What is cut off a buffer is at its front.
Cut(s, n) == IF Len(s) > n THEN Len(s) - n ELSE 0

\* What is left of a sequence is the end of it.
LEMMA NewestIsSuffix ==
  ASSUME NEW S, NEW s \in Seq(S), NEW n \in Nat \ {0}
  PROVE  /\ Newest(s, n) \in Seq(S) /\ Len(Newest(s, n)) = Len(s) - Cut(s, n)
         /\ Cut(s, n) \in Nat /\ Cut(s, n) <= Len(s) /\ Len(s) - Cut(s, n) <= n
         /\ \A i \in 1 .. Len(s) - Cut(s, n) : Newest(s, n)[i] = s[Cut(s, n) + i]
<1> DEFINE len == Len(s)
           k == Cut(s, n)
           t == SubSeq(s, k + 1, len)
<1>1. len \in Nat /\ \A i \in 1 .. len : s[i] \in S
  OBVIOUS
<1>2. t = Newest(s, n)
  BY <1>1 DEF Newest, Cut
<1>3. k \in Nat /\ k <= len /\ len - k <= n
  BY <1>1 DEF Cut
<1> HIDE DEF len, k
<1>4. \A i \in k + 1 .. len : s[i] \in S
  BY <1>1, <1>3
<1>5. t \in Seq(S)
  BY <1>1, <1>3, <1>4, SubSeqProperties
<1>6. Len(t) = len - k
  BY <1>1, <1>3, SubSeqProperties
<1>7. ASSUME NEW i \in 1 .. len - k PROVE t[i] = s[k + i]
  <2>1. t[i] = s[k + 1 + i - 1] /\ k + 1 + i - 1 = k + i
    BY <1>1, <1>3, SubSeqProperties
  <2>2. QED BY <2>1
<1> HIDE DEF t
<1>8. QED BY <1>2, <1>3, <1>5, <1>6, <1>7 DEF len, k

\* Add keeps a buffer one, moves its last on to what is offered and holds nothing else that is new.
LEMMA BufferAddKeeps ==
  ASSUME NEW b, BufferOK(b), NEW id \in Nat
  PROVE  /\ BufferOK(BufferAdd(b, id))
         /\ b.lastID <= BufferAdd(b, id).lastID /\ id <= BufferAdd(b, id).lastID
         /\ ToSet(BufferAdd(b, id).ids) \subseteq ToSet(b.ids) \union {id}
<1>1. CASE id <= b.lastID
  BY <1>1 DEF BufferAdd, BufferOK
<1>2. CASE ~(id <= b.lastID)
  <2> DEFINE s == Append(b.ids, id)
             t == Newest(s, Cap)
             len == Len(b.ids)
  <2>1. b.ids \in Seq(Nat) /\ b.lastID \in Nat /\ b.lastID < id /\ Cap \in Nat \ {0} /\ len \in Nat
        /\ (\A i \in 1 .. len : b.ids[i] <= b.lastID)
        /\ \A i, j \in 1 .. len : i < j => b.ids[i] < b.ids[j]
    BY <1>2, CapAssumption DEF BufferOK
  <2>2. BufferAdd(b, id) = [ids |-> t, lastID |-> id]
    BY <1>2 DEF BufferAdd
  <2>3. s \in Seq(Nat) /\ Len(s) = len + 1 /\ s[len + 1] = id /\ \A i \in 1 .. len : s[i] = b.ids[i]
    BY <2>1
  <2> HIDE DEF s, len
  <2>4. /\ \A i \in 1 .. len + 1 : s[i] \in Nat /\ s[i] <= id
        /\ \A i, j \in 1 .. len + 1 : i < j => s[i] < s[j]
    <3>1. \A i \in 1 .. len : s[i] \in Nat /\ s[i] < id
      BY <2>1, <2>3
    <3>2. ASSUME NEW i \in 1 .. len + 1 PROVE s[i] \in Nat /\ s[i] <= id
      <4>1. i \in 1 .. len \/ i = len + 1
        BY <2>1
      <4>2. QED BY <2>3, <3>1, <4>1
    <3>3. ASSUME NEW i \in 1 .. len + 1, NEW j \in 1 .. len + 1, i < j PROVE s[i] < s[j]
      <4>1. i \in 1 .. len /\ (j \in 1 .. len \/ j = len + 1)
        BY <2>1, <3>3
      <4>2. QED BY <2>1, <2>3, <3>1, <3>3, <4>1
    <3>4. QED BY <3>2, <3>3
  <2> DEFINE k == Cut(s, Cap)
             n == Len(t)
  <2>5. /\ t \in Seq(Nat) /\ n = len + 1 - k /\ k \in Nat /\ k <= len + 1 /\ n <= Cap
        /\ \A i \in 1 .. len + 1 - k : t[i] = s[k + i]
    <3>1. s \in Seq(Nat) /\ Cap \in Nat \ {0}
      BY <2>1, <2>3
    <3>2. PICK l : l = Len(s)
      OBVIOUS
    <3>3. /\ t \in Seq(Nat) /\ n = l - k /\ k \in Nat /\ k <= l /\ l - k <= Cap
          /\ \A i \in 1 .. l - k : t[i] = s[k + i]
      BY <3>1, <3>2, NewestIsSuffix
    <3>4. l = len + 1
      BY <2>3, <3>2
    <3> HIDE DEF t, k, n
    <3>5. QED BY <2>1, <3>3, <3>4
  <2> HIDE DEF t, k, n
  <2>6. n \in Nat /\ \A i \in 1 .. n : k + i \in 1 .. len + 1 /\ t[i] = s[k + i]
    BY <2>1, <2>5
  <2>7. /\ \A i \in 1 .. n : t[i] <= id
        /\ \A i, j \in 1 .. n : i < j => t[i] < t[j]
    <3>1. ASSUME NEW i \in 1 .. n PROVE t[i] <= id
      BY <2>4, <2>6
    <3>2. ASSUME NEW i \in 1 .. n, NEW j \in 1 .. n, i < j PROVE t[i] < t[j]
      <4>1. k + i < k + j /\ k + i \in 1 .. len + 1 /\ k + j \in 1 .. len + 1
        BY <2>5, <2>6, <3>2
      <4>2. QED BY <2>4, <2>6, <4>1
    <3>3. QED BY <3>1, <3>2
  <2>8. ToSet(t) \subseteq ToSet(b.ids) \union {id}
    <3> SUFFICES ASSUME NEW i \in DOMAIN t PROVE t[i] \in ToSet(b.ids) \union {id}
      BY DEF ToSet
    <3>1. i \in 1 .. n
      BY <2>5 DEF n
    <3>2. k + i \in 1 .. len + 1 /\ t[i] = s[k + i]
      BY <2>6, <3>1
    <3>3. k + i \in 1 .. len \/ k + i = len + 1
      BY <2>1, <3>2
    <3>4. DOMAIN b.ids = 1 .. len
      BY <2>1 DEF len
    <3>5. QED BY <2>3, <3>2, <3>3, <3>4 DEF ToSet
  <2>9. PICK c : c = BufferAdd(b, id)
    OBVIOUS
  <2>10. c.ids = t /\ c.lastID = id
    BY <2>2, <2>9
  <2>11. BufferOK(c)
    BY <2>5, <2>7, <2>10 DEF BufferOK, n
  <2>12. b.lastID <= c.lastID /\ id <= c.lastID /\ ToSet(c.ids) \subseteq ToSet(b.ids) \union {id}
    BY <2>1, <2>8, <2>10
  <2>13. QED BY <2>9, <2>11, <2>12
<1>3. id <= b.lastID \/ ~(id <= b.lastID)
  OBVIOUS
<1>4. QED BY <1>1, <1>2, <1>3

\* BufferAddsAfter is what such a table says of the whole list, ...
LEMMA FoldIsTable ==
  ASSUME NEW n
  PROVE  BufferAddsAfter(n) = AddsTable(n, DOMAIN list)[DOMAIN list]
BY DEF BufferAddsAfter, FoldLeft, MapThenFoldSet, AddsTable, AddsUnfolded, AddStep, AddOne

\* The last of the first k numbers.
LEMMA LastOfFirst ==
  ASSUME NEW k \in Nat \ {0}, NEW t \in SUBSET (1 .. k), k \in t
  PROVE  Max(t) = k
<1>1. \A x \in t : (\A y \in t : x >= y) => x = k
  OBVIOUS
<1>2. \A y \in t : k >= y
  OBVIOUS
<1>3. QED BY <1>1, <1>2 DEF Max

\* ... and there is such a table for a list of any length.
LEMMA AddsTableExists ==
  ASSUME NEW n, NEW len \in Nat
  PROVE  AddsUnfolded(AddsTable(n, 1 .. len), n, 1 .. len)
<1> DEFINE Bad == {k \in Nat : ~\E g : AddsUnfolded(g, n, 1 .. k)}
<1> SUFFICES ASSUME Bad # {} PROVE FALSE
  BY DEF AddsTable
<1>1. PICK k \in Bad : \A j \in Bad : k <= j
  <2>1. Bad \in SUBSET Nat
    OBVIOUS
  <2> HIDE DEF Bad
  <2>2. QED BY <2>1, SmallestNumber
<1>2. k # 0
  <2> SUFFICES ASSUME k = 0 PROVE FALSE
    OBVIOUS
  <2>1. 1 .. k = {}
    OBVIOUS
  <2> DEFINE g == [s \in SUBSET {} |-> buffer]
  <2>2. AddsUnfolded(g, n, {})
    BY DEF AddsUnfolded, AddStep
  <2>3. QED BY <2>1, <2>2
<1>3. k \in Nat \ {0} /\ k - 1 \in Nat
  BY <1>2
<1>4. k - 1 \notin Bad
  BY <1>1, <1>3
<1>5. PICK g : AddsUnfolded(g, n, 1 .. k - 1)
  BY <1>3, <1>4
<1> DEFINE h == [s \in SUBSET (1 .. k) |-> IF k \in s THEN AddOne(n, g[s \ {k}], list[k]) ELSE g[s]]
<1>6. ASSUME NEW s \in SUBSET (1 .. k) PROVE h[s] = AddStep(h, n, s)
  <2>1. CASE k \in s
    <3>1. Max(s) = k /\ s # {}
      BY <1>3, <2>1, LastOfFirst
    <3>2. s \ {k} \in SUBSET (1 .. k) /\ k \notin s \ {k}
      OBVIOUS
    <3>3. h[s \ {k}] = g[s \ {k}]
      BY <3>2
    <3>4. h[s] = AddOne(n, g[s \ {k}], list[k])
      BY <2>1
    <3> HIDE DEF h
    <3>5. QED BY <3>1, <3>3, <3>4 DEF AddStep
  <2>2. CASE k \notin s
    <3>1. s \in SUBSET (1 .. k - 1)
      BY <1>3, <2>2
    <3>2. h[s] = AddStep(g, n, s)
      BY <1>5, <2>2, <3>1 DEF AddsUnfolded
    <3>3. CASE s = {}
      BY <3>2, <3>3 DEF AddStep
    <3>4. CASE s # {}
      <4>1. k \notin s \ {Max(s)} /\ s \ {Max(s)} \in SUBSET (1 .. k)
        BY <2>2
      <4>2. h[s \ {Max(s)}] = g[s \ {Max(s)}]
        BY <4>1
      <4> HIDE DEF h
      <4>3. QED BY <3>2, <3>4, <4>2 DEF AddStep
    <3>5. QED BY <3>3, <3>4
  <2>3. QED BY <2>1, <2>2
<1>7. h = [s \in SUBSET (1 .. k) |-> h[s]]
  OBVIOUS
<1> HIDE DEF h
<1>8. AddsUnfolded(h, n, 1 .. k)
  BY <1>6, <1>7 DEF AddsUnfolded
<1>9. QED BY <1>1, <1>8

\* What the buffer has become after the first k deals.
AddsSoFar(b, n, k) ==
  /\ BufferOK(b) /\ n <= b.lastID
  /\ ToSet(b.ids) \subseteq ToSet(buffer.ids) \union IdsAfter(n)
  /\ \A i \in 1 .. k : list[i].id > n => list[i].id <= b.lastID

\* One more deal is offered.
LEMMA AddOneKeeps ==
  ASSUME list \in Seq(Deals), NEW n \in Nat, NEW k \in Nat, k + 1 \in 1 .. Len(list),
         NEW b, AddsSoFar(b, n, k)
  PROVE  AddsSoFar(AddOne(n, b, list[k + 1]), n, k + 1)
<1>1. PICK d : d = list[k + 1]
  OBVIOUS
<1>2. d \in Deals /\ d.id \in Nat /\ d \in ToSet(list)
  BY <1>1, PushAssumption DEF ToSet
<1>3. \A i \in 1 .. k + 1 : i \in 1 .. k \/ list[i] = d
  BY <1>1
<1>4. b.lastID \in Nat /\ \A i \in 1 .. k : list[i].id \in Nat
  BY PushAssumption DEF AddsSoFar, BufferOK
<1>5. CASE d.id > n
  <2>1. PICK c : c = BufferAdd(b, d.id)
    OBVIOUS
  <2>2. c = AddOne(n, b, d)
    BY <1>5, <2>1 DEF AddOne
  <2>3. /\ BufferOK(c) /\ b.lastID <= c.lastID /\ d.id <= c.lastID
        /\ ToSet(c.ids) \subseteq ToSet(b.ids) \union {d.id}
    BY <1>2, <2>1, BufferAddKeeps DEF AddsSoFar
  <2>4. c.lastID \in Nat
    BY <2>3 DEF BufferOK
  <2>5. d.id \in IdsAfter(n)
    BY <1>2, <1>5 DEF IdsAfter
  <2>6. n <= c.lastID
    BY <1>4, <2>3, <2>4 DEF AddsSoFar
  <2>7. \A i \in 1 .. k + 1 : list[i].id > n => list[i].id <= c.lastID
    <3> SUFFICES ASSUME NEW i \in 1 .. k + 1, list[i].id > n PROVE list[i].id <= c.lastID
      OBVIOUS
    <3>1. CASE list[i] = d
      BY <2>3, <3>1
    <3>2. CASE i \in 1 .. k
      <4>1. list[i].id <= b.lastID /\ list[i].id \in Nat
        BY <1>4, <3>2 DEF AddsSoFar
      <4>2. QED BY <1>4, <2>3, <2>4, <4>1
    <3>3. QED BY <1>3, <3>1, <3>2
  <2>8. AddsSoFar(c, n, k + 1)
    BY <2>3, <2>5, <2>6, <2>7 DEF AddsSoFar
  <2>9. QED BY <1>1, <2>2, <2>8
<1>6. CASE ~(d.id > n)
  <2>1. AddOne(n, b, d) = b
    BY <1>6 DEF AddOne
  <2>2. \A i \in 1 .. k + 1 : list[i].id > n => list[i].id <= b.lastID
    BY <1>3, <1>6 DEF AddsSoFar
  <2>3. AddsSoFar(b, n, k + 1)
    BY <2>2 DEF AddsSoFar
  <2>4. QED BY <1>1, <2>1, <2>3
<1>7. QED BY <1>5, <1>6

\* By induction on k, the whole list.
LEMMA BufferTakesList ==
  ASSUME list \in Seq(Deals), BufferOK(buffer), NEW n, n = buffer.lastID
  PROVE  AddsSoFar(BufferAddsAfter(n), n, Len(list))
<1> DEFINE len == Len(list)
           T == AddsTable(n, 1 .. len)
           Bad == {k \in Nat : k <= len /\ ~AddsSoFar(T[1 .. k], n, k)}
<1>1. len \in Nat /\ DOMAIN list = 1 .. len /\ n \in Nat
  BY DEF BufferOK
<1>2. BufferAddsAfter(n) = T[1 .. len]
  BY <1>1, FoldIsTable
<1>3. AddsUnfolded(T, n, 1 .. len)
  BY <1>1, AddsTableExists
<1> SUFFICES ASSUME Bad # {} PROVE FALSE
  BY <1>1, <1>2
<1>4. PICK k \in Bad : \A j \in Bad : k <= j
  <2>1. Bad \in SUBSET Nat
    OBVIOUS
  <2> HIDE DEF Bad
  <2>2. QED BY <2>1, SmallestNumber
<1> HIDE DEF T
<1>5. k # 0
  <2> SUFFICES ASSUME k = 0 PROVE FALSE
    OBVIOUS
  <2>1. 1 .. k = {}
    OBVIOUS
  <2>2. T[{}] = AddStep(T, n, {})
    BY <1>3 DEF AddsUnfolded
  <2>3. T[{}] = buffer
    BY <2>2 DEF AddStep
  <2>4. AddsSoFar(buffer, n, 0)
    BY <1>1 DEF AddsSoFar
  <2>5. QED BY <2>1, <2>3, <2>4
<1>6. PICK j : j = k - 1
  OBVIOUS
<1>7. j \in Nat /\ j + 1 = k /\ j + 1 \in 1 .. len /\ k \in Nat \ {0} /\ j <= len
  BY <1>1, <1>4, <1>5, <1>6
<1>8. AddsSoFar(T[1 .. j], n, j)
  <2>1. j \notin Bad
    BY <1>4, <1>7
  <2>2. QED BY <1>7, <2>1
<1>9. T[1 .. k] = AddOne(n, T[1 .. j], list[k])
  <2>1. Max(1 .. k) = k
    <3>1. 1 .. k \in SUBSET (1 .. k) /\ k \in 1 .. k
      BY <1>7
    <3>2. QED BY <1>7, <3>1, LastOfFirst
  <2>2. (1 .. k) \ {k} = 1 .. j /\ 1 .. k # {} /\ 1 .. k \in SUBSET (1 .. len)
    <3> HIDE DEF Bad, len
    <3>1. \A i : i \in (1 .. k) \ {k} <=> i \in 1 .. j
      BY <1>7
    <3>2. k \in 1 .. k /\ \A i \in 1 .. k : i \in 1 .. len
      BY <1>1, <1>7
    <3>3. QED BY <3>1, <3>2
  <2>3. T[1 .. k] = AddStep(T, n, 1 .. k)
    BY <1>3, <2>2 DEF AddsUnfolded
  <2>4. QED BY <2>1, <2>2, <2>3 DEF AddStep
<1>10. AddsSoFar(T[1 .. k], n, k)
  <2>1. AddsSoFar(AddOne(n, T[1 .. j], list[j + 1]), n, j + 1)
    <3> HIDE DEF Bad
    <3>1. QED BY <1>1, <1>7, <1>8, AddOneKeeps
  <2>2. QED BY <1>7, <1>9, <2>1
<1>11. QED BY <1>4, <1>10

\* A poll that finds deals: the buffer's last is then later than it was, none of them is later.
LEMMA BufferMovesOn ==
  ASSUME list \in Seq(Deals), BufferOK(buffer), NEW n, n = buffer.lastID, IdsAfter(n) # {}
  PROVE  LET b == BufferAddsAfter(n) IN
         /\ BufferOK(b) /\ b.lastID > n
         /\ \A id \in IdsAfter(n) : id \in Nat /\ id > n /\ id <= b.lastID
         /\ ToSet(b.ids) \subseteq ToSet(buffer.ids) \union IdsAfter(n)
<1>1. PICK b : b = BufferAddsAfter(n)
  OBVIOUS
<1>2. AddsSoFar(b, n, Len(list))
  BY <1>1, BufferTakesList
<1>3. BufferOK(b) /\ b.lastID \in Nat /\ n \in Nat /\ ToSet(b.ids) \subseteq ToSet(buffer.ids) \union IdsAfter(n)
  BY <1>2 DEF AddsSoFar, BufferOK
<1>4. ASSUME NEW id \in IdsAfter(n) PROVE id \in Nat /\ id > n /\ id <= b.lastID
  <2>1. PICK i \in 1 .. Len(list) : id = list[i].id /\ list[i].id > n
    BY DEF IdsAfter, ToSet
  <2>2. list[i].id \in Nat
    BY PushAssumption
  <2>3. QED BY <1>2, <2>1, <2>2 DEF AddsSoFar
<1>5. b.lastID > n
  BY <1>3, <1>4
<1>6. QED BY <1>1, <1>3, <1>4, <1>5

-----------------------------------------------------------------------------
(* The feed *)

Behind   == IF poll.pc = "push" THEN poll.ids ELSE {}
\* A session that came when no push was under way: subscribed, and it has what the buffer has,
\* but for what is about to be pushed, of which it has nothing.
Served(s) ==
  /\ session[s].state = "open" => <<"deals", Nobody, s>> \in subs /\ ToSet(buffer.ids) \subseteq got[s] \union Behind
  /\ got[s] \intersect Behind = {}
FeedOK ==
  /\ list \in Seq(Deals) /\ BufferOK(buffer)
  /\ got \in [Sessions -> SUBSET (0 .. buffer.lastID)] /\ steady \in [Sessions -> BOOLEAN]
  /\ Behind \subseteq 0 .. buffer.lastID
  /\ \A s \in Sessions : steady[s] => Served(s)
  /\ ~repeated

\* A worker that has sent a session the buffer b: the session has what is in b, if b is still
\* the one it was sent; and one that has authenticated a session.
JobOK(job, ss, b, has, kinds) ==
  /\ job.pc = "user" => ss[job.s].auth
  /\ job.pc = "deals" => /\ "deals" \in kinds /\ job.lastID \in 0 .. b.lastID
                         /\ job.lastID = b.lastID => ToSet(b.ids) \subseteq has[job.s]
  /\ job.pc = "store" => job.value \in 0 .. MaxVersion
JobsOK == \A i \in 1 .. Len(work) : JobOK(work[i], session, buffer, got, theme)

UsersOK   == \A s \in Sessions : session[s].user # Nobody => session[s].auth
ChannelOK ==
  /\ theme \in Themes
  /\ \A m \in msgChan : m.op = "auth" \/ m.kind \in theme
  /\ \A sub \in subs : (sub[1] \in Private \/ sub[2] = Nobody) /\ sub[1] \in theme
PollOK ==
  \/ poll = Asleep
  \/ \E ids : poll = [pc |-> "push", ids |-> ids]
  \/ \E pc \in {"store", "tell"}, kind \in Polled, value \in -1 .. MaxVersion :
       poll = [pc |-> pc, kind |-> kind, value |-> value]
CacheOK   == version \in 0 .. MaxVersion /\ cache \in [Cacheable -> [value : -1 .. MaxVersion, fresh : BOOLEAN]]
KafkaOK   ==
  /\ events \in Seq(Users) /\ Len(events) <= MaxEvents /\ read \in 0 .. Len(events)
  /\ posting \in Seq(Notifications) /\ Len(posting) <= 2
  /\ {asking, balances} \subseteq Users \union {Nobody}
  /\ notifyCh \in Seq(Notifications) /\ Len(notifyCh) <= NotifyCap

PushInv == OwnInv /\ FeedOK /\ JobsOK /\ UsersOK /\ ChannelOK /\ PollOK /\ CacheOK /\ KafkaOK

\* At the start nothing is in the buffer, the cache or a channel.
LEMMA PushStartsOK == Init => PushInv
<1> SUFFICES ASSUME Init PROVE PushInv
  OBVIOUS
<1>1. OwnInv
  BY NobodyToldYet
<1>2. FeedOK
  <2>1. list = <<>> /\ buffer = [ids |-> <<>>, lastID |-> 0] /\ poll = [pc |-> "asleep"]
        /\ got = [s \in Sessions |-> {}] /\ steady = [s \in Sessions |-> FALSE] /\ ~repeated
    BY DEF Init, DealListInit, Asleep
  <2>2. list \in Seq(Deals) /\ Behind = {}
    BY <2>1 DEF Behind
  <2>3. BufferOK(buffer)
    <3>1. buffer.ids = <<>> /\ buffer.lastID = 0
      BY <2>1
    <3>2. buffer.ids \in Seq(Nat) /\ Len(buffer.ids) = 0
      BY <3>1
    <3>3. QED BY <3>1, <3>2, CapAssumption DEF BufferOK
  <2>4. got \in [Sessions -> SUBSET (0 .. buffer.lastID)] /\ steady \in [Sessions -> BOOLEAN]
        /\ \A s \in Sessions : ~steady[s]
    BY <2>1
  <2>5. QED BY <2>1, <2>2, <2>3, <2>4 DEF FeedOK
<1>3. JobsOK
  <2>1. work = <<>>
    BY DEF Init
  <2>2. Len(work) = 0
    BY <2>1
  <2>3. QED BY <2>2 DEF JobsOK
<1>4. UsersOK /\ ChannelOK /\ PollOK
  BY DEF Init, UsersOK, ChannelOK, PollOK
<1>5. CacheOK
  BY PushAssumption DEF Init, CacheOK
<1>6. KafkaOK
  <2>1. events = <<>> /\ read = 0 /\ posting = <<>> /\ notifyCh = <<>> /\ asking = Nobody /\ balances = Nobody
    BY DEF Init
  <2>2. Len(<<>>) = 0 /\ \A S : <<>> \in Seq(S)
    OBVIOUS
  <2>3. QED BY <2>1, <2>2, PushAssumption DEF KafkaOK
<1>7. QED BY <1>1, <1>2, <1>3, <1>4, <1>5, <1>6 DEF PushInv

\* Sessions: none opens again, none loses its authentication.
LEMMA SessionsGoOn ==
  ASSUME PushInv, [Next]_vars
  PROVE  /\ UsersOK'
         /\ \A s \in Sessions : /\ session'[s].state = "open" => session[s].state = "open"
                                /\ session[s].auth => session'[s].auth
<1> DEFINE Kept == /\ UsersOK'
                   /\ \A s \in Sessions : /\ session'[s].state = "open" => session[s].state = "open"
                                          /\ session[s].auth => session'[s].auth
<1>a. UsersOK /\ SessionsOK /\ WorkOK /\ JobsOK
  BY DEF PushInv, OwnInv
<1>b. session \in [Sessions -> [state : {"open", "dead", "gone"}, auth : BOOLEAN, user : Users \union {Nobody}]]
  BY <1>a DEF SessionsOK
<1>1. ASSUME session' = session PROVE Kept
  BY <1>1, <1>a DEF UsersOK
<1>2. CASE \E s \in Sessions : MarkDead(s) \/ RemoveSession(s)
  <2>1. PICK s \in Sessions, state \in {"dead", "gone"} : session' = [session EXCEPT ![s].state = state]
    BY <1>2 DEF MarkDead, RemoveSession
  <2>2. QED BY <1>a, <1>b, <2>1 DEF UsersOK
<1>3. CASE \E m \in msgChan : HandleAuth(m)
  <2>1. PICK m \in msgChan : session' = session \/ session' = [session EXCEPT ![m.s].auth = TRUE]
    BY <1>3 DEF HandleAuth
  <2>2. m.s \in Sessions
    BY MessagesAreRequests DEF PushInv
  <2>3. CASE session' = [session EXCEPT ![m.s].auth = TRUE]
    BY <1>a, <1>b, <2>2, <2>3 DEF UsersOK
  <2>4. QED BY <1>1, <2>1, <2>3
<1>4. CASE \E i \in 1 .. Len(work) : SetUser(i)
  <2>1. PICK i \in 1 .. Len(work) : SetUser(i)
    BY <1>4
  <2>2. /\ work[i].pc = "user" /\ session' = [session EXCEPT ![work[i].s].user = work[i].user]
        /\ work[i].s \in Sessions /\ session[work[i].s].auth
    BY <1>a, <2>1 DEF SetUser, WorkOK, JobFits, JobsOK, JobOK
  <2>3. QED BY <1>a, <1>b, <2>2 DEF UsersOK
<1>5. ASSUME ~(\E s \in Sessions : MarkDead(s) \/ RemoveSession(s)), ~(\E m \in msgChan : HandleAuth(m)),
             ~(\E i \in 1 .. Len(work) : SetUser(i))
      PROVE  session' = session
  BY <1>5 DEF Next, Worker, Poller, ReadLoop, HandleOrderSubscribe, HandleOrderUnsubscribe, HandleOrderQuery,
       HandleAssetSubscribe, HandleAssetUnsubscribe, HandleAssetQuery, PrivateQuery, HandleMarketSubscribe,
       HandleMarketUnsubscribe, HandleDealsSubscribe, HandleMarketQuery, RegisterDeals, QueryStores,
       PollDeals, PushDeals, PollMarket, PollStores, PollTells, PollFails, Expires, MarketMoves, ServiceSteps,
       EngineEvent, BalanceEvent, OrdersConsumer, ConsumeOrder, Post, BalancesConsumer, ConsumeBalance,
       BalanceAnswered, BalanceQueryFails, SendNotification, sessionVars, pushVars, vars
<1>6. QED BY <1>1, <1>2, <1>3, <1>4, <1>5

\* What clients ask for and subscribe to.
LEMMA ChannelKept ==
  ASSUME PushInv, [Next]_vars
  PROVE  ChannelOK'
<1>a. /\ theme \in Themes
      /\ \A m \in msgChan : m.op = "auth" \/ m.kind \in theme
      /\ \A sub \in subs : (sub[1] \in Private \/ sub[2] = Nobody) /\ sub[1] \in theme
      /\ JobsOK
  BY DEF PushInv, ChannelOK
<1>1. ASSUME theme' = theme, msgChan' \subseteq msgChan,
             \/ subs' \subseteq subs
             \/ \E kind \in Private \intersect theme : \E u, s : subs' = subs \union {<<kind, u, s>>}
             \/ \E kind \in theme : \E s : subs' = subs \union {<<kind, Nobody, s>>}
      PROVE  ChannelOK'
  BY <1>1, <1>a DEF ChannelOK
<1>2. CASE \E m \in Asks : ReadLoop(m)
  <2>1. PICK m \in Asks : msgChan' = msgChan \union {m} /\ theme' = theme /\ subs' = subs
    BY <1>2 DEF ReadLoop
  <2>2. m.op = "auth" \/ m.kind \in theme
    BY DEF Asks
  <2>3. QED BY <1>a, <2>1, <2>2 DEF ChannelOK
<1>3. CASE \E m \in msgChan : HandleOrderSubscribe(m) \/ HandleAssetSubscribe(m)
  <2>1. PICK m \in msgChan : HandleOrderSubscribe(m) \/ HandleAssetSubscribe(m)
    BY <1>3
  <2>2. m.kind \in Private \intersect theme /\ theme' = theme /\ msgChan' \subseteq msgChan
    BY <1>a, <2>1 DEF HandleOrderSubscribe, HandleAssetSubscribe, Take, Private
  <2>3. subs' = subs \/ subs' = subs \union {<<m.kind, session[m.s].user, m.s>>}
    BY <2>1 DEF HandleOrderSubscribe, HandleAssetSubscribe, OrderSubscribe, AssetSubscribe
  <2>4. QED BY <1>1, <2>2, <2>3
<1>4. CASE \E m \in msgChan : HandleMarketSubscribe(m)
  <2>1. PICK m \in msgChan : HandleMarketSubscribe(m)
    BY <1>4
  <2>2. m.kind \in theme /\ theme' = theme /\ msgChan' \subseteq msgChan /\ subs' = subs \union {<<m.kind, Nobody, m.s>>}
    BY <1>a, <2>1 DEF HandleMarketSubscribe, Take, MarketSubscribe
  <2>3. QED BY <1>1, <2>2
<1>5. CASE \E i \in 1 .. Len(work) : RegisterDeals(i)
  <2>1. PICK i \in 1 .. Len(work) : RegisterDeals(i)
    BY <1>5
  <2>2. "deals" \in theme
    BY <1>a, <2>1 DEF RegisterDeals, JobsOK, JobOK
  <2>3. theme' = theme /\ msgChan' = msgChan /\ subs' = subs \union {<<"deals", Nobody, work[i].s>>}
    BY <2>1 DEF RegisterDeals, MarketSubscribe, sessionVars
  <2>4. QED BY <1>1, <2>2, <2>3
<1>6. ASSUME ~(\E m \in Asks : ReadLoop(m)), ~(\E i \in 1 .. Len(work) : RegisterDeals(i)),
             ~(\E m \in msgChan : HandleOrderSubscribe(m) \/ HandleAssetSubscribe(m) \/ HandleMarketSubscribe(m))
      PROVE  theme' = theme /\ msgChan' \subseteq msgChan /\ subs' \subseteq subs
  BY <1>6 DEF Next, Worker, Poller, MarkDead, RemoveSession, HandleAuth, HandleOrderUnsubscribe, HandleOrderQuery,
       HandleAssetUnsubscribe, HandleAssetQuery, PrivateQuery, OrderUnsubscribe, AssetUnsubscribe, MarketUnsubscribe,
       HandleMarketUnsubscribe, HandleDealsSubscribe, HandleMarketQuery, SetUser, QueryStores, Take,
       PollDeals, PushDeals, PollMarket, PollStores, PollTells, PollFails, Expires, MarketMoves, ServiceSteps,
       EngineEvent, BalanceEvent, OrdersConsumer, ConsumeOrder, Post, BalancesConsumer, ConsumeBalance,
       BalanceAnswered, BalanceQueryFails, SendNotification, sessionVars, pushVars, vars
<1>7. QED BY <1>1, <1>2, <1>3, <1>4, <1>5, <1>6

\* The events on their way to those they are about.
LEMMA KafkaKept ==
  ASSUME PushInv, [Next]_vars
  PROVE  KafkaOK'
<1>a. /\ events \in Seq(Users) /\ Len(events) <= MaxEvents /\ read \in 0 .. Len(events)
      /\ posting \in Seq(Notifications) /\ Len(posting) <= 2
      /\ {asking, balances} \subseteq Users \union {Nobody}
      /\ notifyCh \in Seq(Notifications) /\ Len(notifyCh) <= NotifyCap
  BY DEF PushInv, KafkaOK
<1>b. MaxEvents \in Nat /\ NotifyCap \in Nat /\ Len(events) \in Nat /\ Len(notifyCh) \in Nat /\ Len(posting) \in Nat
  BY <1>a, PushAssumption
<1>n. \A method \in Private, u \in Users, n \in 0 .. MaxEvents : [method |-> method, user |-> u, n |-> n] \in Notifications
  BY DEF Notifications
<1>c. \A n \in Notifications : /\ Append(notifyCh, n) \in Seq(Notifications)
                               /\ Len(Append(notifyCh, n)) = Len(notifyCh) + 1
  BY <1>a
<1>1. CASE UNCHANGED kafkaVars
  BY <1>1, <1>a DEF kafkaVars, KafkaOK
<1>2. CASE \E u \in Users : EngineEvent(u)
  <2>1. PICK u \in Users : Len(events) < MaxEvents /\ events' = Append(events, u)
                           /\ UNCHANGED <<read, posting, balances, asking, notifyCh>>
    BY <1>2 DEF EngineEvent
  <2>2. events' \in Seq(Users) /\ Len(events') = Len(events) + 1
    BY <1>a, <2>1
  <2>3. Len(events') <= MaxEvents /\ read \in 0 .. Len(events')
    BY <1>a, <1>b, <2>1, <2>2
  <2>4. QED BY <1>a, <2>1, <2>2, <2>3 DEF KafkaOK
<1>3. CASE \E u \in Users : BalanceEvent(u)
  BY <1>3, <1>a DEF BalanceEvent, KafkaOK
<1>4. CASE ConsumeOrder
  <2>1. read < Len(events) /\ read' = read + 1 /\ UNCHANGED <<events, balances, asking, notifyCh>>
    BY <1>4 DEF ConsumeOrder
  <2>2. read + 1 \in 1 .. Len(events) /\ read + 1 \in 0 .. MaxEvents /\ 0 \in 0 .. MaxEvents
    BY <1>a, <1>b, <2>1
  <2>3. PICK p, q : /\ posting' = <<p, q>> /\ p = [method |-> "order", user |-> events[read + 1], n |-> read + 1]
                    /\ q = [method |-> "asset", user |-> events[read + 1], n |-> 0]
    BY <1>4 DEF ConsumeOrder
  <2>4. p \in Notifications /\ q \in Notifications
    <3>1. events[read + 1] \in Users
      BY <1>a, <2>2
    <3>2. "order" \in Private /\ "asset" \in Private
      BY DEF Private
    <3>3. QED BY <1>n, <2>2, <2>3, <3>1, <3>2
  <2>5. posting' \in Seq(Notifications) /\ Len(posting') = 2
    BY <2>3, <2>4
  <2>6. QED BY <1>a, <2>1, <2>2, <2>5 DEF KafkaOK
<1>5. CASE Post
  <2>1. /\ posting # <<>> /\ Len(notifyCh) < NotifyCap /\ notifyCh' = Append(notifyCh, Head(posting))
        /\ posting' = Tail(posting) /\ UNCHANGED <<events, read, balances, asking>>
    BY <1>5 DEF Post
  <2>2. Head(posting) \in Notifications /\ posting' \in Seq(Notifications) /\ Len(posting') = Len(posting) - 1
    BY <1>a, <2>1
  <2>3. notifyCh' \in Seq(Notifications) /\ Len(notifyCh') = Len(notifyCh) + 1
    BY <1>c, <2>1, <2>2
  <2>4. Len(notifyCh') <= NotifyCap /\ Len(posting') <= 2
    BY <1>a, <1>b, <2>1, <2>2, <2>3
  <2>5. QED BY <1>a, <2>1, <2>2, <2>3, <2>4 DEF KafkaOK
<1>6. CASE ConsumeBalance \/ BalanceQueryFails
  BY <1>6, <1>a DEF ConsumeBalance, BalanceQueryFails, KafkaOK
<1>7. CASE BalanceAnswered
  <2>1. /\ asking # Nobody /\ Len(notifyCh) < NotifyCap /\ asking' = Nobody /\ UNCHANGED <<events, read, posting, balances>>
        /\ notifyCh' = Append(notifyCh, [method |-> "asset", user |-> asking, n |-> 0])
    BY <1>7 DEF BalanceAnswered
  <2>2. [method |-> "asset", user |-> asking, n |-> 0] \in Notifications
    BY <1>a, <1>b, <1>n, <2>1 DEF Private
  <2>3. notifyCh' \in Seq(Notifications) /\ Len(notifyCh') = Len(notifyCh) + 1
    BY <1>c, <2>1, <2>2
  <2>4. Len(notifyCh') <= NotifyCap
    BY <1>b, <2>1, <2>3
  <2>5. QED BY <1>a, <2>1, <2>3, <2>4 DEF KafkaOK
<1>8. CASE SendNotification
  <2>1. notifyCh # <<>> /\ notifyCh' = Tail(notifyCh) /\ UNCHANGED <<events, read, posting, balances, asking>>
    BY <1>8 DEF SendNotification
  <2>2. notifyCh' \in Seq(Notifications) /\ Len(notifyCh') = Len(notifyCh) - 1
    BY <1>a, <2>1
  <2>3. Len(notifyCh') <= NotifyCap
    BY <1>a, <1>b, <2>2
  <2>4. QED BY <1>a, <2>1, <2>2, <2>3 DEF KafkaOK
<1>9. ASSUME ~(\E u \in Users : EngineEvent(u) \/ BalanceEvent(u)), ~ConsumeOrder, ~Post, ~ConsumeBalance,
             ~BalanceQueryFails, ~BalanceAnswered, ~SendNotification
      PROVE  UNCHANGED kafkaVars
  BY <1>9 DEF Next, Worker, Poller, ReadLoop, MarkDead, RemoveSession, HandleAuth, HandleOrderSubscribe,
       HandleOrderUnsubscribe, HandleOrderQuery, HandleAssetSubscribe, HandleAssetUnsubscribe, HandleAssetQuery,
       PrivateQuery, HandleMarketSubscribe, HandleMarketUnsubscribe, HandleDealsSubscribe, HandleMarketQuery,
       SetUser, RegisterDeals, QueryStores, PollDeals, PushDeals, PollMarket, PollStores, PollTells, PollFails,
       Expires, MarketMoves, ServiceSteps, OrdersConsumer, BalancesConsumer, kafkaVars, pushVars, vars
<1>10. QED BY <1>1, <1>2, <1>3, <1>4, <1>5, <1>6, <1>7, <1>8, <1>9

\* The cache, and what the poller has for it and from it.
LEMMA CacheKept ==
  ASSUME PushInv, [Next]_vars
  PROVE  CacheOK' /\ PollOK'
<1>a. version \in 0 .. MaxVersion /\ cache \in [Cacheable -> [value : -1 .. MaxVersion, fresh : BOOLEAN]]
      /\ MaxVersion \in Nat /\ JobsOK
  BY PushAssumption DEF PushInv, CacheOK
<1>b. PollOK
  BY DEF PushInv
<1>s. ASSUME NEW kind, NEW value \in -1 .. MaxVersion, Store(kind, value)
      PROVE  cache' \in [Cacheable -> [value : -1 .. MaxVersion, fresh : BOOLEAN]]
  BY <1>a, <1>s DEF Store
<1>p. ASSUME NEW pc \in {"store", "tell"}, NEW kind \in Polled, NEW value \in -1 .. MaxVersion,
             poll' = [pc |-> pc, kind |-> kind, value |-> value]
      PROVE  PollOK'
  BY <1>p DEF PollOK
<1>z. poll' = poll \/ poll' = Asleep => PollOK'
  BY <1>b DEF PollOK
<1>t. poll.pc \in {"store", "tell"} => \E pc \in {"store", "tell"}, kind \in Polled, value \in -1 .. MaxVersion :
        poll = [pc |-> pc, kind |-> kind, value |-> value]
  BY <1>b DEF PollOK, Asleep
<1>1. CASE UNCHANGED <<cache, version>> /\ (poll' = poll \/ poll' = Asleep)
  BY <1>1, <1>a, <1>z DEF CacheOK
<1>2. CASE \E i \in 1 .. Len(work) : QueryStores(i)
  <2>1. PICK i \in 1 .. Len(work) : QueryStores(i)
    BY <1>2
  <2>2. work[i].value \in -1 .. MaxVersion
    BY <1>a, <2>1 DEF QueryStores, JobsOK, JobOK
  <2>3. version' = version /\ poll' = poll /\ Store(work[i].kind, work[i].value)
    BY <2>1 DEF QueryStores
  <2>4. QED BY <1>a, <1>s, <1>z, <2>2, <2>3 DEF CacheOK
<1>3. CASE \E kind \in Polled : PollMarket(kind)
  <2>1. PICK kind \in Polled : PollMarket(kind)
    BY <1>3
  <2>2. CacheOK'
    BY <1>a, <2>1 DEF PollMarket, cacheVars, CacheOK
  <2>3. CASE Cached(kind)
    <3>1. cache[kind].value \in -1 .. MaxVersion
      BY <1>a, <2>3 DEF Cached
    <3>2. poll' = [pc |-> "tell", kind |-> kind, value |-> cache[kind].value]
      BY <2>1, <2>3 DEF PollMarket
    <3>3. QED BY <1>p, <2>2, <3>1, <3>2
  <2>4. CASE ~Cached(kind)
    <3>1. version \in -1 .. MaxVersion
      BY <1>a
    <3>2. poll' = [pc |-> "store", kind |-> kind, value |-> version]
      BY <2>1, <2>4 DEF PollMarket
    <3>3. QED BY <1>p, <2>2, <3>1, <3>2
  <2>5. QED BY <2>3, <2>4
<1>4. CASE PollStores
  <2>1. poll.pc = "store" /\ Store(poll.kind, poll.value) /\ poll' = [poll EXCEPT !.pc = "tell"] /\ version' = version
    BY <1>4 DEF PollStores
  <2>2. PICK pc \in {"store", "tell"}, kind \in Polled, value \in -1 .. MaxVersion :
          poll = [pc |-> pc, kind |-> kind, value |-> value]
    BY <1>t, <2>1
  <2>3. poll.value = value /\ poll' = [pc |-> "tell", kind |-> kind, value |-> value]
    BY <2>1, <2>2
  <2>4. PollOK'
    BY <1>p, <2>3
  <2>5. QED BY <1>a, <1>s, <2>1, <2>3, <2>4 DEF CacheOK
<1>5. CASE \E k \in Cacheable : Expires(k)
  <2>1. PICK k \in Cacheable : cache' = [cache EXCEPT ![k] = [value |-> -1, fresh |-> FALSE]]
                               /\ version' = version /\ poll' = poll
    BY <1>5 DEF Expires
  <2>2. [value |-> -1, fresh |-> FALSE] \in [value : -1 .. MaxVersion, fresh : BOOLEAN]
    BY <1>a
  <2>3. QED BY <1>a, <1>z, <2>1, <2>2 DEF CacheOK
<1>6. CASE MarketMoves
  <2>1. version < MaxVersion /\ version' = version + 1 /\ cache' = cache /\ poll' = poll
    BY <1>6 DEF MarketMoves
  <2>2. QED BY <1>a, <1>z, <2>1 DEF CacheOK
<1>7. CASE PollDeals
  <2>1. UNCHANGED <<cache, version>> /\ \E ids : poll' = [pc |-> "push", ids |-> ids]
    BY <1>7 DEF PollDeals, cacheVars
  <2>2. QED BY <1>a, <2>1 DEF CacheOK, PollOK
<1>8. ASSUME ~(\E i \in 1 .. Len(work) : QueryStores(i)), ~(\E kind \in Polled : PollMarket(kind)), ~PollStores,
             ~(\E k \in Cacheable : Expires(k)), ~MarketMoves, ~PollDeals
      PROVE  UNCHANGED <<cache, version>> /\ (poll' = poll \/ poll' = Asleep)
  BY <1>8 DEF Next, Worker, Poller, ReadLoop, MarkDead, RemoveSession, HandleAuth, HandleOrderSubscribe,
       HandleOrderUnsubscribe, HandleOrderQuery, HandleAssetSubscribe, HandleAssetUnsubscribe, HandleAssetQuery,
       PrivateQuery, HandleMarketSubscribe, HandleMarketUnsubscribe, HandleDealsSubscribe, HandleMarketQuery,
       SetUser, RegisterDeals, PushDeals, PollTells, PollFails, ServiceSteps, EngineEvent, BalanceEvent,
       OrdersConsumer, ConsumeOrder, Post, BalancesConsumer, ConsumeBalance, BalanceAnswered, BalanceQueryFails,
       SendNotification, cacheVars, pushVars, vars
<1>9. QED BY <1>1, <1>2, <1>3, <1>4, <1>5, <1>6, <1>7, <1>8

\* The list that is polled stays a list of deals.
LEMMA ListStays ==
  ASSUME list \in Seq(Deals), DealListNext
  PROVE  list' \in Seq(Deals)
<1>1. CASE \E d \in Deals : ListDeal(d)
  <2>1. PICK d \in Deals : list' = Newest(Append(list, d), Cap)
    BY <1>1 DEF ListDeal
  <2>2. Append(list, d) \in Seq(Deals)
    OBVIOUS
  <2>3. QED BY <2>1, <2>2, CapAssumption, NewestIsSuffix
<1>2. CASE ServiceRestarts \/ TopicRewinds
  <2>1. <<>> \in Seq(Deals)
    OBVIOUS
  <2>2. QED BY <1>2, <2>1 DEF ServiceRestarts, TopicRewinds
<1>3. QED BY <1>1, <1>2 DEF DealListNext

\* The feed: the buffer, those who are to have what is in it, and the push under way.
LEMMA FeedKept ==
  ASSUME PushInv, [Next]_vars
  PROVE  FeedOK'
<1>a. /\ list \in Seq(Deals) /\ BufferOK(buffer) /\ ~repeated
      /\ got \in [Sessions -> SUBSET (0 .. buffer.lastID)] /\ steady \in [Sessions -> BOOLEAN]
      /\ Behind \subseteq 0 .. buffer.lastID
      /\ \A s \in Sessions : steady[s] => Served(s)
  BY DEF PushInv, FeedOK
<1>b. OwnInv /\ JobsOK /\ WorkOK /\ PollOK
  BY DEF PushInv, OwnInv
<1>o. \A s \in Sessions : session'[s].state = "open" => session[s].state = "open"
  BY SessionsGoOn
<1>i. buffer.lastID \in Nat /\ ToSet(buffer.ids) \subseteq 0 .. buffer.lastID
  <2>1. buffer.lastID \in Nat /\ buffer.ids \in Seq(Nat)
        /\ \A i \in 1 .. Len(buffer.ids) : buffer.ids[i] <= buffer.lastID
    BY <1>a DEF BufferOK
  <2>2. \A i \in DOMAIN buffer.ids : buffer.ids[i] \in 0 .. buffer.lastID
    BY <2>1
  <2>3. QED BY <2>1, <2>2 DEF ToSet
\* No deal is taken or pushed, and those who stay keep their subscription to the deals.
<1>1. ASSUME UNCHANGED <<buffer, got, repeated>>, list' \in Seq(Deals), steady' \in [Sessions -> BOOLEAN],
             poll' = poll \/ (poll.pc # "push" /\ poll'.pc # "push"),
             \A s \in Sessions : steady'[s] => steady[s],
             \A s \in Sessions : steady'[s] /\ session'[s].state = "open" /\ <<"deals", Nobody, s>> \in subs
                                   => <<"deals", Nobody, s>> \in subs'
      PROVE  FeedOK'
  <2>1. Behind' = Behind
    BY <1>1 DEF Behind
  <2>2. ASSUME NEW s \in Sessions, steady'[s] PROVE Served(s)'
    BY <1>1, <1>a, <1>o, <2>1, <2>2 DEF Served
  <2>3. BufferOK(buffer)'
    BY <1>1, <1>a DEF BufferOK
  <2>4. QED BY <1>1, <1>a, <2>1, <2>2, <2>3 DEF FeedOK
<1>2. CASE \E s \in Sessions : MarkDead(s) \/ RemoveSession(s)
  <2>1. PICK s \in Sessions : MarkDead(s) \/ RemoveSession(s)
    BY <1>2
  <2>2. UNCHANGED <<buffer, got, steady, repeated, list, poll>>
    BY <2>1 DEF MarkDead, RemoveSession, feedVars, dealListVars
  <2>3. ASSUME NEW r \in Sessions, session'[r].state = "open", <<"deals", Nobody, r>> \in subs
        PROVE  <<"deals", Nobody, r>> \in subs'
    <3>1. CASE MarkDead(s)
      BY <2>3, <3>1 DEF MarkDead
    <3>2. CASE RemoveSession(s)
      <4>1. session' = [session EXCEPT ![s].state = "gone"] /\ session \in [Sessions -> [state : {"open", "dead", "gone"},
              auth : BOOLEAN, user : Users \union {Nobody}]]
        BY <1>b, <3>2 DEF RemoveSession, OwnInv, SessionsOK
      <4>2. r # s
        BY <2>3, <4>1
      <4>3. QED BY <2>3, <3>2, <4>2 DEF RemoveSession
    <3>3. QED BY <2>1, <3>1, <3>2
  <2>4. QED BY <1>1, <1>a, <2>2, <2>3
<1>3. ASSUME NEW m \in msgChan,
             \/ HandleOrderSubscribe(m) \/ HandleAssetSubscribe(m) \/ HandleMarketSubscribe(m)
             \/ HandleOrderUnsubscribe(m) \/ HandleAssetUnsubscribe(m)
      PROVE  FeedOK'
  <2>1. UNCHANGED <<buffer, got, steady, repeated, list, poll>>
    BY <1>3 DEF HandleOrderSubscribe, HandleAssetSubscribe, HandleMarketSubscribe, HandleOrderUnsubscribe,
                HandleAssetUnsubscribe, feedVars, dealListVars
  <2>2. \A s \in Sessions : <<"deals", Nobody, s>> \in subs => <<"deals", Nobody, s>> \in subs'
    BY <1>3 DEF HandleOrderSubscribe, HandleAssetSubscribe, HandleMarketSubscribe, HandleOrderUnsubscribe,
                HandleAssetUnsubscribe, OrderSubscribe, AssetSubscribe, MarketSubscribe, OrderUnsubscribe, AssetUnsubscribe
  <2>3. QED BY <1>1, <1>a, <2>1, <2>2
<1>4. ASSUME NEW m \in msgChan, HandleMarketUnsubscribe(m) PROVE FeedOK'
  <2>1. UNCHANGED <<buffer, got, repeated, list, poll>> /\ subs' = subs \ {<<m.kind, Nobody, m.s>>}
        /\ steady' = IF m.kind = "deals" THEN [steady EXCEPT ![m.s] = FALSE] ELSE steady
    BY <1>4 DEF HandleMarketUnsubscribe, MarketUnsubscribe, dealListVars
  <2>2. steady' \in [Sessions -> BOOLEAN] /\ \A s \in Sessions : steady'[s] => steady[s] /\ ~(m.kind = "deals" /\ m.s = s)
    BY <1>a, <2>1
  <2>3. \A s \in Sessions : steady'[s] /\ <<"deals", Nobody, s>> \in subs => <<"deals", Nobody, s>> \in subs'
    BY <2>1, <2>2
  <2>4. QED BY <1>1, <1>a, <2>1, <2>2, <2>3
\* What is in the buffer is sent: until the worker has registered the session, it may miss a push.
<1>5. ASSUME NEW m \in msgChan, HandleDealsSubscribe(m) PROVE FeedOK'
  <2>1. /\ UNCHANGED <<buffer, repeated, list, poll, subs, session>>
        /\ got' = [got EXCEPT ![m.s] = ToSet(buffer.ids)] /\ steady' = [steady EXCEPT ![m.s] = FALSE]
    BY <1>5 DEF HandleDealsSubscribe, dealListVars
  <2>2. got' \in [Sessions -> SUBSET (0 .. buffer.lastID)] /\ steady' \in [Sessions -> BOOLEAN]
    BY <1>a, <1>i, <2>1
  <2>3. Behind' = Behind
    BY <2>1 DEF Behind
  <2>4. ASSUME NEW s \in Sessions, steady'[s] PROVE Served(s)'
    <3>1. s # m.s /\ steady[s] /\ got'[s] = got[s]
      BY <1>a, <2>1, <2>4
    <3>2. QED BY <1>a, <2>1, <2>3, <3>1 DEF Served
  <2>5. BufferOK(buffer)'
    BY <1>a, <2>1 DEF BufferOK
  <2>6. QED BY <1>a, <2>1, <2>2, <2>3, <2>4, <2>5 DEF FeedOK
\* The session is registered: it is one of those who have everything if no push has been or is under way.
<1>6. ASSUME NEW i \in 1 .. Len(work), RegisterDeals(i) PROVE FeedOK'
  <2>1. PICK s : s = work[i].s
    OBVIOUS
  <2>2. /\ work[i].pc = "deals" /\ subs' = subs \union {<<"deals", Nobody, s>>}
        /\ UNCHANGED <<buffer, repeated, list, poll, session, got>>
        /\ steady' = [steady EXCEPT ![s] = @ \/ (work[i].lastID = buffer.lastID /\ poll.pc # "push")]
    BY <1>6, <2>1 DEF RegisterDeals, MarketSubscribe, dealListVars, sessionVars
  <2>3. s \in Sessions /\ (work[i].lastID = buffer.lastID => ToSet(buffer.ids) \subseteq got[s])
    BY <1>b, <2>1, <2>2 DEF WorkOK, JobFits, JobsOK, JobOK
  <2>4. steady' \in [Sessions -> BOOLEAN]
    BY <1>a, <2>2, <2>3
  <2>5. Behind' = Behind
    BY <2>2 DEF Behind
  <2>6. ASSUME NEW r \in Sessions, steady'[r] PROVE Served(r)'
    <3>1. CASE steady[r]
      BY <1>a, <2>2, <2>5, <3>1 DEF Served
    <3>2. CASE ~steady[r]
      <4>1. r = s /\ work[i].lastID = buffer.lastID /\ poll.pc # "push"
        BY <1>a, <2>2, <2>3, <2>6, <3>2
      <4>2. ToSet(buffer.ids) \subseteq got[r] /\ Behind = {}
        BY <2>3, <4>1 DEF Behind
      <4>3. QED BY <2>2, <2>5, <4>1, <4>2 DEF Served
    <3>3. QED BY <3>1, <3>2
  <2>7. BufferOK(buffer)'
    BY <1>a, <2>2 DEF BufferOK
  <2>8. QED BY <1>a, <2>2, <2>4, <2>5, <2>6, <2>7 DEF FeedOK
\* Deals that are later than everything anybody has been sent.
<1>7. CASE PollDeals
  <2>1. PICK n : n = buffer.lastID
    OBVIOUS
  <2>2. PICK ids : ids = IdsAfter(n)
    OBVIOUS
  <2>3. PICK b : b = BufferAddsAfter(n)
    OBVIOUS
  <2>4. /\ UNCHANGED <<got, steady, repeated, list, subs, session>> /\ poll = [pc |-> "asleep"] /\ ids # {}
        /\ buffer' = b /\ poll' = [pc |-> "push", ids |-> ids]
    BY <1>7, <2>1, <2>2, <2>3 DEF PollDeals, sessionVars, dealListVars, Asleep
  <2>5. /\ BufferOK(b) /\ b.lastID > n /\ ToSet(b.ids) \subseteq ToSet(buffer.ids) \union ids
        /\ \A id \in ids : id \in Nat /\ id > n /\ id <= b.lastID
    BY <1>a, <2>1, <2>2, <2>3, <2>4, BufferMovesOn
  <2>6. n \in Nat /\ b.lastID \in Nat
    BY <1>i, <2>1, <2>5 DEF BufferOK
  <2>7. Behind = {} /\ Behind' = ids
    BY <2>4 DEF Behind
  <2>8. got' \in [Sessions -> SUBSET (0 .. buffer'.lastID)] /\ Behind' \subseteq 0 .. buffer'.lastID
    <3>1. 0 .. n \subseteq 0 .. b.lastID /\ ids \subseteq 0 .. b.lastID
      BY <2>5, <2>6
    <3>2. QED BY <1>a, <2>1, <2>4, <2>7, <3>1
  <2>9. ASSUME NEW s \in Sessions, steady'[s] PROVE Served(s)'
    <3>1. got[s] \intersect ids = {}
      BY <1>a, <2>1, <2>5, <2>6
    <3>2. session[s].state = "open" => <<"deals", Nobody, s>> \in subs /\ ToSet(buffer.ids) \subseteq got[s]
      BY <1>a, <2>4, <2>7, <2>9 DEF Served
    <3>3. QED BY <2>4, <2>5, <2>7, <3>1, <3>2 DEF Served
  <2>10. BufferOK(buffer)'
    BY <2>4, <2>5 DEF BufferOK
  <2>11. QED BY <1>a, <2>4, <2>8, <2>9, <2>10 DEF FeedOK
<1>8. CASE PushDeals
  <2>1. PICK ids : ids = poll.ids
    OBVIOUS
  <2>2. PICK to : to = {s \in SubscribersOf("deals") : session[s].state = "open"}
    OBVIOUS
  <2>3. /\ UNCHANGED <<buffer, steady, list, subs, session>> /\ poll.pc = "push" /\ poll' = [pc |-> "asleep"]
        /\ got' = [s \in Sessions |-> IF s \in to THEN got[s] \union ids ELSE got[s]]
        /\ repeated' = (repeated \/ \E s \in to : steady[s] /\ got[s] \intersect ids # {})
    BY <1>8, <2>1, <2>2 DEF PushDeals, sessionVars, dealListVars, Asleep
  <2>4. Behind = ids /\ Behind' = {}
    BY <2>1, <2>3 DEF Behind
  <2>5. to = {s \in Sessions : <<"deals", Nobody, s>> \in subs /\ session[s].state = "open"}
    BY <2>2 DEF SubscribersOf
  <2>6. got' \in [Sessions -> SUBSET (0 .. buffer.lastID)]
    BY <1>a, <2>3, <2>4
  <2>7. \A s \in to : steady[s] => got[s] \intersect ids = {}
    BY <1>a, <2>4, <2>5 DEF Served
  <2>8. ~repeated'
    BY <1>a, <2>3, <2>7
  <2>9. ASSUME NEW s \in Sessions, steady'[s] PROVE Served(s)'
    <3>1. Served(s)
      BY <1>a, <2>3, <2>9
    <3>2. session[s].state = "open" => s \in to /\ ToSet(buffer.ids) \subseteq got'[s]
      BY <2>3, <2>4, <2>5, <3>1 DEF Served
    <3>3. QED BY <2>3, <2>4, <3>1, <3>2 DEF Served
  <2>10. BufferOK(buffer)'
    BY <1>a, <2>3 DEF BufferOK
  <2>11. QED BY <1>a, <2>3, <2>4, <2>6, <2>8, <2>9, <2>10 DEF FeedOK
<1>9. CASE ServiceSteps
  <2>1. list' \in Seq(Deals)
    BY <1>9, <1>a, ListStays DEF ServiceSteps
  <2>2. UNCHANGED <<buffer, got, steady, repeated, poll, subs>>
    BY <1>9 DEF ServiceSteps, pushVars
  <2>3. QED BY <1>1, <1>a, <2>1, <2>2
<1>10. CASE (\E kind \in Polled : PollMarket(kind)) \/ PollStores \/ PollTells \/ PollFails
  <2>1. UNCHANGED <<buffer, got, steady, repeated, list, subs>>
    BY <1>10 DEF PollMarket, PollStores, PollTells, PollFails, feedVars, dealListVars
  <2>2. poll.pc # "push" /\ poll'.pc # "push"
    <3>1. CASE PollStores
      BY <1>b, <3>1 DEF PollStores, PollOK, Asleep
    <3>2. CASE (\E kind \in Polled : PollMarket(kind)) \/ PollTells \/ PollFails
      BY <3>2 DEF PollMarket, PollTells, PollFails, Asleep
    <3>3. QED BY <1>10, <3>1, <3>2
  <2>3. QED BY <1>1, <1>a, <2>1, <2>2
<1>11. ASSUME ~(\E s \in Sessions : MarkDead(s) \/ RemoveSession(s)),
              ~(\E m \in msgChan : \/ HandleOrderSubscribe(m) \/ HandleAssetSubscribe(m) \/ HandleMarketSubscribe(m)
                                   \/ HandleOrderUnsubscribe(m) \/ HandleAssetUnsubscribe(m)
                                   \/ HandleMarketUnsubscribe(m) \/ HandleDealsSubscribe(m)),
              ~(\E i \in 1 .. Len(work) : RegisterDeals(i)), ~PollDeals, ~PushDeals, ~ServiceSteps,
              ~(\E kind \in Polled : PollMarket(kind)), ~PollStores, ~PollTells, ~PollFails
       PROVE  UNCHANGED <<buffer, got, steady, repeated, list, poll, subs>>
  BY <1>11 DEF Next, Worker, Poller, ReadLoop, HandleAuth, HandleOrderQuery, HandleAssetQuery, PrivateQuery,
       HandleMarketQuery, SetUser, QueryStores, Expires, MarketMoves, EngineEvent, BalanceEvent, OrdersConsumer,
       ConsumeOrder, Post, BalancesConsumer, ConsumeBalance, BalanceAnswered, BalanceQueryFails, SendNotification,
       feedVars, dealListVars, pushVars, vars
<1>12. QED BY <1>1, <1>2, <1>3, <1>4, <1>5, <1>6, <1>7, <1>8, <1>9, <1>10, <1>11, <1>a

\* Workers: what they have begun stays good for its end.
LEMMA JobsKept ==
  ASSUME PushInv, [Next]_vars
  PROVE  JobsOK'
<1>a. WorkOK /\ JobsOK /\ FeedOK /\ ChannelOK /\ CacheOK /\ IsSequence(work) /\ OwnInv /\ SessionsOK
  BY DEF PushInv, OwnInv, WorkOK
<1>o. \A s \in Sessions : session[s].auth => session'[s].auth
  BY SessionsGoOn
<1>t. theme' = theme
  BY DEF Next, Worker, Poller, ReadLoop, MarkDead, RemoveSession, HandleAuth, HandleOrderSubscribe,
       HandleOrderUnsubscribe, HandleOrderQuery, HandleAssetSubscribe, HandleAssetUnsubscribe, HandleAssetQuery,
       PrivateQuery, HandleMarketSubscribe, HandleMarketUnsubscribe, HandleDealsSubscribe, HandleMarketQuery,
       SetUser, RegisterDeals, QueryStores, PollDeals, PushDeals, PollMarket, PollStores, PollTells, PollFails,
       Expires, MarketMoves, ServiceSteps, EngineEvent, BalanceEvent, OrdersConsumer, ConsumeOrder, Post,
       BalancesConsumer, ConsumeBalance, BalanceAnswered, BalanceQueryFails, SendNotification, sessionVars, pushVars, vars
<1> DEFINE Fits(job) == JobFits(job, was) /\ JobOK(job, session, buffer, got, theme)
           OK(job) == JobOK(job, session', buffer', got', theme')
\* A job goes on being good ...
<1>1. \A job : Fits(job) => OK(job)
  <2> SUFFICES ASSUME NEW job, Fits(job) PROVE OK(job)
    OBVIOUS
  <2>1. job.pc = "user" => session'[job.s].auth
    BY <1>o DEF JobFits, JobOK
  <2>2. job.pc = "store" => job.value \in 0 .. MaxVersion
    BY DEF JobOK
  <2>3. ASSUME job.pc = "deals"
        PROVE /\ "deals" \in theme' /\ job.lastID \in 0 .. buffer'.lastID
              /\ job.lastID = buffer'.lastID => ToSet(buffer'.ids) \subseteq got'[job.s]
    <3>1. /\ "deals" \in theme /\ job.lastID \in 0 .. buffer.lastID /\ job.s \in Sessions
          /\ job.lastID = buffer.lastID => ToSet(buffer.ids) \subseteq got[job.s]
      BY <2>3 DEF JobFits, JobOK
    <3>2. got \in [Sessions -> SUBSET (0 .. buffer.lastID)] /\ buffer.lastID \in Nat /\ BufferOK(buffer) /\ list \in Seq(Deals)
      BY <1>a DEF FeedOK, BufferOK
    <3>3. CASE PollDeals
      <4>1. PICK n : n = buffer.lastID
        OBVIOUS
      <4>2. PICK b : b = BufferAddsAfter(n)
        OBVIOUS
      <4>3. buffer' = b /\ IdsAfter(n) # {}
        BY <3>3, <4>1, <4>2 DEF PollDeals
      <4>4. b.lastID > n /\ b.lastID \in Nat
        BY <3>2, <4>1, <4>2, <4>3, BufferMovesOn DEF BufferOK
      <4>5. job.lastID \in 0 .. b.lastID /\ job.lastID # b.lastID
        BY <3>1, <3>2, <4>1, <4>4
      <4>6. QED BY <1>t, <3>1, <4>3, <4>5
    <3>4. CASE \E m \in msgChan : HandleDealsSubscribe(m)
      <4>1. PICK m \in msgChan : buffer' = buffer /\ got' = [got EXCEPT ![m.s] = ToSet(buffer.ids)]
        BY <3>4 DEF HandleDealsSubscribe
      <4>2. job.lastID = buffer.lastID => ToSet(buffer.ids) \subseteq got'[job.s]
        BY <3>1, <3>2, <4>1
      <4>3. QED BY <1>t, <3>1, <4>1, <4>2
    <3>5. CASE PushDeals
      <4>1. buffer' = buffer /\ \A s \in Sessions : got[s] \subseteq got'[s]
        BY <3>5 DEF PushDeals
      <4>2. QED BY <1>t, <3>1, <4>1
    <3>6. ASSUME ~PollDeals, ~(\E m \in msgChan : HandleDealsSubscribe(m)), ~PushDeals
          PROVE  buffer' = buffer /\ got' = got
      BY <3>6 DEF Next, Worker, Poller, ReadLoop, MarkDead, RemoveSession, HandleAuth, HandleOrderSubscribe,
         HandleOrderUnsubscribe, HandleOrderQuery, HandleAssetSubscribe, HandleAssetUnsubscribe, HandleAssetQuery,
         PrivateQuery, HandleMarketSubscribe, HandleMarketUnsubscribe, HandleMarketQuery,
         SetUser, RegisterDeals, QueryStores, PollMarket, PollStores, PollTells, PollFails,
         Expires, MarketMoves, ServiceSteps, EngineEvent, BalanceEvent, OrdersConsumer, ConsumeOrder, Post,
         BalancesConsumer, ConsumeBalance, BalanceAnswered, BalanceQueryFails, SendNotification, feedVars, pushVars, vars
    <3>7. QED BY <1>t, <3>1, <3>3, <3>4, <3>5, <3>6
  <2>4. QED BY <2>1, <2>2, <2>3 DEF JobOK
<1>2. \A i \in 1 .. Len(work) : OK(work[i])
  BY <1>1, <1>a DEF WorkOK, JobsOK
<1> HIDE DEF Fits
<1>3. CASE work' = work
  BY <1>2, <1>3 DEF JobsOK
<1>4. CASE \E i \in 1 .. Len(work) : work' = RemoveAt(work, i)
  <2>1. \A k \in 1 .. Len(work') : \E j \in 1 .. Len(work) : work'[k] = work[j]
    BY <1>4, <1>a, OneJobLess
  <2>2. \A k \in 1 .. Len(work') : OK(work'[k])
    BY <1>2, <2>1
  <2>3. QED BY <2>2 DEF JobsOK
\* ... and one that begins is.
<1>5. ASSUME NEW job, work' = Append(work, job), OK(job) PROVE JobsOK'
  <2>1. \A k \in 1 .. Len(work') : work'[k] = job \/ \E j \in 1 .. Len(work) : work'[k] = work[j]
    BY <1>5, <1>a, OneMoreJob
  <2>2. \A k \in 1 .. Len(work') : OK(work'[k])
    BY <1>2, <1>5, <2>1
  <2>3. QED BY <2>2 DEF JobsOK
<1>6. ASSUME NEW m \in msgChan, HandleAuth(m) PROVE JobsOK'
  <2>1. CASE work' = work
    BY <1>3, <2>1
  <2>2. CASE session' = [session EXCEPT ![m.s].auth = TRUE]
             /\ work' = Append(work, [pc |-> "user", s |-> m.s, user |-> m.user])
    <3>1. PICK job : job = [pc |-> "user", s |-> m.s, user |-> m.user]
      OBVIOUS
    <3>2. job.pc = "user" /\ job.s = m.s /\ m.s \in Sessions
      BY <1>a, <3>1, MessagesAreRequests
    <3>3. session'[m.s].auth
      BY <1>a, <2>2, <3>2 DEF SessionsOK
    <3>4. OK(job)
      BY <3>2, <3>3 DEF JobOK
    <3>5. QED BY <1>5, <2>2, <3>1, <3>4
  <2>3. QED BY <1>6, <2>1, <2>2 DEF HandleAuth, GoOn
<1>7. ASSUME NEW m \in msgChan, HandleDealsSubscribe(m) PROVE JobsOK'
  <2>1. PICK job : job = [pc |-> "deals", s |-> m.s, lastID |-> buffer.lastID]
    OBVIOUS
  <2>2. /\ job.pc = "deals" /\ job.s = m.s /\ job.lastID = buffer.lastID /\ m.s \in Sessions
        /\ m.kind = "deals" /\ m.op # "auth" /\ buffer.lastID \in Nat
    BY <1>7, <1>a, <2>1, MessagesAreRequests DEF HandleDealsSubscribe, FeedOK, BufferOK
  <2>3. "deals" \in theme
    BY <1>a, <2>2 DEF ChannelOK
  <2>4. buffer' = buffer /\ got' = [got EXCEPT ![m.s] = ToSet(buffer.ids)] /\ work' = Append(work, job)
    BY <1>7, <2>1 DEF HandleDealsSubscribe, GoOn
  <2>5. got'[m.s] = ToSet(buffer.ids)
    BY <1>a, <2>2, <2>4 DEF FeedOK
  <2>6. OK(job)
    BY <1>t, <2>2, <2>3, <2>4, <2>5 DEF JobOK
  <2>7. QED BY <1>5, <2>4, <2>6
<1>8. ASSUME NEW m \in msgChan, HandleMarketQuery(m) PROVE JobsOK'
  <2>1. CASE work' = work
    BY <1>3, <2>1
  <2>2. CASE work' = Append(work, [pc |-> "store", kind |-> m.kind, value |-> version])
    <3>1. PICK job : job = [pc |-> "store", kind |-> m.kind, value |-> version]
      OBVIOUS
    <3>2. job.pc = "store" /\ job.value \in 0 .. MaxVersion
      BY <1>a, <3>1 DEF CacheOK
    <3>3. OK(job)
      BY <3>2 DEF JobOK
    <3>4. QED BY <1>5, <2>2, <3>1, <3>3
  <2>3. QED BY <1>8, <2>1, <2>2 DEF HandleMarketQuery, GoOn
<1>9. ASSUME ~(\E m \in msgChan : HandleAuth(m) \/ HandleDealsSubscribe(m) \/ HandleMarketQuery(m))
      PROVE  work' = work \/ \E i \in 1 .. Len(work) : work' = RemoveAt(work, i)
  BY <1>9 DEF Next, Worker, Poller, ReadLoop, MarkDead, RemoveSession, HandleOrderSubscribe,
       HandleOrderUnsubscribe, HandleOrderQuery, HandleAssetSubscribe, HandleAssetUnsubscribe, HandleAssetQuery,
       PrivateQuery, HandleMarketSubscribe, HandleMarketUnsubscribe, SetUser, RegisterDeals, QueryStores, Done,
       PollDeals, PushDeals, PollMarket, PollStores, PollTells, PollFails,
       Expires, MarketMoves, ServiceSteps, EngineEvent, BalanceEvent, OrdersConsumer, ConsumeOrder, Post,
       BalancesConsumer, ConsumeBalance, BalanceAnswered, BalanceQueryFails, SendNotification, pushVars, vars
<1>10. QED BY <1>3, <1>4, <1>6, <1>7, <1>8, <1>9

\* Every step keeps it.
LEMMA PushStaysOK == PushInv /\ [Next]_vars => PushInv'
<1> SUFFICES ASSUME PushInv, [Next]_vars PROVE PushInv'
  OBVIOUS
<1>1. OwnInv'
  BY NextKeepsOwn DEF PushInv
<1>2. QED BY <1>1, SessionsGoOn, ChannelKept, KafkaKept, CacheKept, FeedKept, JobsKept DEF PushInv

\* Whatever workers, poller and consumers do to each other, sessions, subscriptions, buffer,
\* cache and channels stay well typed: a session with a user is authenticated, the buffer's
\* deals are in order, no channel holds more than its capacity.
THEOREM GatewayStaysTyped == Spec => []TypeOK
<1>1. PushInv => TypeOK
  <2> SUFFICES ASSUME PushInv PROVE TypeOK
    OBVIOUS
  <2>1. /\ theme \in Themes /\ msgChan \subseteq Requests
        /\ \A s \in Sessions : session[s].user # Nobody => session[s].auth /\ session[s].user \in was[s]
        /\ session \in [Sessions -> [state : {"open", "dead", "gone"}, auth : BOOLEAN, user : Users \union {Nobody}]]
    BY DEF PushInv, OwnInv, ChannelOK, UsersOK, SessionsOK, Mine
  <2>2. \A sub \in subs : (sub[1] \in Private \/ sub[2] = Nobody) /\ sub[1] \in theme /\ sub[3] \in Sessions
    BY DEF PushInv, OwnInv, ChannelOK, SubsOK, SubFits
  <2>3. Len(buffer.ids) <= Cap /\ (\A i \in 1 .. Len(buffer.ids) : buffer.ids[i] <= buffer.lastID)
        /\ \A i, j \in 1 .. Len(buffer.ids) : i < j => buffer.ids[i] < buffer.ids[j]
    BY DEF PushInv, FeedOK, BufferOK
  <2>4. QED BY <2>1, <2>2, <2>3 DEF PushInv, CacheOK, KafkaOK, TypeOK
<1>2. QED BY <1>1, PushStartsOK, PushStaysOK, PTL DEF Spec

\* HandleDealsSubscribe sends the buffer and then subscribes, pollDeals fills the buffer and
\* then looks who subscribes: for any number of sessions and workers and whatever the list
\* does, a session that did not come while a push was under way has been sent what is in the
\* buffer, and nothing in two messages.
THEOREM FeedStaysAgreed == Spec => []FeedAgrees
<1>1. PushInv => FeedAgrees
  <2> SUFFICES ASSUME PushInv PROVE FeedAgrees
    OBVIOUS
  <2>1. ~repeated /\ \A s \in Sessions : steady[s] => Served(s)
    BY DEF PushInv, FeedOK
  <2>2. QED BY <2>1 DEF FeedAgrees, Served, Behind
<1>2. QED BY <1>1, PushStartsOK, PushStaysOK, PTL DEF Spec
=============================================================================
