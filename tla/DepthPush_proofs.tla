--------------------------- MODULE DepthPush_proofs ---------------------------
(***************************************************************************)
(* Proofs about the depth feed and the connection it shares with whoever   *)
(* else calls, for any sessions, workers, keys, prices, amounts and        *)
(* messages.                                                               *)
(***************************************************************************)
EXTENDS DepthPush, SequenceTheorems, TLAPS

\* As long as every call found the connection empty there is one caller at most, and
\* at most one request or answer, its own if it has not given it up.
Alone == ~shared =>
    /\ Len(inflight) + Len(wire) <= 1
    /\ \A c \in waiting : /\ waiting = {c}
                          /\ \A i \in DOMAIN inflight : inflight[i].caller = c
                          /\ \A i \in DOMAIN wire : wire[i].caller = c
RpcInv == RpcTypeOK /\ Alone

\* What a goroutine of the gateway, or the peer, can do to the connection.
RpcStep == \/ \E c \in Callers, k \in Keys : Send(c, k)
           \/ \E c \in Callers, n \in 1 .. Len(wire) : Read(c, n)
           \/ \E c \in Callers : GiveUp(c)
           \/ \E i \in DOMAIN inflight : Answer(i)
           \/ \E k \in Keys, b \in Books : BookChanges(k, b)
           \/ HangUp

\* A client has what the reference says, and what it cannot be told to drop.
Agrees(has, reference, kept) ==
    \A p \in Prices : has[p] = reference[p] \/ (reference[p] = 0 /\ p \in kept)

\* A session that is steady in a key is open and subscribed to it, the poller has sent
\* it a book of that key, and it has what the poller sent last.
SteadyOK(s) == steady[s] # NoKey => /\ session[s] = "open"
                                    /\ <<steady[s], s>> \in depthSubs
                                    /\ Reference(s) \in Books
                                    /\ Agrees(view[s], Reference(s), stale[s])
\* A difference is only taken to a snapshot there is.
DiffOK == poll.pc = "push" /\ ~poll.full => snapshots[poll.key] \in Books

\* The inductive invariant.
FeedInv == TypeOK /\ Alone /\ DiffOK /\ \A s \in Sessions : SteadyOK(s)

-----------------------------------------------------------------------------
(* The connection *)

\* A caller that leaves takes no request or answer with it.
LEMMA Disowned ==
  ASSUME NEW R, NEW q \in Seq(R), NEW c, \A r \in R : [r EXCEPT !.caller = NoCaller] \in R
  PROVE  Disown(q, c) \in Seq(R) /\ Len(Disown(q, c)) = Len(q)
<1> DEFINE n == Len(q)
           d == [i \in 1 .. n |-> IF q[i].caller = c THEN [q[i] EXCEPT !.caller = NoCaller] ELSE q[i]]
<1>1. n \in Nat /\ DOMAIN q = 1 .. n /\ \A i \in 1 .. n : q[i] \in R
  OBVIOUS
<1>2. Disown(q, c) = d
  BY <1>1 DEF Disown
<1>3. \A i \in 1 .. n : (IF q[i].caller = c THEN [q[i] EXCEPT !.caller = NoCaller] ELSE q[i]) \in R
  BY <1>1
<1>4. d \in [1 .. n -> R]
  BY <1>3
<1> HIDE DEF n, d
<1>5. d \in Seq(R) /\ Len(d) = n
  BY <1>1, <1>4
<1>6. QED BY <1>2, <1>5 DEF n
LEMMA DisownedCalls ==
  ASSUME NEW c
  PROVE  /\ \A q \in Seq(Request) : Disown(q, c) \in Seq(Request) /\ Len(Disown(q, c)) = Len(q)
         /\ \A q \in Seq(Reply) : Disown(q, c) \in Seq(Reply) /\ Len(Disown(q, c)) = Len(q)
<1>1. \A r \in Request : [r EXCEPT !.caller = NoCaller] \in Request
  BY DEF Request
<1>2. \A r \in Reply : [r EXCEPT !.caller = NoCaller] \in Reply
  BY DEF Reply
<1>3. QED BY <1>1, <1>2, Disowned

\* A call may begin whenever its goroutine is free: on an empty connection it is alone.
LEMMA SendKeeps ==
  ASSUME RpcInv, NEW c \in Callers, NEW k \in Keys, Send(c, k)
  PROVE  RpcInv'
<1> DEFINE r == [caller |-> c, key |-> k]
           q == Append(inflight, r)
<1>1. r \in Request /\ inflight \in Seq(Request) /\ wire \in Seq(Reply)
  BY DEF RpcInv, RpcTypeOK, Request
<1> HIDE DEF r
<1>2. q \in Seq(Request) /\ (inflight = <<>> => Len(q) = 1 /\ q[1] = r)
  BY <1>1
<1>3. inflight' = q \/ inflight' = inflight
  BY DEF Send, r
<1>4. RpcTypeOK'
  BY <1>1, <1>2, <1>3 DEF RpcInv, RpcTypeOK, Send
<1>5. Alone'
  <2> SUFFICES ASSUME ~shared' PROVE Alone'
    BY DEF Alone
  <2>1. waiting = {} /\ inflight = <<>> /\ wire = <<>> /\ wire' = wire /\ waiting' = {c}
    BY DEF Send, InUse
  <2>2. CASE inflight' = inflight
    BY <2>1, <2>2 DEF Alone
  <2>3. CASE inflight' = q
    <3>1. Len(inflight') = 1 /\ inflight'[1] = r /\ inflight' \in Seq(Request) /\ Len(wire') = 0
      BY <1>2, <2>1, <2>3
    <3>2. r.caller = c
      BY DEF r
    <3>3. DOMAIN inflight' = {1} /\ DOMAIN wire' = {}
      BY <2>1, <3>1
    <3>4. Len(inflight') + Len(wire') <= 1
      BY <3>1
    <3>5. QED BY <2>1, <3>1, <3>2, <3>3, <3>4 DEF Alone
  <2>4. QED BY <1>3, <2>2, <2>3
<1>6. QED BY <1>4, <1>5 DEF RpcInv

\* A request that leaves the sequence of those in flight.
LEMMA OneRequestLess ==
  ASSUME NEW q \in Seq(Request), NEW i \in DOMAIN q
  PROVE  RemoveAt(q, i) \in Seq(Request) /\ Len(RemoveAt(q, i)) = Len(q) - 1
<1> DEFINE before == SubSeq(q, 1, i - 1)
           after == SubSeq(q, i + 1, Len(q))
<1>1. i \in 1 .. Len(q) /\ Len(q) \in Nat /\ \A j \in 1 .. Len(q) : q[j] \in Request
  OBVIOUS
<1>2. before \in Seq(Request) /\ Len(before) = i - 1
  BY <1>1, SubSeqProperties
<1>3. after \in Seq(Request) /\ Len(after) = Len(q) - i
  BY <1>1, SubSeqProperties
<1> HIDE DEF before, after
<1>4. before \o after \in Seq(Request) /\ Len(before \o after) = Len(q) - 1
  BY <1>1, <1>2, <1>3
<1>5. QED BY <1>4 DEF RemoveAt, before, after

LEMMA AnswerKeeps ==
  ASSUME RpcInv, NEW i \in DOMAIN inflight, Answer(i)
  PROVE  RpcInv'
<1> DEFINE a == [caller |-> inflight[i].caller, body |-> book[inflight[i].key]]
<1>1. inflight \in Seq(Request) /\ wire \in Seq(Reply) /\ book \in [Keys -> Books]
  BY DEF RpcInv, RpcTypeOK
<1>2. inflight[i] \in Request
  BY <1>1
<1>3. a \in Reply /\ a.caller = inflight[i].caller
  BY <1>1, <1>2 DEF Request, Reply
<1> HIDE DEF a
<1>4. wire' = Append(wire, a) /\ inflight' = RemoveAt(inflight, i)
  BY DEF Answer, a
<1>5. inflight' \in Seq(Request) /\ Len(inflight') = Len(inflight) - 1
  BY <1>1, <1>4, OneRequestLess
<1>6. wire' \in Seq(Reply) /\ Len(wire') = Len(wire) + 1 /\ wire'[Len(wire) + 1] = a
  BY <1>1, <1>3, <1>4
<1>7. RpcTypeOK'
  BY <1>5, <1>6 DEF RpcInv, RpcTypeOK, Answer
<1>8. Alone'
  <2> SUFFICES ASSUME ~shared' PROVE Alone'
    BY DEF Alone
  <2>1. waiting' = waiting /\ ~shared
    BY DEF Answer
  <2>2. Len(inflight) + Len(wire) <= 1 /\ i \in 1 .. Len(inflight)
        /\ Len(inflight) \in Nat /\ Len(wire) \in Nat
    BY <1>1, <2>1 DEF Alone, RpcInv
  <2>3. Len(inflight') = 0 /\ Len(wire') = 1 /\ wire'[1] = a
    BY <1>5, <1>6, <2>2
  <2>4. DOMAIN inflight' = {} /\ DOMAIN wire' = {1}
    <3>1. DOMAIN inflight' = 1 .. 0
      BY <1>5, <2>3
    <3>2. DOMAIN wire' = 1 .. Len(wire')
      BY <1>6
    <3>3. DOMAIN wire' = 1 .. 1
      BY <2>3, <3>2
    <3>4. QED BY <3>1, <3>3
  <2>5. \A c \in waiting : waiting = {c} /\ a.caller = c
    BY <1>3, <2>1 DEF Alone, RpcInv
  <2>6. Len(inflight') + Len(wire') <= 1
    BY <2>3
  <2>7. QED BY <2>1, <2>3, <2>4, <2>5, <2>6 DEF Alone
<1>9. QED BY <1>7, <1>8 DEF RpcInv

LEMMA PeerKeeps ==
  ASSUME RpcInv, HangUp \/ \E k \in Keys, b \in Books : BookChanges(k, b)
  PROVE  RpcInv'
<1>1. wire' = wire /\ waiting' = waiting /\ shared' = shared /\ inflight' \in {inflight, <<>>}
  BY DEF HangUp, BookChanges
<1>2. RpcTypeOK'
  <2>1. <<>> \in Seq(Request)
    OBVIOUS
  <2>2. CASE HangUp
    BY <2>1, <2>2 DEF RpcInv, RpcTypeOK, HangUp
  <2>3. ASSUME NEW k \in Keys, NEW b \in Books, BookChanges(k, b) PROVE RpcTypeOK'
    BY <2>3 DEF RpcInv, RpcTypeOK, BookChanges
  <2>4. QED BY <2>2, <2>3
<1>3. Alone'
  <2>1. Len(inflight') <= Len(inflight) /\ Len(inflight') \in Nat /\ Len(inflight) \in Nat /\ Len(wire) \in Nat
    BY <1>1 DEF RpcInv, RpcTypeOK
  <2>2. \A i \in DOMAIN inflight' : i \in DOMAIN inflight /\ inflight'[i] = inflight[i]
    BY <1>1
  <2>3. CASE shared
    BY <1>1, <2>3 DEF Alone
  <2>4. CASE ~shared
    <3>1. Len(inflight') + Len(wire') <= 1
      BY <1>1, <2>1, <2>4 DEF RpcInv, Alone
    <3>2. QED BY <1>1, <2>2, <2>4, <3>1 DEF RpcInv, Alone
  <2>5. QED BY <2>3, <2>4
<1>4. QED BY <1>2, <1>3 DEF RpcInv

\* A read on a connection nobody else uses takes the one answer there is.
LEMMA ReadKeeps ==
  ASSUME RpcInv, NEW c \in Callers, NEW n \in 1 .. Len(wire), Read(c, n)
  PROVE  /\ RpcInv'
         /\ Received(n) \in Books \union {Garbage}
         /\ waiting \ waiting' = {c}
         /\ ~shared => Len(wire) = 1 /\ Head(wire).caller = c
<1> DEFINE rest == SubSeq(wire, n + 1, Len(wire))
<1>1. inflight \in Seq(Request) /\ wire \in Seq(Reply) /\ Len(wire) \in Nat /\ Len(inflight) \in Nat
  BY DEF RpcInv, RpcTypeOK
<1>2. wire[1] \in Reply /\ Head(wire) = wire[1] /\ 1 \in DOMAIN wire
  BY <1>1
<1>3. Received(n) \in Books \union {Garbage}
  BY <1>2 DEF Received, Reply
<1>4. rest \in Seq(Reply) /\ Len(rest) = Len(wire) - n
  <2>1. \A j \in n + 1 .. Len(wire) : wire[j] \in Reply
    BY <1>1
  <2>2. QED BY <1>1, <2>1, SubSeqProperties
<1>5. /\ wire' = Disown(rest, c) /\ inflight' = Disown(inflight, c)
      /\ waiting' = waiting \ {c} /\ shared' = shared /\ c \in waiting
  BY DEF Read
<1> HIDE DEF rest
<1>6. /\ inflight' \in Seq(Request) /\ Len(inflight') = Len(inflight)
      /\ wire' \in Seq(Reply) /\ Len(wire') = Len(rest)
  BY <1>1, <1>4, <1>5, DisownedCalls
<1>7. RpcTypeOK'
  BY <1>6 DEF RpcInv, RpcTypeOK, Read
<1>8. ~shared => Len(wire) = 1 /\ Head(wire).caller = c
  <2> SUFFICES ASSUME ~shared PROVE Len(wire) = 1 /\ Head(wire).caller = c
    OBVIOUS
  <2>1. Len(inflight) + Len(wire) <= 1 /\ wire[1].caller = c
    BY <1>2, <1>5 DEF RpcInv, Alone
  <2>2. Len(wire) = 1
    <3> DEFINE a == Len(inflight)
               b == Len(wire)
    <3> HIDE DEF a, b
    <3>1. a \in Nat /\ b \in Nat /\ n \in 1 .. b /\ a + b <= 1
      BY <1>1, <2>1 DEF a, b
    <3>2. b = 1
      BY <3>1
    <3>3. QED BY <3>2 DEF b
  <2>3. QED BY <1>2, <2>1, <2>2
<1>9. Alone'
  <2> SUFFICES ASSUME ~shared PROVE Alone'
    BY <1>5 DEF Alone
  <2>1. waiting' = {}
    BY <1>5 DEF RpcInv, Alone
  <2>2. Len(inflight') + Len(wire') <= 1
    BY <1>1, <1>4, <1>6, <1>8 DEF RpcInv, Alone
  <2>3. QED BY <2>1, <2>2 DEF Alone
<1>10. QED BY <1>3, <1>5, <1>7, <1>8, <1>9 DEF RpcInv

\* A call that gives up leaves the connection with an answer nobody waits for.
LEMMA GiveUpKeeps ==
  ASSUME RpcInv, NEW c \in Callers, GiveUp(c)
  PROVE  /\ RpcInv'
         /\ waiting \ waiting' = {c}
         /\ wire' # wire /\ ~shared => Len(wire) = 1 /\ Head(wire).caller = c
<1>1. inflight \in Seq(Request) /\ wire \in Seq(Reply) /\ Len(wire) \in Nat /\ Len(inflight) \in Nat
  BY DEF RpcInv, RpcTypeOK
<1>2. /\ wire' = Disown(wire, c) /\ inflight' = Disown(inflight, c)
      /\ waiting' = waiting \ {c} /\ shared' = shared /\ c \in waiting
  BY DEF GiveUp
<1>3. /\ inflight' \in Seq(Request) /\ Len(inflight') = Len(inflight)
      /\ wire' \in Seq(Reply) /\ Len(wire') = Len(wire)
  BY <1>1, <1>2, DisownedCalls
<1>4. RpcTypeOK'
  <2>1. timeouts' \in 0 .. MaxTimeouts
    BY CallersAssumption DEF GiveUp, RpcInv, RpcTypeOK
  <2>2. QED BY <1>3, <2>1 DEF RpcInv, RpcTypeOK, GiveUp
<1>5. Alone'
  <2> SUFFICES ASSUME ~shared PROVE Alone'
    BY <1>2 DEF Alone
  <2>1. waiting' = {}
    BY <1>2 DEF RpcInv, Alone
  <2>2. Len(inflight') + Len(wire') <= 1
    BY <1>3 DEF RpcInv, Alone
  <2>3. QED BY <2>1, <2>2 DEF Alone
<1>6. ASSUME wire' # wire, ~shared PROVE Len(wire) = 1 /\ Head(wire).caller = c
  <2>1. wire # <<>>
    BY <1>1, <1>2, <1>6 DEF Disown
  <2>2. Len(inflight) + Len(wire) <= 1 /\ \A i \in DOMAIN wire : wire[i].caller = c
    BY <1>2, <1>6 DEF RpcInv, Alone
  <2>3. Len(wire) = 1
    <3> DEFINE a == Len(inflight)
               b == Len(wire)
    <3>1. b # 0
      BY <1>1, <2>1
    <3> HIDE DEF a, b
    <3>2. a \in Nat /\ b \in Nat /\ a + b <= 1
      BY <1>1, <2>2 DEF a, b
    <3>3. b = 1
      BY <3>1, <3>2
    <3>4. QED BY <3>3 DEF b
  <2>4. QED BY <1>1, <2>2, <2>3
<1>7. QED BY <1>2, <1>4, <1>5, <1>6 DEF RpcInv

\* So no step on the connection lets a lone caller have what is not its own.
LEMMA RpcStepKeeps ==
  ASSUME RpcInv, RpcStep \/ UNCHANGED rpcVars
  PROVE  /\ RpcInv'
         /\ \A c \in waiting \ waiting' :
               wire' # wire /\ ~shared => Len(wire) = 1 /\ Head(wire).caller = c
<1>1. CASE UNCHANGED rpcVars
  BY <1>1 DEF rpcVars, RpcInv, RpcTypeOK, Alone
<1>2. CASE \E c \in Callers, k \in Keys : Send(c, k)
  <2>1. waiting \subseteq waiting'
    BY <1>2 DEF Send
  <2>2. QED BY <1>2, <2>1, SendKeeps
<1>3. CASE \E c \in Callers, n \in 1 .. Len(wire) : Read(c, n)
  <2>1. PICK c \in Callers, n \in 1 .. Len(wire) : Read(c, n)
    BY <1>3
  <2>2. QED BY <2>1, ReadKeeps
<1>4. CASE \E c \in Callers : GiveUp(c)
  <2>1. PICK c \in Callers : GiveUp(c)
    BY <1>4
  <2>2. QED BY <2>1, GiveUpKeeps
<1>5. CASE \E i \in DOMAIN inflight : Answer(i)
  <2>1. waiting' = waiting
    BY <1>5 DEF Answer
  <2>2. QED BY <1>5, <2>1, AnswerKeeps
<1>6. CASE HangUp \/ \E k \in Keys, b \in Books : BookChanges(k, b)
  <2>1. waiting' = waiting
    BY <1>6 DEF HangUp, BookChanges
  <2>2. QED BY <1>6, <2>1, PeerKeeps
<1>7. QED BY <1>1, <1>2, <1>3, <1>4, <1>5, <1>6 DEF RpcStep

-----------------------------------------------------------------------------
(* The feed *)

\* Every step of the gateway and of the peer leaves the connection alone or is one of
\* its own.
LEMMA StepIsRpcStep == TypeOK /\ Step => RpcStep \/ UNCHANGED rpcVars
<1> SUFFICES ASSUME TypeOK, Step PROVE RpcStep \/ UNCHANGED rpcVars
  OBVIOUS
<1>1. ASSUME NEW s \in Sessions, Connect(s) \/ MarkDead(s) \/ RemoveSession(s) PROVE UNCHANGED rpcVars
  BY <1>1 DEF Connect, MarkDead, RemoveSession
<1>2. ASSUME NEW m \in offered, ReadLoop(m) PROVE UNCHANGED rpcVars
  BY <1>2 DEF ReadLoop
<1>3. ASSUME NEW w \in Workers, Worker(w) PROVE RpcStep \/ UNCHANGED rpcVars
  <2>1. w \in Callers
    BY FeedAssumption
  <2>2. CASE Unsubscribe(w) \/ Subscribe(w) \/ WorkerPushes(w)
    BY <2>2 DEF Unsubscribe, Subscribe, WorkerPushes
  <2>3. CASE WorkerSends(w)
    <3>1. work[w] \in Work /\ work[w].pc = "call" /\ Send(w, work[w].key)
      BY <2>3 DEF TypeOK, WorkerSends
    <3>2. work[w].key \in Keys
      BY <3>1 DEF Work, Idle
    <3>3. QED BY <2>1, <3>1, <3>2 DEF RpcStep
  <2>4. CASE \E n \in 1 .. Len(wire) : WorkerReads(w, n)
    BY <2>1, <2>4 DEF WorkerReads, RpcStep
  <2>5. CASE WorkerGivesUp(w)
    BY <2>1, <2>5 DEF WorkerGivesUp, RpcStep
  <2>6. QED BY <1>3, <2>2, <2>3, <2>4, <2>5 DEF Worker
<1>4. CASE PollDepth
  <2>1. Poller \in Callers
    BY FeedAssumption
  <2>2. CASE Tick \/ Pushed \/ \E s \in Sessions : Push(s)
    BY <2>2 DEF Tick, Pushed, Push
  <2>3. CASE \E k \in Keys : PollSends(k)
    BY <2>1, <2>3 DEF PollSends, RpcStep
  <2>4. CASE \E n \in 1 .. Len(wire), due \in BOOLEAN : PollReads(n, due)
    BY <2>1, <2>4 DEF PollReads, RpcStep
  <2>5. CASE PollGivesUp
    BY <2>1, <2>5 DEF PollGivesUp, RpcStep
  <2>6. QED BY <1>4, <2>2, <2>3, <2>4, <2>5 DEF PollDepth
<1>5. ASSUME NEW i \in DOMAIN inflight, PeerAnswers(i) PROVE RpcStep
  BY <1>5 DEF PeerAnswers, RpcStep
<1>6. ASSUME NEW m \in offered, NEW b \in Books, m.kind = "subscribe", PeerTrades(m.key, b) PROVE RpcStep
  <2>1. m.key \in Keys
    BY <1>6 DEF TypeOK, Messages
  <2>2. QED BY <1>6, <2>1 DEF PeerTrades, RpcStep
<1>7. CASE PeerHangsUp
  BY <1>7 DEF PeerHangsUp, RpcStep
<1>8. QED BY <1>1, <1>2, <1>3, <1>4, <1>5, <1>6, <1>7 DEF Step

\* The feed's own part of the types.
FeedTypes == /\ offered \subseteq Messages
             /\ session \in [Sessions -> {"new", "open", "dead", "closed"}]
             /\ msgChan \in Seq(Messages) /\ Len(msgChan) <= ChanCap
             /\ work \in [Workers -> Work]
             /\ depthSubs \subseteq Keys \X Sessions
             /\ snapshots \in [Keys -> Books \union {NoSnapshot}]
             /\ poll \in Poll
             /\ view \in [Sessions -> Books]
             /\ steady \in [Sessions -> Keys \union {NoKey}]
             /\ stale \in [Sessions -> SUBSET Prices]
             /\ requests \in 0 .. MaxRequests /\ changes \in 0 .. MaxChanges

\* A message is levels of a book, so laying it over one gives another.
LEMMA BooksStayBooks ==
  /\ Empty \in Books
  /\ \A body \in Books \union {Garbage} : Parsed(body) \in Books
  /\ \A b \in Books, v \in Books : LayOver(v, Whole(b)) \in Books
  /\ \A old \in Books \union {NoSnapshot}, b \in Books, v \in Books : LayOver(v, Diff(old, b)) \in Books
<1>1. Empty \in Books
  BY FeedAssumption DEF Empty
<1>2. \A body \in Books \union {Garbage} : Parsed(body) \in Books
  BY <1>1, CallersAssumption DEF Parsed
<1>3. ASSUME NEW b \in Books, NEW v \in Books PROVE LayOver(v, Whole(b)) \in Books
  BY FeedAssumption DEF LayOver, Whole, Levels
<1>4. ASSUME NEW old \in Books \union {NoSnapshot}, NEW b \in Books, NEW v \in Books
      PROVE  LayOver(v, Diff(old, b)) \in Books
  BY FeedAssumption DEF LayOver, Diff
<1>5. QED BY <1>1, <1>2, <1>3, <1>4

\* What a client makes of a message is well typed.
LEMMA DeliverTypes ==
  ASSUME FeedTypes, NEW s \in Sessions, NEW m, LayOver(view[s], m) \in Books,
         NEW k \in Keys \union {NoKey}, NEW whole \in BOOLEAN, Deliver(s, m, k, whole)
  PROVE  /\ view' \in [Sessions -> Books]
         /\ steady' \in [Sessions -> Keys \union {NoKey}]
         /\ stale' \in [Sessions -> SUBSET Prices]
<1>1. view' \in [Sessions -> Books] /\ steady' \in [Sessions -> Keys \union {NoKey}]
  BY DEF FeedTypes, Deliver
<1>2. Levels(view[s]) \ DOMAIN m \in SUBSET Prices /\ stale[s] \ DOMAIN m \in SUBSET Prices
  BY DEF FeedTypes, Levels
<1>3. stale' \in [Sessions -> SUBSET Prices]
  BY <1>2 DEF FeedTypes, Deliver
<1>4. QED BY <1>1, <1>3

\* Each step keeps the types: of the sessions, ...
LEMMA SessionTypes ==
  ASSUME FeedTypes, offered' = offered, NEW s \in Sessions, Connect(s) \/ MarkDead(s) \/ RemoveSession(s)
  PROVE  FeedTypes'
<1>1. CASE Connect(s)
  BY <1>1 DEF FeedTypes, Connect
<1>2. CASE MarkDead(s)
  BY <1>2, BooksStayBooks DEF FeedTypes, MarkDead
<1>3. CASE RemoveSession(s)
  BY <1>3 DEF FeedTypes, RemoveSession
<1>4. QED BY <1>1, <1>2, <1>3

LEMMA ReadLoopTypes ==
  ASSUME FeedTypes, offered' = offered, NEW m \in offered, ReadLoop(m)
  PROVE  FeedTypes'
<1>1. msgChan \in Seq(Messages) /\ m \in Messages /\ Len(msgChan) < ChanCap /\ msgChan' = Append(msgChan, m)
  BY DEF FeedTypes, ReadLoop
<1>2. msgChan' \in Seq(Messages) /\ Len(msgChan') = Len(msgChan) + 1 /\ Len(msgChan) \in Nat
  BY <1>1
<1>3. Len(msgChan') <= ChanCap
  BY <1>1, <1>2, FeedAssumption
<1>4. requests' \in 0 .. MaxRequests
  BY FeedAssumption DEF FeedTypes, ReadLoop
<1>5. QED BY <1>2, <1>3, <1>4 DEF FeedTypes, ReadLoop

\* ... of the workers, ...
LEMMA WorkerTypes ==
  ASSUME FeedTypes, RpcInv, offered' = offered, NEW w \in Workers, Worker(w)
  PROVE  FeedTypes'
<1>1. work[w] \in Work /\ Idle \in Work
  BY DEF FeedTypes, Work
<1>2. ASSUME msgChan # <<>>
      PROVE  /\ Head(msgChan) \in Messages /\ Tail(msgChan) \in Seq(Messages)
             /\ Len(Tail(msgChan)) <= ChanCap
  BY <1>2, FeedAssumption DEF FeedTypes
<1>3. CASE Unsubscribe(w)
  <2>1. depthSubs' \subseteq depthSubs
    BY <1>3 DEF Unsubscribe
  <2>2. QED BY <1>2, <1>3, <2>1 DEF FeedTypes, Unsubscribe
<1>4. CASE Subscribe(w)
  <2> DEFINE m == Head(msgChan)
             job == [pc |-> "call", session |-> m.session, key |-> m.key]
  <2>1. m \in Messages /\ m.kind = "subscribe" /\ Tail(msgChan) \in Seq(Messages) /\ Len(Tail(msgChan)) <= ChanCap
    BY <1>2, <1>4 DEF Subscribe
  <2>2. m.session \in Sessions /\ m.key \in Keys
    BY <2>1 DEF Messages
  <2>3. job \in Work
    BY <2>2 DEF Work
  <2>4. /\ depthSubs' = depthSubs \union {<<m.key, m.session>>} /\ work' = [work EXCEPT ![w] = job]
        /\ msgChan' = Tail(msgChan)
    BY <1>4 DEF Subscribe
  <2> HIDE DEF m, job
  <2>5. QED BY <1>4, <2>1, <2>2, <2>3, <2>4 DEF FeedTypes, Subscribe, m
<1>5. CASE WorkerSends(w)
  <2>1. [work[w] EXCEPT !.pc = "waiting"] \in Work
    BY <1>1, <1>5 DEF Work, Idle, WorkerSends
  <2>2. QED BY <1>5, <2>1 DEF FeedTypes, WorkerSends, Nothing, WorkerFrame
<1>6. ASSUME NEW n \in 1 .. Len(wire), WorkerReads(w, n) PROVE FeedTypes'
  <2>1. Received(n) \in Books \union {Garbage}
    BY <1>6, ReadKeeps, FeedAssumption DEF WorkerReads
  <2>2. work[w].session \in Sessions
    BY <1>1, <1>6 DEF Work, Idle, WorkerReads
  <2>3. [pc |-> "push", session |-> work[w].session, body |-> Received(n)] \in Work
    BY <2>1, <2>2 DEF Work
  <2>4. QED BY <1>6, <2>3 DEF FeedTypes, WorkerReads, Nothing, WorkerFrame
<1>7. CASE WorkerGivesUp(w)
  BY <1>1, <1>7 DEF FeedTypes, WorkerGivesUp, Nothing, WorkerFrame
<1>8. CASE WorkerPushes(w)
  <2>1. work[w].session \in Sessions /\ work[w].body \in Books \union {Garbage}
    BY <1>1, <1>8 DEF Work, Idle, WorkerPushes
  <2>2. LayOver(view[work[w].session], Whole(Parsed(work[w].body))) \in Books
    BY <2>1, BooksStayBooks DEF FeedTypes
  <2>3. /\ view' \in [Sessions -> Books]
        /\ steady' \in [Sessions -> Keys \union {NoKey}]
        /\ stale' \in [Sessions -> SUBSET Prices]
    BY <1>8, <2>1, <2>2, DeliverTypes DEF WorkerPushes, Nothing, FeedTypes
  <2>4. work' \in [Workers -> Work]
    BY <1>1, <1>8 DEF FeedTypes, WorkerPushes
  <2>5. QED BY <1>8, <2>3, <2>4 DEF FeedTypes, WorkerPushes, WorkerFrame
<1>9. QED BY <1>3, <1>4, <1>5, <1>6, <1>7, <1>8 DEF Worker

\* ... of the poller ...
LEMMA LoopTypes == \A todo \in SUBSET Keys : Loop(todo) \in Poll
  BY DEF Loop, Poll, Asleep

LEMMA PollTypes ==
  ASSUME FeedTypes, RpcInv, offered' = offered, PollDepth
  PROVE  FeedTypes'
<1>1. poll \in Poll
  BY DEF FeedTypes
<1>2. CASE Tick
  <2>1. poll' \in Poll
    BY <1>2, LoopTypes DEF Tick
  <2>2. QED BY <1>2, <2>1 DEF FeedTypes, Tick, Nothing, Kept, PollFrame
<1>3. ASSUME NEW k \in Keys, PollSends(k) PROVE FeedTypes'
  <2>1. poll.todo \in SUBSET Keys
    BY <1>1, <1>3 DEF Poll, Asleep, PollSends
  <2>2. poll' \in Poll
    BY <1>3, <2>1 DEF Poll, PollSends
  <2>3. QED BY <1>3, <2>2 DEF FeedTypes, PollSends, Nothing, Kept, PollFrame
<1>4. ASSUME NEW n \in 1 .. Len(wire), NEW due \in BOOLEAN, PollReads(n, due) PROVE FeedTypes'
  <2>1. poll.todo \in SUBSET Keys /\ poll.key \in Keys
    BY <1>1, <1>4 DEF Poll, Asleep, PollReads
  <2>2. Received(n) \in Books \union {Garbage}
    BY <1>4, ReadKeeps, FeedAssumption DEF PollReads
  <2>3. SubscribersOf(poll.key) \in SUBSET Sessions
    BY DEF SubscribersOf
  <2>4. poll' \in Poll
    BY <1>4, <2>1, <2>2, <2>3 DEF Poll, PollReads
  <2>5. QED BY <1>4, <2>4 DEF FeedTypes, PollReads, Nothing, Kept, PollFrame
<1>5. CASE PollGivesUp
  <2>1. poll.todo \in SUBSET Keys
    BY <1>1, <1>5 DEF Poll, Asleep, PollGivesUp
  <2>2. poll' \in Poll
    BY <1>5, <2>1, LoopTypes DEF PollGivesUp
  <2>3. QED BY <1>5, <2>2 DEF FeedTypes, PollGivesUp, Nothing, Kept, PollFrame
<1>6. ASSUME NEW s \in Sessions, Push(s) PROVE FeedTypes'
  <2>1. /\ poll.key \in Keys /\ poll.body \in Books \union {Garbage}
        /\ [poll EXCEPT !.left = @ \ {s}] \in Poll
    BY <1>1, <1>6 DEF Poll, Asleep, Push
  <2>2. poll' \in Poll
    BY <1>6, <2>1 DEF Push
  <2>3. /\ view' \in [Sessions -> Books]
        /\ steady' \in [Sessions -> Keys \union {NoKey}]
        /\ stale' \in [Sessions -> SUBSET Prices]
    <3>1. CASE Nothing \/ (steady' = [steady EXCEPT ![s] = NoKey] /\ UNCHANGED <<view, stale>>)
      BY <3>1 DEF FeedTypes, Nothing
    <3>2. CASE /\ poll.body # Garbage
               /\ Deliver(s, Whole(poll.body), IF KeysOf(s) = {poll.key} THEN poll.key ELSE NoKey, TRUE)
      <4>1. LayOver(view[s], Whole(poll.body)) \in Books
        BY <2>1, <3>2, BooksStayBooks DEF FeedTypes
      <4>2. (IF KeysOf(s) = {poll.key} THEN poll.key ELSE NoKey) \in Keys \union {NoKey}
        BY <2>1
      <4>3. QED BY <3>2, <4>1, <4>2, DeliverTypes
    <3>3. CASE Deliver(s, Diff(snapshots[poll.key], Parsed(poll.body)),
                       IF steady[s] = poll.key THEN poll.key ELSE NoKey, FALSE)
      <4>1. LayOver(view[s], Diff(snapshots[poll.key], Parsed(poll.body))) \in Books
        BY <2>1, BooksStayBooks DEF FeedTypes
      <4>2. (IF steady[s] = poll.key THEN poll.key ELSE NoKey) \in Keys \union {NoKey}
        BY <2>1
      <4>3. QED BY <3>3, <4>1, <4>2, DeliverTypes
    <3>4. QED BY <1>6, <3>1, <3>2, <3>3 DEF Push
  <2>4. QED BY <1>6, <2>2, <2>3 DEF FeedTypes, Push, Kept, PollFrame
<1>7. CASE Pushed
  <2>1. poll.todo \in SUBSET Keys /\ poll.body \in Books \union {Garbage}
    BY <1>1, <1>7 DEF Poll, Asleep, Pushed
  <2>2. poll' \in Poll
    BY <1>7, <2>1, LoopTypes DEF Pushed
  <2>3. Parsed(poll.body) \in Books
    BY <2>1, BooksStayBooks
  <2>4. QED BY <1>7, <2>2, <2>3 DEF FeedTypes, Pushed, Nothing, PollFrame
<1>8. QED BY <1>2, <1>3, <1>4, <1>5, <1>6, <1>7 DEF PollDepth

\* ... and of the peer.
LEMMA PeerTypes ==
  ASSUME FeedTypes, offered' = offered, Environment,
         changes' = changes \/ (changes < MaxChanges /\ changes' = changes + 1)
  PROVE  FeedTypes'
<1>1. changes' \in 0 .. MaxChanges
  BY FeedAssumption DEF FeedTypes
<1>2. QED BY <1>1 DEF FeedTypes, Environment

LEMMA NextKeepsTypes == RpcInv /\ FeedTypes /\ [Next]_vars => (RpcInv /\ FeedTypes)'
<1> SUFFICES ASSUME RpcInv, FeedTypes, [Next]_vars PROVE RpcInv' /\ FeedTypes'
  OBVIOUS
<1>1. CASE UNCHANGED vars
  <2>1. UNCHANGED rpcVars
    BY <1>1 DEF vars, stateVars
  <2>2. FeedTypes'
    BY <1>1 DEF vars, stateVars, feedVars, FeedTypes
  <2>3. RpcInv'
    BY <2>1, RpcStepKeeps
  <2>4. QED BY <2>2, <2>3
<1>2. CASE Next
  <2>1. TypeOK /\ Step /\ offered' = offered
    BY <1>2 DEF TypeOK, FeedTypes, RpcInv, Next
  <2>2. RpcInv'
    BY <2>1, StepIsRpcStep, RpcStepKeeps
  <2>3. ASSUME NEW i \in DOMAIN inflight, PeerAnswers(i) PROVE FeedTypes'
    BY <2>1, <2>3, PeerTypes DEF PeerAnswers
  <2>4. ASSUME NEW k, NEW b, PeerTrades(k, b) PROVE FeedTypes'
    BY <2>1, <2>4, PeerTypes DEF PeerTrades
  <2>5. CASE PeerHangsUp
    BY <2>1, <2>2, <2>5, PeerTypes DEF PeerHangsUp
  <2>6. FeedTypes'
    BY <2>1, <2>3, <2>4, <2>5, SessionTypes, ReadLoopTypes, WorkerTypes, PollTypes DEF Step
  <2>7. QED BY <2>2, <2>6
<1>3. QED BY <1>1, <1>2

-----------------------------------------------------------------------------
(* Steady clients *)

\* A step that sends a session nothing, and does not change what it was sent last,
\* leaves it as it was, or makes it unsteady.
LEMMA SteadyCarries ==
  ASSUME NEW s \in Sessions, SteadyOK(s),
         \/ steady'[s] = NoKey
         \/ /\ steady'[s] = steady[s] /\ view'[s] = view[s] /\ stale'[s] = stale[s]
            /\ session[s] = "open" => session'[s] = "open"
            /\ <<steady[s], s>> \in depthSubs => <<steady[s], s>> \in depthSubs'
            /\ steady[s] # NoKey /\ <<steady[s], s>> \in depthSubs => Reference(s)' = Reference(s)
  PROVE  SteadyOK(s)'
<1>1. CASE steady'[s] = NoKey
  BY <1>1 DEF SteadyOK
<1>2. CASE steady'[s] # NoKey
  <2>1. /\ steady[s] # NoKey /\ steady'[s] = steady[s] /\ view'[s] = view[s] /\ stale'[s] = stale[s]
        /\ session'[s] = "open" /\ <<steady[s], s>> \in depthSubs' /\ Reference(s)' = Reference(s)
    BY <1>2 DEF SteadyOK
  <2>2. QED BY <2>1 DEF SteadyOK, Agrees
<1>3. QED BY <1>1, <1>2

\* What was sent last stays so while the poller does not send.
LEMMA ReferenceStays ==
  ASSUME NEW s \in Sessions, steady'[s] = steady[s],
         \/ UNCHANGED <<poll, snapshots>>
         \/ poll.pc # "push" /\ poll'.pc # "push" /\ snapshots' = snapshots
  PROVE  Reference(s)' = Reference(s)
  BY DEF Reference

\* What is left of the steps that neither send nor poll.
LEMMA QuietKeeps ==
  ASSUME FeedInv, NEW s \in Sessions, UNCHANGED <<poll, snapshots>>,
         \/ \E x \in Sessions : Connect(x) \/ MarkDead(x) \/ RemoveSession(x)
         \/ \E w \in Workers : Worker(w)
         \/ UNCHANGED <<session, depthSubs, view, steady, stale>>
  PROVE  SteadyOK(s)'
<1>1. SteadyOK(s) /\ FeedTypes
  BY DEF FeedInv, TypeOK, FeedTypes
<1>2. steady'[s] = steady[s] => Reference(s)' = Reference(s)
  BY ReferenceStays
<1>3. CASE UNCHANGED <<session, depthSubs, view, steady, stale>>
  BY <1>1, <1>2, <1>3, SteadyCarries
<1>4. ASSUME NEW x \in Sessions, Connect(x) PROVE SteadyOK(s)'
  <2>1. session[s] = "open" => session'[s] = "open"
    BY <1>1, <1>4 DEF Connect, FeedTypes
  <2>2. QED BY <1>1, <1>2, <1>4, <2>1, SteadyCarries DEF Connect
<1>5. ASSUME NEW x \in Sessions, MarkDead(x) PROVE SteadyOK(s)'
  <2>1. CASE s = x
    BY <1>1, <1>5, <2>1, SteadyCarries DEF MarkDead, FeedTypes
  <2>2. CASE s # x
    BY <1>1, <1>2, <1>5, <2>2, SteadyCarries DEF MarkDead, FeedTypes
  <2>3. QED BY <2>1, <2>2
<1>6. ASSUME NEW x \in Sessions, RemoveSession(x) PROVE SteadyOK(s)'
  <2>1. CASE s = x
    BY <1>1, <1>6, <2>1, SteadyCarries DEF RemoveSession, SteadyOK, FeedTypes
  <2>2. CASE s # x
    <3>1. <<steady[s], s>> \in depthSubs => <<steady[s], s>> \in depthSubs'
      BY <1>6, <2>2 DEF RemoveSession
    <3>2. QED BY <1>1, <1>2, <1>6, <2>2, <3>1, SteadyCarries DEF RemoveSession, FeedTypes
  <2>3. QED BY <2>1, <2>2
<1>7. ASSUME NEW w \in Workers, Worker(w) PROVE SteadyOK(s)'
  <2>1. CASE Unsubscribe(w)
    <3> DEFINE x == Head(msgChan).session
    <3>1. /\ steady' = [steady EXCEPT ![x] = NoKey] /\ depthSubs' = depthSubs \ (Keys \X {x})
          /\ UNCHANGED <<session, view, stale>>
      BY <2>1 DEF Unsubscribe
    <3> HIDE DEF x
    <3>2. CASE s = x
      BY <1>1, <3>1, <3>2, SteadyCarries DEF FeedTypes
    <3>3. CASE s # x
      <4>1. <<steady[s], s>> \in depthSubs => <<steady[s], s>> \in depthSubs'
        BY <3>1, <3>3
      <4>2. QED BY <1>1, <1>2, <3>1, <3>3, <4>1, SteadyCarries DEF FeedTypes
    <3>4. QED BY <3>2, <3>3
  <2>2. CASE Subscribe(w)
    <3>1. depthSubs \subseteq depthSubs' /\ UNCHANGED <<session, view, steady, stale>>
      BY <2>2 DEF Subscribe
    <3>2. QED BY <1>1, <1>2, <3>1, SteadyCarries
  <2>3. CASE WorkerSends(w) \/ (\E n \in 1 .. Len(wire) : WorkerReads(w, n)) \/ WorkerGivesUp(w)
    <3>1. UNCHANGED <<session, depthSubs, view, steady, stale>>
      BY <2>3 DEF WorkerSends, WorkerReads, WorkerGivesUp, Nothing, WorkerFrame
    <3>2. QED BY <1>3, <3>1
  <2>4. CASE WorkerPushes(w)
    <3>1. UNCHANGED <<session, depthSubs>>
      BY <2>4 DEF WorkerPushes, WorkerFrame
    <3>2. CASE Nothing
      BY <1>3, <3>1, <3>2 DEF Nothing
    <3>3. ASSUME NEW x, NEW m, Deliver(x, m, NoKey, FALSE) PROVE SteadyOK(s)'
      <4>1. CASE s = x
        BY <1>1, <3>3, <4>1, SteadyCarries DEF Deliver, FeedTypes
      <4>2. CASE s # x
        BY <1>1, <1>2, <3>1, <3>3, <4>2, SteadyCarries DEF Deliver, FeedTypes
      <4>3. QED BY <4>1, <4>2
    <3>4. QED BY <2>4, <3>2, <3>3 DEF WorkerPushes
  <2>5. QED BY <1>7, <2>1, <2>2, <2>3, <2>4 DEF Worker
<1>8. QED BY <1>3, <1>4, <1>5, <1>6, <1>7

\* A whole book gives the client the levels it names; what else the client has is not
\* in the book, and stale from now on.
LEMMA WholeBookAgrees ==
  ASSUME NEW has \in Books, NEW b \in Books
  PROVE  Agrees(LayOver(has, Whole(b)), b, Levels(has) \ DOMAIN Whole(b))
<1>1. \A p \in Prices : b[p] # 0 => p \in DOMAIN Whole(b) /\ Whole(b)[p] = b[p]
  BY DEF Whole, Levels
<1>2. \A p \in Prices : b[p] = 0 => p \notin DOMAIN Whole(b)
  BY DEF Whole, Levels
<1>3. \A p \in Prices : has[p] # 0 => p \in Levels(has)
  BY DEF Levels
<1>4. QED BY <1>1, <1>2, <1>3 DEF Agrees, LayOver

\* A difference to what the client was sent last takes it to the new book.
LEMMA DifferenceAgrees ==
  ASSUME NEW has \in Books, NEW old \in Books, NEW b \in Books, NEW kept, Agrees(has, old, kept)
  PROVE  Agrees(LayOver(has, Diff(old, b)), b, kept \ DOMAIN Diff(old, b))
<1>1. \A p \in Prices : b[p] # old[p] => p \in DOMAIN Diff(old, b) /\ Diff(old, b)[p] = b[p]
  BY DEF Diff
<1>2. \A p \in Prices : b[p] = old[p] => p \notin DOMAIN Diff(old, b)
  BY DEF Diff
<1>3. QED BY <1>1, <1>2 DEF Agrees, LayOver

\* A push makes its session agree with what it carries, or unsteady.
LEMMA PushKeeps ==
  ASSUME FeedInv, NEW x \in Sessions, Push(x), NEW s \in Sessions
  PROVE  SteadyOK(s)'
<1>1. SteadyOK(s) /\ FeedTypes /\ DiffOK /\ poll \in Poll
  BY DEF FeedInv, TypeOK, FeedTypes
<1>2. /\ poll.pc = "push" /\ poll.key \in Keys /\ poll.body \in Books \union {Garbage} /\ x \in poll.left
      /\ poll' = [poll EXCEPT !.left = @ \ {x}]
      /\ UNCHANGED <<snapshots, session, depthSubs>>
  BY <1>1 DEF Poll, Asleep, Push, Kept, PollFrame
<1>3. /\ poll'.pc = "push" /\ poll'.key = poll.key /\ poll'.body = poll.body
      /\ poll'.left = poll.left \ {x}
  BY <1>1, <1>2 DEF Poll, Asleep
<1>4. CASE s # x
  <2>1. steady'[s] = steady[s] /\ view'[s] = view[s] /\ stale'[s] = stale[s]
    BY <1>1, <1>4 DEF Push, Nothing, Deliver, FeedTypes
  <2>2. Reference(s)' = Reference(s)
    BY <1>2, <1>3, <1>4, <2>1 DEF Reference
  <2>3. QED BY <1>1, <1>2, <2>1, <2>2, SteadyCarries
<1>5. CASE s = x /\ steady'[s] = NoKey
  BY <1>1, <1>5, SteadyCarries
<1>6. CASE s = x /\ steady'[s] # NoKey
  <2> DEFINE b == Parsed(poll.body)
  <2>1. b \in Books
    BY <1>2, BooksStayBooks
  <2>2. session[s] = "open"
    BY <1>1, <1>6 DEF Push, Nothing, SteadyOK
  <2>3. steady'[s] = poll.key => Reference(s)' = b
    BY <1>3, <1>6 DEF Reference
  <2>4. CASE /\ poll.full /\ poll.body # Garbage
             /\ Deliver(s, Whole(poll.body), IF KeysOf(s) = {poll.key} THEN poll.key ELSE NoKey, TRUE)
    <3>1. b = poll.body
      BY <2>4 DEF Parsed
    <3>2. /\ view'[s] = LayOver(view[s], Whole(b))
          /\ stale'[s] = Levels(view[s]) \ DOMAIN Whole(b)
          /\ steady'[s] = IF KeysOf(s) = {poll.key} THEN poll.key ELSE NoKey
      BY <1>1, <2>4, <3>1 DEF Deliver, FeedTypes
    <3>3. steady'[s] = poll.key /\ <<poll.key, s>> \in depthSubs
      BY <1>6, <3>2 DEF KeysOf
    <3>4. Agrees(LayOver(view[s], Whole(b)), b, Levels(view[s]) \ DOMAIN Whole(b))
      BY <1>1, <2>1, WholeBookAgrees DEF FeedTypes
    <3> HIDE DEF b
    <3>5. Agrees(view'[s], b, stale'[s])
      BY <3>2, <3>4
    <3>6. QED BY <1>2, <2>1, <2>2, <2>3, <3>3, <3>5 DEF SteadyOK, Agrees
  <2>5. CASE /\ ~poll.full
             /\ Deliver(s, Diff(snapshots[poll.key], b), IF steady[s] = poll.key THEN poll.key ELSE NoKey, FALSE)
    <3> DEFINE old == snapshots[poll.key]
    <3>1. /\ view'[s] = LayOver(view[s], Diff(old, b))
          /\ stale'[s] = stale[s] \ DOMAIN Diff(old, b)
          /\ steady'[s] = IF steady[s] = poll.key THEN poll.key ELSE NoKey
      BY <1>1, <2>5 DEF Deliver, FeedTypes
    <3>2. steady[s] = poll.key /\ steady'[s] = poll.key
      BY <1>6, <3>1
    <3>3. Reference(s) = old
      BY <1>2, <1>6, <3>2 DEF Reference
    <3>4. old \in Books /\ <<poll.key, s>> \in depthSubs
      BY <1>1, <1>2, <1>6, <2>5, <3>2 DEF DiffOK, SteadyOK
    <3>5. Agrees(view[s], old, stale[s])
      BY <1>1, <1>6, <3>2, <3>3 DEF SteadyOK
    <3> HIDE DEF b, old
    <3>6. Agrees(LayOver(view[s], Diff(old, b)), b, stale[s] \ DOMAIN Diff(old, b))
      BY <1>1, <2>1, <3>4, <3>5, DifferenceAgrees DEF FeedTypes
    <3>7. Agrees(view'[s], b, stale'[s])
      BY <3>1, <3>6
    <3>8. QED BY <1>2, <2>1, <2>2, <2>3, <3>2, <3>4, <3>7 DEF SteadyOK, Agrees
  <2>6. CASE steady' = [steady EXCEPT ![s] = NoKey]
    BY <1>1, <1>6, <2>6 DEF FeedTypes
  <2>7. QED BY <1>6, <2>2, <2>4, <2>5, <2>6 DEF Push
<1>7. QED BY <1>4, <1>5, <1>6

\* Around its pushes the poller leaves every reference as it is: a push begins with
\* every subscriber left to serve, and ends with its book as the snapshot.
LEMMA PollKeeps ==
  ASSUME FeedInv, PollDepth, ~\E x \in Sessions : Push(x)
  PROVE  DiffOK' /\ \A s \in Sessions : SteadyOK(s)'
<1>1. FeedTypes /\ poll \in Poll
  BY DEF FeedInv, TypeOK, FeedTypes
<1>2. UNCHANGED <<session, depthSubs, view, steady, stale>>
  BY DEF PollDepth, Tick, PollSends, PollReads, PollGivesUp, Pushed, Nothing, PollFrame
<1>3. \A todo : Loop(todo).pc # "push"
  BY DEF Loop, Asleep
<1>4. CASE Tick \/ PollGivesUp \/ \E k \in Keys : PollSends(k)
  <2>1. poll.pc # "push" /\ poll'.pc # "push" /\ snapshots' = snapshots
    BY <1>3, <1>4 DEF Tick, PollGivesUp, PollSends, Asleep, Kept
  <2>2. \A s \in Sessions : Reference(s)' = Reference(s)
    BY <1>2, <2>1, ReferenceStays
  <2>3. QED BY <1>2, <2>1, <2>2, SteadyCarries DEF FeedInv, DiffOK
<1>5. ASSUME NEW n \in 1 .. Len(wire), NEW due \in BOOLEAN, PollReads(n, due)
      PROVE  DiffOK' /\ \A s \in Sessions : SteadyOK(s)'
  <2>1. poll.pc # "push" /\ poll.key \in Keys /\ snapshots' = snapshots
    BY <1>1, <1>5 DEF PollReads, Poll, Asleep, Kept
  <2>2. /\ poll'.pc = "push" /\ poll'.key = poll.key /\ poll'.left = SubscribersOf(poll.key)
        /\ ~poll'.full => snapshots[poll.key] # NoSnapshot
    BY <1>5 DEF PollReads
  <2>3. DiffOK'
    BY <1>1, <2>1, <2>2 DEF DiffOK, FeedTypes
  <2>4. ASSUME NEW s \in Sessions, steady[s] # NoKey, <<steady[s], s>> \in depthSubs
        PROVE  Reference(s)' = Reference(s)
    <3>1. steady[s] = poll.key => s \in poll'.left
      BY <2>2, <2>4 DEF SubscribersOf
    <3>2. QED BY <1>2, <2>1, <2>2, <3>1 DEF Reference
  <2>5. QED BY <1>2, <2>3, <2>4, SteadyCarries DEF FeedInv
<1>6. CASE Pushed
  <2>1. /\ poll.pc = "push" /\ poll.left = {} /\ poll.key \in Keys /\ poll'.pc # "push"
        /\ snapshots' = [snapshots EXCEPT ![poll.key] = Parsed(poll.body)]
    BY <1>1, <1>3, <1>6 DEF Pushed, Poll, Asleep
  <2>2. ASSUME NEW s \in Sessions, steady[s] # NoKey PROVE Reference(s)' = Reference(s)
    <3>1. steady[s] \in Keys
      BY <1>1, <2>2 DEF FeedTypes
    <3>2. QED BY <1>1, <1>2, <2>1, <3>1 DEF Reference, FeedTypes
  <2>3. QED BY <1>2, <2>1, <2>2, SteadyCarries DEF FeedInv, DiffOK
<1>7. QED BY <1>4, <1>5, <1>6 DEF PollDepth

LEMMA NextKeepsFeed == FeedInv /\ [Next]_vars => FeedInv'
<1> SUFFICES ASSUME FeedInv, [Next]_vars PROVE FeedInv'
  OBVIOUS
<1>1. RpcInv /\ FeedTypes
  BY DEF FeedInv, TypeOK, FeedTypes, RpcInv
<1>2. TypeOK' /\ Alone'
  BY <1>1, NextKeepsTypes DEF TypeOK, FeedTypes, RpcInv
<1>3. DiffOK' /\ \A s \in Sessions : SteadyOK(s)'
  <2>1. CASE UNCHANGED <<poll, snapshots>> /\ UNCHANGED <<session, depthSubs, view, steady, stale>>
    BY <2>1, QuietKeeps DEF FeedInv, DiffOK
  <2>2. CASE \/ \E x \in Sessions : Connect(x) \/ MarkDead(x) \/ RemoveSession(x)
             \/ \E w \in Workers : Worker(w)
    <3>1. UNCHANGED <<poll, snapshots>>
      BY <2>2 DEF Connect, MarkDead, RemoveSession, Worker, Unsubscribe, Subscribe,
                  WorkerSends, WorkerReads, WorkerGivesUp, WorkerPushes, WorkerFrame
    <3>2. QED BY <2>2, <3>1, QuietKeeps DEF FeedInv, DiffOK
  <2>3. ASSUME NEW x \in Sessions, Push(x) PROVE DiffOK' /\ \A s \in Sessions : SteadyOK(s)'
    <3>1. DiffOK'
      BY <2>3, <1>1 DEF FeedTypes, Poll, Asleep, FeedInv, DiffOK, Push, Kept
    <3>2. QED BY <2>3, <3>1, PushKeeps
  <2>4. CASE PollDepth
    BY <2>3, <2>4, PollKeeps
  <2>5. CASE \/ \E m \in offered : ReadLoop(m)
             \/ \E i \in DOMAIN inflight : PeerAnswers(i)
             \/ \E m \in offered, b \in Books : m.kind = "subscribe" /\ PeerTrades(m.key, b)
             \/ PeerHangsUp
    <3>1. UNCHANGED <<poll, snapshots, session, depthSubs, view, steady, stale>>
      BY <2>5 DEF ReadLoop, PeerAnswers, PeerTrades, PeerHangsUp, Environment
    <3>2. QED BY <2>1, <3>1
  <2>6. CASE UNCHANGED vars
    BY <2>1, <2>6 DEF vars, stateVars, feedVars
  <2>7. QED BY <2>2, <2>4, <2>5, <2>6 DEF Next, Step
<1>4. QED BY <1>2, <1>3 DEF FeedInv

LEMMA FeedInitHolds == Init => FeedInv
<1> SUFFICES ASSUME Init PROVE FeedInv
  OBVIOUS
<1>1. PICK o \in Worlds : /\ RpcInit(o.books, MaxTimeouts - o.timeouts)
                          /\ offered = o.messages /\ changes = MaxChanges - o.changes
  BY DEF Init
<1>2. /\ o.books \in [Keys -> Books] /\ offered \subseteq Messages
      /\ MaxTimeouts - o.timeouts \in 0 .. MaxTimeouts /\ changes \in 0 .. MaxChanges
  BY <1>1, WorldsAssumption, CallersAssumption, FeedAssumption
<1>3. <<>> \in Seq(Request) /\ <<>> \in Seq(Reply) /\ <<>> \in Seq(Messages) /\ Len(<<>>) = 0
  OBVIOUS
<1>4. RpcTypeOK /\ Alone
  <2>1. RpcTypeOK
    BY <1>1, <1>2, <1>3 DEF RpcInit, RpcTypeOK
  <2>2. inflight = <<>> /\ wire = <<>> /\ waiting = {}
    BY <1>1 DEF RpcInit
  <2>3. Len(inflight) + Len(wire) <= 1
    BY <1>3, <2>2
  <2>4. QED BY <2>1, <2>2, <2>3 DEF Alone
<1>5. Idle \in Work /\ Asleep \in Poll
  BY DEF Work, Poll
<1>6. TypeOK
  BY <1>2, <1>3, <1>4, <1>5, BooksStayBooks, FeedAssumption DEF Init, TypeOK
<1>7. DiffOK /\ \A s \in Sessions : SteadyOK(s)
  BY DEF Init, DiffOK, SteadyOK, Asleep
<1>8. QED BY <1>4, <1>6, <1>7 DEF FeedInv

-----------------------------------------------------------------------------
\* The feed, the goroutines behind it and the connection stay well typed.
THEOREM FeedStaysTyped == Spec => []TypeOK
<1>1. FeedInv => TypeOK
  BY DEF FeedInv
<1>2. QED BY <1>1, FeedInitHolds, NextKeepsFeed, PTL DEF Spec

\* Whoever calls on a connection that every call so far found empty gets the answer to
\* its own request.
THEOREM LoneCallsGetTheirAnswer == Spec => OwnAnswer
<1>1. FeedInv /\ [Next]_vars =>
      [\A c \in waiting \ waiting' :
           wire' # wire /\ ~shared => Len(wire) = 1 /\ Head(wire).caller = c]_rpcVars
  <2> SUFFICES ASSUME FeedInv, [Next]_vars
               PROVE  \/ \A c \in waiting \ waiting' :
                             wire' # wire /\ ~shared => Len(wire) = 1 /\ Head(wire).caller = c
                      \/ UNCHANGED rpcVars
    OBVIOUS
  <2>1. RpcInv /\ TypeOK
    BY DEF FeedInv, TypeOK, RpcInv
  <2>2. CASE UNCHANGED vars
    BY <2>2 DEF vars, stateVars
  <2>3. CASE Next
    <3>1. RpcStep \/ UNCHANGED rpcVars
      BY <2>1, <2>3, StepIsRpcStep DEF Next
    <3>2. QED BY <2>1, <3>1, RpcStepKeeps
  <2>4. QED BY <2>2, <2>3
<1>2. QED BY <1>1, FeedInitHolds, NextKeepsFeed, PTL DEF Spec, OwnAnswer

\* Whatever answers the poller gets, a client that it has sent a whole book holds what
\* it sent last, and besides only levels no message can tell the client to drop.
THEOREM SteadyViewsAgree == Spec => []SteadyViewAgrees
<1>1. FeedInv => SteadyViewAgrees
  BY DEF FeedInv, SteadyOK, Agrees, SteadyViewAgrees
<1>2. QED BY <1>1, FeedInitHolds, NextKeepsFeed, PTL DEF Spec
=============================================================================
