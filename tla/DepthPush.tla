------------------------------ MODULE DepthPush ------------------------------
(***************************************************************************)
(* The gateway's depth feed (accessws): workers register a subscription    *)
(* and send the session a first book (handler/depth.go), the poller asks   *)
(* for every subscribed book again and again and sends all of it, when it  *)
(* has no snapshot or the clean interval has passed, or the difference to  *)
(* its snapshot (server.go), and a session may end at any time.  Bids and  *)
(* asks are treated alike: a book is one side, an amount for each price    *)
(* with zero for no level.                                                 *)
(*                                                                         *)
(* A message names neither its key nor whether it is a whole book, so a    *)
(* client can only lay it over what it has: view.  Two variables record    *)
(* what a client cannot know: steady, the key whose whole book the poller  *)
(* has sent it and of which it has had every push, and no other push,      *)
(* since; and stale, the levels that were on the view then and not in the  *)
(* book.                                                                   *)
(***************************************************************************)
EXTENDS RpcClient

CONSTANTS Sessions, Workers,
          Poller,       \* the goroutine of startTimers, a caller
          Prices, MaxAmount,
          Worlds,       \* what a behaviour is about: what clients may ask for, the first books,
                        \* how many answers may come late and how often the peer changes a book
                        \* or ends the connection
          NoSnapshot, NoKey,
          ChanCap,      \* capacity of msgChan (10000 in the code)
          MaxRequests,  \* bound of the model on the messages of clients
          MaxChanges    \* bound of the model on the changes of the books and the ends of the connection

ASSUME FeedAssumption == /\ Callers = Workers \union {Poller} /\ Poller \notin Workers
                         /\ Books = [Prices -> 0 .. MaxAmount] /\ MaxAmount \in Nat
                         /\ NoSnapshot \notin Books /\ NoKey \notin Keys
                         /\ ChanCap \in Nat \ {0}
                         /\ MaxRequests \in Nat /\ MaxChanges \in Nat

VARIABLES offered,      \* messages that clients may send
          session,      \* new, open, dead (marked, to be unsubscribed) or closed
          msgChan,      \* messages between the read loops and the workers
          work,         \* where each worker is
          depthSubs,    \* <<key, session>> pairs
          snapshots,    \* what the poller sent last, by key
          poll,         \* where the poller is
          view,         \* what each client makes of its messages
          steady, stale,
          requests, changes
feedVars == <<session, msgChan, work, depthSubs, snapshots, poll,
              view, steady, stale, requests, changes>>
stateVars == <<rpcVars, feedVars>>
vars == <<offered, stateVars>>

Empty == [p \in Prices |-> 0]
Levels(b) == {p \in Prices : b[p] # 0}
Parsed(body) == IF body = Garbage THEN Empty ELSE body

\* A message is the levels it names.
Whole(b) == [p \in Levels(b) |-> b[p]]
\* Mutant: a level that is gone is not mentioned.
DiffForgetsRemoved(old, new) == [p \in {q \in Levels(new) : new[q] # old[q]} |-> new[p]]
Diff(old, new) == [p \in {q \in Prices : new[q] # old[q]} |-> new[p]]
LayOver(v, m) == [p \in Prices |-> IF p \in DOMAIN m THEN m[p] ELSE v[p]]

Messages == [kind : {"subscribe"}, session : Sessions, key : Keys]
            \union [kind : {"unsubscribe"}, session : Sessions]

ASSUME WorldsAssumption ==
    \A o \in Worlds : /\ o.books \in [Keys -> Books] /\ o.messages \subseteq Messages
                      /\ o.timeouts \in 0 .. MaxTimeouts /\ o.changes \in 0 .. MaxChanges

Idle == [pc |-> "idle"]
Work == {Idle} \union [pc : {"call", "waiting"}, session : Sessions, key : Keys]
               \union [pc : {"push"}, session : Sessions, body : Books \union {Garbage}]

Asleep == [pc |-> "asleep"]
Poll == {Asleep}
        \union [pc : {"next"}, todo : SUBSET Keys]
        \union [pc : {"waiting"}, todo : SUBSET Keys, key : Keys]
        \union [pc : {"push"}, todo : SUBSET Keys, key : Keys,
                body : Books \union {Garbage}, full : BOOLEAN, left : SUBSET Sessions]

\* Sessions, workers, poller and the connection are well typed.
TypeOK == /\ RpcTypeOK /\ offered \subseteq Messages
          /\ session \in [Sessions -> {"new", "open", "dead", "closed"}]
          /\ msgChan \in Seq(Messages) /\ Len(msgChan) <= ChanCap
          /\ work \in [Workers -> Work]
          /\ depthSubs \subseteq Keys \X Sessions
          /\ snapshots \in [Keys -> Books \union {NoSnapshot}]
          /\ poll \in Poll
          /\ view \in [Sessions -> Books]
          /\ steady \in [Sessions -> Keys \union {NoKey}]
          /\ stale \in [Sessions -> SUBSET Prices]
          /\ requests \in 0 .. MaxRequests /\ changes \in 0 .. MaxChanges

Init == /\ \E o \in Worlds : /\ RpcInit(o.books, MaxTimeouts - o.timeouts)
                              /\ offered = o.messages /\ changes = MaxChanges - o.changes
        /\ session = [s \in Sessions |-> "new"]
        /\ msgChan = <<>>
        /\ work = [w \in Workers |-> Idle]
        /\ depthSubs = {}
        /\ snapshots = [k \in Keys |-> NoSnapshot]
        /\ poll = Asleep
        /\ view = [s \in Sessions |-> Empty]
        /\ steady = [s \in Sessions |-> NoKey]
        /\ stale = [s \in Sessions |-> {}]
        /\ requests = 0

KeysOf(s) == {k \in Keys : <<k, s>> \in depthSubs}
SubscribersOf(k) == {s \in Sessions : <<k, s>> \in depthSubs}

-----------------------------------------------------------------------------
(* Sessions. *)

Connect(s) ==
    /\ session[s] = "new"
    /\ session' = [session EXCEPT ![s] = "open"]
    /\ UNCHANGED <<rpcVars, msgChan, work, depthSubs, snapshots, poll,
                   view, steady, stale, requests, changes>>

\* Mutant: the channel has no bound.
ReadLoopNeverBlocks(m) ==
    /\ session[m.session] = "open"
    /\ requests < MaxRequests /\ requests' = requests + 1
    /\ msgChan' = Append(msgChan, m)
    /\ UNCHANGED <<rpcVars, session, work, depthSubs, snapshots, poll,
                   view, steady, stale, changes>>
\* readLoop hands a message over; it blocks on a full channel.
ReadLoop(m) ==
    /\ session[m.session] = "open"
    /\ requests < MaxRequests /\ requests' = requests + 1
    /\ Len(msgChan) < ChanCap
    /\ msgChan' = Append(msgChan, m)
    /\ UNCHANGED <<rpcVars, session, work, depthSubs, snapshots, poll,
                   view, steady, stale, changes>>

\* readLoop ends: the session is marked, later it is unsubscribed and closed.
MarkDead(s) ==
    /\ session[s] = "open"
    /\ session' = [session EXCEPT ![s] = "dead"]
    /\ view' = [view EXCEPT ![s] = Empty]
    /\ steady' = [steady EXCEPT ![s] = NoKey]
    /\ stale' = [stale EXCEPT ![s] = {}]
    /\ UNCHANGED <<rpcVars, msgChan, work, depthSubs, snapshots, poll, requests, changes>>
RemoveSession(s) ==
    /\ session[s] = "dead"
    /\ session' = [session EXCEPT ![s] = "closed"]
    /\ depthSubs' = depthSubs \ (Keys \X {s})
    /\ UNCHANGED <<rpcVars, msgChan, work, snapshots, poll,
                   view, steady, stale, requests, changes>>

-----------------------------------------------------------------------------
(* Workers. *)

\* A message that reaches the client: the levels of a whole book the client already
\* has and the book does not are stale from now on.
Deliver(s, m, k, whole) ==
    /\ view' = [view EXCEPT ![s] = LayOver(@, m)]
    /\ stale' = [stale EXCEPT ![s] = IF whole THEN Levels(view[s]) \ DOMAIN m ELSE @ \ DOMAIN m]
    /\ steady' = [steady EXCEPT ![s] = k]
Nothing == UNCHANGED <<view, steady, stale>>

\* HandleDepthUnsubscribe.
Unsubscribe(w) ==
    /\ work[w] = Idle
    /\ msgChan # <<>> /\ Head(msgChan).kind = "unsubscribe"
    /\ msgChan' = Tail(msgChan)
    /\ depthSubs' = depthSubs \ (Keys \X {Head(msgChan).session})
    /\ steady' = [steady EXCEPT ![Head(msgChan).session] = NoKey]
    /\ UNCHANGED <<rpcVars, session, work, snapshots, poll, view, stale, requests, changes>>

\* HandleDepthSubscribe up to the query ...
Subscribe(w) ==
    /\ work[w] = Idle
    /\ msgChan # <<>> /\ Head(msgChan).kind = "subscribe"
    /\ msgChan' = Tail(msgChan)
    /\ LET m == Head(msgChan)
       IN  /\ depthSubs' = depthSubs \union {<<m.key, m.session>>}
           /\ work' = [work EXCEPT ![w] = [pc |-> "call", session |-> m.session, key |-> m.key]]
    /\ UNCHANGED <<rpcVars, session, snapshots, poll, view, steady, stale, requests, changes>>

\* ... the query ...
WorkerFrame == UNCHANGED <<session, msgChan, depthSubs, snapshots, poll, requests, changes>>
WorkerSends(w) ==
    /\ work[w].pc = "call"
    /\ Send(w, work[w].key)
    /\ work' = [work EXCEPT ![w].pc = "waiting"]
    /\ Nothing /\ WorkerFrame
WorkerReads(w, n) ==
    /\ work[w].pc = "waiting"
    /\ Read(w, n)
    /\ work' = [work EXCEPT ![w] = [pc |-> "push", session |-> @.session, body |-> Received(n)]]
    /\ Nothing /\ WorkerFrame
WorkerGivesUp(w) ==
    /\ work[w].pc = "waiting"
    /\ GiveUp(w)
    /\ work' = [work EXCEPT ![w] = Idle]
    /\ Nothing /\ WorkerFrame

\* ... and BroadcastDepthUpdate: the whole book, straight to the session.
WorkerPushes(w) ==
    /\ work[w].pc = "push"
    /\ IF session[work[w].session] = "open"
       THEN Deliver(work[w].session, Whole(Parsed(work[w].body)), NoKey, FALSE)
       ELSE Nothing
    /\ work' = [work EXCEPT ![w] = Idle]
    /\ WorkerFrame /\ UNCHANGED rpcVars

-----------------------------------------------------------------------------
(* pollDepth. *)

PollFrame == UNCHANGED <<session, msgChan, work, depthSubs, requests, changes>>
Kept == UNCHANGED snapshots

\* The loop over the keys that remain.
Loop(todo) == IF todo = {} THEN Asleep ELSE [pc |-> "next", todo |-> todo]
Tick ==
    /\ poll = Asleep
    /\ depthSubs # {}
    /\ poll' = Loop({k \in Keys : SubscribersOf(k) # {}})
    /\ Nothing /\ Kept /\ PollFrame /\ UNCHANGED rpcVars

PollSends(k) ==
    /\ poll.pc = "next"
    /\ k \in poll.todo
    /\ Send(Poller, k)
    /\ poll' = [pc |-> "waiting", todo |-> poll.todo \ {k}, key |-> k]
    /\ Nothing /\ Kept /\ PollFrame
\* Mutant: a whole book only when there is no snapshot.
PollReadsNeverClean(n, due) ==
    /\ poll.pc = "waiting"
    /\ Read(Poller, n)
    /\ poll' = [pc |-> "push", todo |-> poll.todo, key |-> poll.key, body |-> Received(n),
                full |-> snapshots[poll.key] = NoSnapshot,
                left |-> SubscribersOf(poll.key)]
    /\ Nothing /\ Kept /\ PollFrame
\* ... an answer, and with it the subscribers of now and the decision what to send: the
\* clean interval may have passed since the key's last clean ...
PollReads(n, due) ==
    /\ poll.pc = "waiting"
    /\ Read(Poller, n)
    /\ poll' = [pc |-> "push", todo |-> poll.todo, key |-> poll.key, body |-> Received(n),
                full |-> snapshots[poll.key] = NoSnapshot \/ due,
                left |-> SubscribersOf(poll.key)]
    /\ Nothing /\ Kept /\ PollFrame
\* ... or an error: the key is skipped.
PollGivesUp ==
    /\ poll.pc = "waiting"
    /\ GiveUp(Poller)
    /\ poll' = Loop(poll.todo)
    /\ Nothing /\ Kept /\ PollFrame

\* BroadcastToSessions, one session.  A whole book is passed on as it came, and a body
\* that is not JSON cannot be put into a message.
Push(s) ==
    /\ poll.pc = "push"
    /\ s \in poll.left
    /\ poll' = [poll EXCEPT !.left = @ \ {s}]
    /\ \/ session[s] # "open" /\ Nothing
       \/ /\ session[s] = "open" /\ poll.full /\ poll.body = Garbage
          /\ steady' = [steady EXCEPT ![s] = NoKey]
          /\ UNCHANGED <<view, stale>>
       \/ /\ session[s] = "open" /\ poll.full /\ poll.body # Garbage
          /\ Deliver(s, Whole(poll.body), IF KeysOf(s) = {poll.key} THEN poll.key ELSE NoKey, TRUE)
       \/ /\ session[s] = "open" /\ ~poll.full
          /\ Deliver(s, Diff(snapshots[poll.key], Parsed(poll.body)),
                     IF steady[s] = poll.key THEN poll.key ELSE NoKey, FALSE)
    /\ Kept /\ PollFrame /\ UNCHANGED rpcVars

Pushed ==
    /\ poll.pc = "push"
    /\ poll.left = {}
    /\ snapshots' = [snapshots EXCEPT ![poll.key] = Parsed(poll.body)]
    /\ poll' = Loop(poll.todo)
    /\ Nothing /\ PollFrame /\ UNCHANGED rpcVars

-----------------------------------------------------------------------------
(* The peer. *)

Environment == UNCHANGED <<session, msgChan, work, depthSubs, snapshots, poll,
                           view, steady, stale, requests>>
PeerAnswers(i) == Answer(i) /\ Environment /\ UNCHANGED changes
PeerTrades(k, b) ==
    /\ changes < MaxChanges /\ changes' = changes + 1
    /\ open /\ b # book[k]
    /\ BookChanges(k, b)
    /\ Environment
PeerHangsUp ==
    /\ changes < MaxChanges /\ changes' = changes + 1
    /\ HangUp
    /\ Environment

Worker(w) == \/ Unsubscribe(w) \/ Subscribe(w) \/ WorkerSends(w)
             \/ (\E n \in 1 .. Len(wire) : WorkerReads(w, n))
             \/ WorkerGivesUp(w) \/ WorkerPushes(w)
PollDepth == \/ Tick \/ (\E k \in Keys : PollSends(k))
             \/ (\E n \in 1 .. Len(wire), due \in BOOLEAN : PollReads(n, due))
             \/ PollGivesUp
             \/ (\E s \in Sessions : Push(s)) \/ Pushed

Step == \/ \E s \in Sessions : Connect(s) \/ MarkDead(s) \/ RemoveSession(s)
        \/ \E m \in offered : ReadLoop(m)
        \/ \E w \in Workers : Worker(w)
        \/ PollDepth
        \/ \E i \in DOMAIN inflight : PeerAnswers(i)
        \/ \E m \in offered, b \in Books : m.kind = "subscribe" /\ PeerTrades(m.key, b)
        \/ PeerHangsUp
Next == Step /\ UNCHANGED offered

\* Goroutines go on, time passes and the peer answers what it has received.
Fairness == /\ \A w \in Workers : WF_stateVars(Worker(w))
            /\ WF_stateVars(PollDepth)
            /\ \A k \in Keys : SF_stateVars(poll.pc = "waiting" /\ poll.key = k /\ \E n \in 1 .. Len(wire) : PollReads(n, TRUE))
            /\ WF_stateVars(\E i \in DOMAIN inflight : PeerAnswers(i))
            /\ \A s \in Sessions : WF_stateVars(RemoveSession(s))
Spec == Init /\ [][Next]_vars
FairSpec == Spec /\ Fairness

-----------------------------------------------------------------------------
\* What the poller sent the session last, of the key the session is steady in.
Reference(s) == IF poll.pc = "push" /\ poll.key = steady[s] /\ s \notin poll.left
                THEN Parsed(poll.body) ELSE snapshots[steady[s]]

\* Whatever answers the poller gets, in whatever order subscriptions, first books,
\* whole books and differences (server.go 296-354) come: a client that the poller has
\* sent a whole book holds what the poller sent last, and besides only levels that it
\* had before that book and that no message can tell it to drop.
SteadyViewAgrees ==
    \A s \in Sessions : steady[s] # NoKey =>
        \A p \in Prices : \/ view[s][p] = Reference(s)[p]
                          \/ Reference(s)[p] = 0 /\ p \in stale[s]

\* Once a session stays, with one subscription, on a connection that stays up and has
\* no answer too many, its view comes to hold every level of the book: a first book
\* or a difference that went wrong is mended by the next clean.
Settled(s, k) == session[s] = "open" /\ KeysOf(s) = {k} /\ open /\ ~Shifted
ViewConverges ==
    \A s \in Sessions, k \in Keys :
        <>[]Settled(s, k) => <>[](\A p \in Levels(book[k]) : view[s][p] = book[k][p])
=============================================================================
