---------------------------- MODULE Engine_proofs ----------------------------
(***************************************************************************)
(* Proofs about the live engine, for any number of clients, users and      *)
(* requests and whatever book the last slice held.                         *)
(***************************************************************************)
EXTENDS Engine, SumTheorems, TLAPS

\* The lock: its owner is the goroutine that announced itself or is past that,
\* and while one is in the critical section nobody reads.
Holding == {"announced"} \union Critical
LockInv == /\ \A t \in Threads : owner = t <=> pc[t] \in Holding
           /\ \A t, r \in Threads : pc[t] \in Critical => pc[r] # "reading"

\* A creation under the lock has its id, so that what it logs is an order.
IInv == TypeOK /\ LockInv /\ FrozenMatchesLog

Working == {NoRequest} \union CancelRequest \union ReadRequest \union Logged \union CronRequest

\* Nobody is not a goroutine, and the ticker and the clients are.
LEMMA NobodyIsNoThread == Nobody \notin Threads /\ Cron \in Threads /\ Clients \subseteq Threads
  BY ClientsAssumption DEF Threads

\* Before the first request nobody has the lock and nothing is frozen or logged.
LEMMA InitHolds == Init => IInv
<1> SUFFICES ASSUME Init PROVE IInv
  OBVIOUS
<1>1. TypeOK
  <2>1. heap \in [DOMAIN heap -> LoadedOrder]
    BY SlicesAssumption DEF Init
  <2>2. balances \in [Keys -> Account]
    BY FundsAssumption DEF Init, Account
  <2>3. hasBook \in BOOLEAN
    BY DEF Init
  <2>4. nextID \in 0 .. MaxCreates
    BY FundsAssumption DEF Init
  <2>5. pc \in [Threads -> Places] /\ owner \in Threads \union {Nobody}
    BY DEF Init, Places
  <2>6. req \in [Threads -> Working]
    BY DEF Init, Working
  <2>7. book \subseteq DOMAIN heap /\ oplog \in Seq(Logged)
    BY DEF Init
  <2>8. QED BY <2>1, <2>2, <2>3, <2>4, <2>5, <2>6, <2>7 DEF TypeOK, Working
<1>2. LockInv
  BY NobodyIsNoThread DEF Init, LockInv, Holding, Critical
<1>3. FrozenMatchesLog
  <2> SUFFICES ASSUME NEW k \in Keys
               PROVE  /\ balances[k].frozen = 0
                      /\ LoggedFor(k) = {} /\ Pending(k) = {}
    BY SumEmpty DEF FrozenMatchesLog
  <2>1. balances[k].frozen = 0
    BY DEF Init
  <2>2. LoggedFor(k) = {}
    BY DEF Init, LoggedFor
  <2>3. Pending(k) = {}
    BY DEF Init, Pending, InCreate
  <2>4. QED BY <2>1, <2>2, <2>3
<1>4. QED BY <1>1, <1>2, <1>3 DEF IInv

\* Unlock leaves the lock to nobody; the readers it lets in meet no writer.
LEMMA UnlockKeepsLock ==
    ASSUME TypeOK, LockInv, NEW t \in Threads, UnlockAndAnswer(t), pc[t] \in Critical
    PROVE  LockInv'
<1>1. owner' = Nobody /\ owner = t /\ pc \in [Threads -> Places]
  BY DEF UnlockAndAnswer, LockInv, Holding, TypeOK
<1>2. \A r \in Threads : pc'[r] = IF r = t THEN "idle"
                                  ELSE IF pc[r] = "rlock" THEN "reading" ELSE pc[r]
  BY DEF UnlockAndAnswer
<1>3. \A r \in Threads : r # t => pc[r] \notin Holding
  BY <1>1 DEF LockInv
<1>4. \A r \in Threads : pc'[r] \notin Holding
  BY <1>2, <1>3 DEF Holding, Critical
<1>5. QED BY <1>1, <1>4, NobodyIsNoThread DEF LockInv, Holding

\* No step lets a second goroutine in, or a reader in beside a writer.
LEMMA NextKeepsLock == TypeOK /\ LockInv /\ [Next]_vars => LockInv'
<1> SUFFICES ASSUME TypeOK, LockInv, [Next]_vars PROVE LockInv'
  OBVIOUS
<1>a. pc \in [Threads -> Places] /\ Nobody \notin Threads /\ Cron \in Threads
  BY NobodyIsNoThread DEF TypeOK
<1>b. \A t \in Threads : owner = t <=> pc[t] \in Holding
  BY DEF LockInv
<1>1. ASSUME NEW t \in Threads, RLock(t) PROVE LockInv'
  <2>1. owner = Nobody /\ owner' = owner /\ pc[t] # "nested" /\ pc' = [pc EXCEPT ![t] = "reading"]
    BY <1>1, <1>a, <1>b DEF RLock, Goto, Holding, Critical
  <2>2. \A r \in Threads : pc[r] \notin Holding
    BY <2>1, <1>a, <1>b
  <2>3. \A r \in Threads : pc'[r] \notin Holding
    BY <2>1, <2>2, <1>a DEF Holding, Critical
  <2>4. QED BY <2>1, <2>3, <1>a DEF LockInv, Holding
<1>2. ASSUME NEW t \in Threads, Announce(t) PROVE LockInv'
  <2>1. owner = Nobody /\ owner' = t /\ pc' = [pc EXCEPT ![t] = "announced"]
    BY <1>2 DEF Announce, Goto
  <2>2. \A r \in Threads : pc[r] \notin Holding
    BY <2>1, <1>a, <1>b
  <2>3. \A r \in Threads : pc'[r] \in Holding <=> r = t
    BY <2>1, <2>2, <1>a DEF Holding
  <2>4. \A r \in Threads : pc'[r] \notin Critical
    BY <2>1, <2>2, <1>a DEF Holding, Critical
  <2>5. QED BY <2>1, <2>3, <2>4 DEF LockInv
<1>3. ASSUME NEW t \in Threads, EnterWrite(t) PROVE LockInv'
  BY <1>3, <1>a DEF EnterWrite, Goto, LockInv, Holding, Critical
<1>4. ASSUME NEW t \in Threads, Read(t) PROVE LockInv'
  BY <1>4, <1>a DEF Read, Goto, LockInv, Holding, Critical
<1>5. ASSUME NEW t \in Threads, Freezes(t) \/ Logs(t) \/ CancelRemoves(t) PROVE LockInv'
  BY <1>5, <1>a DEF Freezes, Logs, CancelRemoves, InCreate, InCancel, Goto, LockInv, Holding, Critical
<1>6. ASSUME NEW t \in Threads, NEW i \in DOMAIN heap, Trades(t, i) PROVE LockInv'
  BY <1>6, <1>a DEF Trades, InCreate, Goto, LockInv, Holding, Critical
<1>7. ASSUME NEW t \in Threads, Refuses(t) \/ NoTrade(t) \/ CancelsNothing(t) PROVE LockInv'
  BY <1>7, UnlockKeepsLock DEF Refuses, NoTrade, CancelsNothing, InCreate, InCancel, Critical
<1>8. ASSUME NEW t \in Clients, NEW r \in Requests, Receive(t, r) PROVE LockInv'
  BY <1>8, <1>a DEF Receive, Goto, LockInv, Holding, Critical, Threads
<1>9. CASE CronTick \/ CronReadsMarkets \/ CronReadsPrice
  BY <1>9, <1>a DEF CronTick, CronReadsMarkets, CronReadsPrice, CronStep, Goto, LockInv, Holding, Critical
<1>10. CASE CronChecksStops
  BY <1>10, <1>a, UnlockKeepsLock DEF CronChecksStops, Critical
<1>11. CASE UNCHANGED vars
  BY <1>11 DEF vars, LockInv
<1>12. ASSUME NEW t \in Threads, Step(t) PROVE LockInv'
  BY <1>12, <1>1, <1>3, <1>4, <1>5, <1>6, <1>7 DEF Step
<1>13. QED BY <1>2, <1>8, <1>9, <1>10, <1>11, <1>12 DEF Next, CronMoves

-----------------------------------------------------------------------------
\* Only a creation has the kind of one.
LEMMA CreateIsLogged ==
    ASSUME NEW r \in Working, r.kind = "create"
    PROVE  r \in Logged
  BY DEF Working, NoRequest, CancelRequest, ReadRequest, Logged, CronRequest

\* What an order costs, and the account that pays.
LEMMA CostIsNat ==
    ASSUME NEW r \in Logged
    PROVE  Cost(r) \in Nat /\ <<r.user, Asset(r)>> \in Keys
<1>1. r.price \in Nat /\ r.amount \in Nat /\ r.user \in Users
  BY DEF Logged
<1>2. \A p, a \in Nat : p * a \in Nat
  OBVIOUS
<1>3. QED BY <1>1, <1>2 DEF Cost, Asset, Keys

\* What Unlock leaves is well typed.
LEMMA UnlockKeepsTypes ==
    ASSUME TypeOK, NEW t \in Threads, UnlockAndAnswer(t)
    PROVE  /\ pc' \in [Threads -> Places] /\ owner' \in Threads \union {Nobody}
           /\ req' \in [Threads -> Working]
  BY DEF UnlockAndAnswer, TypeOK, Working, Places

\* Every step keeps the types; a price or an amount stays a natural number.
LEMMA NextKeepsTypes == TypeOK /\ [Next]_vars => TypeOK'
<1> SUFFICES ASSUME TypeOK, [Next]_vars PROVE TypeOK'
  OBVIOUS
<1>a. /\ pc \in [Threads -> Places] /\ req \in [Threads -> Working]
      /\ owner \in Threads \union {Nobody}
      /\ nextID \in 0 .. MaxCreates /\ MaxCreates \in Nat /\ hasBook \in BOOLEAN
      /\ heap \in [DOMAIN heap -> LoadedOrder] /\ book \subseteq DOMAIN heap
      /\ balances \in [Keys -> Account] /\ oplog \in Seq(Logged)
  BY FundsAssumption DEF TypeOK, Working
<1>b. Cron \in Threads
  BY NobodyIsNoThread
<1>1. ASSUME NEW t \in Threads, RLock(t) \/ EnterWrite(t) PROVE TypeOK'
  <2>1. pc' \in [Threads -> Places]
    BY <1>1, <1>a DEF RLock, EnterWrite, Goto, Places
  <2>2. UNCHANGED <<req, owner, engineState>>
    BY <1>1 DEF RLock, EnterWrite
  <2>3. QED BY <2>1, <2>2, <1>a DEF engineState, TypeOK, Working
<1>2. ASSUME NEW t \in Threads, Announce(t) PROVE TypeOK'
  <2>1. pc' \in [Threads -> Places] /\ owner' = t
    BY <1>2, <1>a DEF Announce, Goto, Places
  <2>2. UNCHANGED <<req, engineState>>
    BY <1>2 DEF Announce
  <2>3. QED BY <2>1, <2>2, <1>a DEF engineState, TypeOK, Working
<1>3. ASSUME NEW t \in Threads, Read(t) PROVE TypeOK'
  <2>1. pc' \in [Threads -> Places] /\ req' \in [Threads -> Working]
    BY <1>3, <1>a DEF Read, Goto, Places, Working
  <2>2. UNCHANGED <<owner, engineState>>
    BY <1>3 DEF Read
  <2>3. QED BY <2>1, <2>2, <1>a DEF engineState, TypeOK, Working
<1>4. ASSUME NEW t \in Threads, Freezes(t) PROVE TypeOK'
  <2> DEFINE k == <<req[t].user, Asset(req[t])>>
             cost == Cost(req[t])
  <2>1. k \in Keys /\ cost \in Nat
    BY <1>4, <1>a, CreateIsLogged, CostIsNat DEF Freezes, InCreate
  <2>2. balances' = Freeze(balances, k, cost)
    BY <1>4 DEF Freezes
  <2> HIDE DEF k, cost
  <2>3. balances' \in [Keys -> Account]
    BY <2>1, <2>2, <1>a DEF Freeze, SetBalance, Account, CanFreeze
  <2>4. pc' \in [Threads -> Places]
    BY <1>4, <1>a DEF Freezes, Goto, Places
  <2>5. hasBook' = TRUE /\ UNCHANGED <<req, owner, nextID, heap, book, oplog>>
    BY <1>4 DEF Freezes
  <2>6. QED BY <2>3, <2>4, <2>5, <1>a DEF TypeOK, Working
<1>5. ASSUME NEW t \in Threads, Refuses(t) PROVE TypeOK'
  <2>1. hasBook' = TRUE /\ UNCHANGED <<nextID, heap, book, balances, oplog>>
    BY <1>5 DEF Refuses
  <2>2. QED BY <2>1, <1>5, <1>a, UnlockKeepsTypes DEF Refuses, TypeOK, Working
<1>6. ASSUME NEW t \in Threads, Logs(t) PROVE TypeOK'
  <2>1. oplog' \in Seq(Logged)
    BY <1>6, <1>a, CreateIsLogged DEF Logs, InCreate
  <2>2. pc' \in [Threads -> Places]
    BY <1>6, <1>a DEF Logs, Goto, Places
  <2>3. UNCHANGED <<req, owner, nextID, hasBook, heap, book, balances>>
    BY <1>6 DEF Logs
  <2>4. QED BY <2>1, <2>2, <2>3, <1>a DEF TypeOK, Working
<1>7. ASSUME NEW t \in Threads, NoTrade(t) \/ CancelsNothing(t) PROVE TypeOK'
  <2>1. UNCHANGED engineState /\ UnlockAndAnswer(t)
    BY <1>7 DEF NoTrade, CancelsNothing
  <2>2. QED BY <2>1, <1>a, UnlockKeepsTypes DEF engineState, TypeOK, Working
<1>8. ASSUME NEW t \in Threads, NEW i \in DOMAIN heap, Trades(t, i) PROVE TypeOK'
  <2> DEFINE amount == IF heap[i].left < req[t].amount THEN heap[i].left ELSE req[t].amount
  <2>1. req[t] \in Logged /\ heap[i] \in LoadedOrder
    BY <1>8, <1>a, CreateIsLogged DEF Trades, InCreate
  <2>2. amount \in Int /\ req[t].amount - amount \in Nat /\ heap[i].left - amount \in Int
    BY <2>1 DEF Logged, LoadedOrder
  <2>3. /\ heap' = [heap EXCEPT ![i].left = @ - amount]
        /\ req' = [req EXCEPT ![t].amount = @ - amount]
        /\ UNCHANGED <<owner, nextID, hasBook, book, balances, oplog>>
    BY <1>8 DEF Trades
  <2> HIDE DEF amount
  <2>4. DOMAIN heap' = DOMAIN heap /\ heap' \in [DOMAIN heap -> LoadedOrder]
    BY <2>1, <2>2, <2>3, <1>a DEF LoadedOrder
  <2>5. req' \in [Threads -> Working]
    <3>1. [req[t] EXCEPT !.amount = @ - amount] \in Logged
      BY <2>1, <2>2 DEF Logged
    <3>2. QED BY <3>1, <2>3, <1>a DEF Working
  <2>6. pc' \in [Threads -> Places]
    BY <1>8, <1>a DEF Trades, Goto, Places
  <2>7. QED BY <2>3, <2>4, <2>5, <2>6, <1>a DEF TypeOK, Working
<1>9. ASSUME NEW t \in Threads, CancelRemoves(t) PROVE TypeOK'
  <2>1. pc' \in [Threads -> Places] /\ book' \subseteq book
    BY <1>9, <1>a DEF CancelRemoves, Goto, Places
  <2>2. UNCHANGED <<req, owner, nextID, hasBook, heap, balances, oplog>>
    BY <1>9 DEF CancelRemoves
  <2>3. QED BY <2>1, <2>2, <1>a DEF TypeOK, Working
<1>10. ASSUME NEW t \in Clients, NEW r \in Requests, Receive(t, r) PROVE TypeOK'
  <2>1. t \in Threads /\ pc' \in [Threads -> Places]
    BY <1>10, <1>a, NobodyIsNoThread DEF Receive, Goto, Places
  <2>2. UNCHANGED <<owner, hasBook, heap, book, balances, oplog>>
    BY <1>10 DEF Receive
  <2>3. r \in CreateRequest \union CancelRequest \union ReadRequest
    BY RequestsAssumption
  <2>4. nextID' \in 0 .. MaxCreates /\ req' \in [Threads -> Working]
    <3>1. CASE r.kind = "create"
      <4>1. r \in CreateRequest
        BY <2>3, <3>1 DEF CancelRequest, ReadRequest
      <4>2. nextID' \in 0 .. MaxCreates /\ nextID' \in Nat
        BY <1>10, <3>1, <1>a DEF Receive, NextID
      <4>3. [kind |-> "create", id |-> nextID', user |-> r.user,
             side |-> r.side, price |-> r.price, amount |-> r.amount] \in Logged
        BY <4>1, <4>2 DEF CreateRequest, Logged
      <4>4. QED BY <1>10, <3>1, <4>2, <4>3, <1>a DEF Receive, Working
    <3>2. CASE r.kind # "create"
      <4>1. r \in Working
        BY <2>3, <3>2 DEF CreateRequest, Working
      <4>2. QED BY <1>10, <3>2, <4>1, <1>a DEF Receive
    <3>3. QED BY <3>1, <3>2
  <2>5. QED BY <2>1, <2>2, <2>4, <1>a DEF TypeOK, Working
<1>11. CASE CronTick \/ CronReadsMarkets \/ CronReadsPrice
  <2>1. PICK next \in {"rlock", "lock", "idle"},
             kind \in {"markets", "lastprice", "stops", "none"} : CronStep(next, kind)
    BY <1>11 DEF CronTick, CronReadsMarkets, CronReadsPrice
  <2>2. [kind |-> kind] \in Working
    BY DEF Working, NoRequest, CronRequest
  <2>3. pc' \in [Threads -> Places] /\ req' \in [Threads -> Working]
    BY <2>1, <2>2, <1>a DEF CronStep, Goto, Places
  <2>4. UNCHANGED <<owner, engineState>>
    BY <2>1 DEF CronStep
  <2>5. QED BY <2>3, <2>4, <1>a DEF engineState, TypeOK, Working
<1>12. CASE CronChecksStops
  <2>1. UNCHANGED engineState /\ UnlockAndAnswer(Cron)
    BY <1>12 DEF CronChecksStops
  <2>2. QED BY <2>1, <1>a, <1>b, UnlockKeepsTypes DEF engineState, TypeOK, Working
<1>13. CASE UNCHANGED vars
  BY <1>13, <1>a DEF vars, TypeOK, Working
<1>14. ASSUME NEW t \in Threads, Step(t) PROVE TypeOK'
  BY <1>14, <1>1, <1>3, <1>4, <1>5, <1>6, <1>7, <1>8, <1>9 DEF Step
<1>15. QED BY <1>2, <1>10, <1>11, <1>12, <1>13, <1>14 DEF Next, CronMoves

-----------------------------------------------------------------------------
(* What is frozen *)

\* The two sums of FrozenMatchesLog.
LogCost(k) == SumFunctionOnSet([i \in DOMAIN oplog |-> Cost(oplog[i])], LoggedFor(k))
PendingCost(k) == SumFunctionOnSet([t \in Pending(k) |-> Cost(req[t])], Pending(k))

\* Only the owner of the lock can be between its hold and its log entry.
LEMMA PendingIsOwner ==
    ASSUME TypeOK, LockInv, NEW k
    PROVE  Pending(k) \subseteq {owner}
  BY DEF Pending, InCreate, LockInv, Holding, Critical

\* The logged orders of an account are finitely many and cost what is not negative.
LEMMA LogIsFinite ==
    ASSUME TypeOK, NEW k
    PROVE  /\ IsFiniteSet(LoggedFor(k)) /\ LoggedFor(k) \subseteq DOMAIN oplog
           /\ \A i \in DOMAIN oplog : oplog[i] \in Logged /\ Cost(oplog[i]) \in Nat
<1>1. oplog \in Seq(Logged)
  BY DEF TypeOK
<1>2. DOMAIN oplog = 1 .. Len(oplog) /\ Len(oplog) \in Nat
  BY <1>1
<1>3. IsFiniteSet(1 .. Len(oplog))
  BY <1>2, FS_Interval
<1>4. LoggedFor(k) \subseteq DOMAIN oplog
  BY DEF LoggedFor
<1>5. ASSUME NEW i \in DOMAIN oplog PROVE oplog[i] \in Logged /\ Cost(oplog[i]) \in Nat
  <2>1. oplog[i] \in Logged
    BY <1>1
  <2>2. QED BY <2>1, CostIsNat
<1>6. QED BY <1>2, <1>3, <1>4, <1>5, FS_Subset

\* A step that neither logs, nor freezes, nor touches an order between the two
\* changes neither sum.
Idles == /\ UNCHANGED oplog /\ \A k \in Keys : balances'[k].frozen = balances[k].frozen
         /\ \A t \in Threads : /\ pc'[t] = "frozen" <=> pc[t] = "frozen"
                               /\ pc[t] = "frozen" => req'[t] = req[t]

LEMMA IdlingKeepsSums ==
    ASSUME FrozenMatchesLog, Idles
    PROVE  FrozenMatchesLog'
<1> SUFFICES ASSUME NEW k \in Keys
             PROVE  balances'[k].frozen = LogCost(k)' + PendingCost(k)'
  BY DEF FrozenMatchesLog, LogCost, PendingCost
<1>1. balances[k].frozen = LogCost(k) + PendingCost(k)
  BY DEF FrozenMatchesLog, LogCost, PendingCost
<1>2. LogCost(k)' = LogCost(k)
  BY DEF Idles, LogCost, LoggedFor
<1>3. Pending(k)' = Pending(k)
  BY DEF Idles, Pending, InCreate
<1>4. \A t \in Pending(k) : Cost(req'[t]) = Cost(req[t])
  BY DEF Idles, Pending, InCreate
<1>5. [t \in Pending(k)' |-> Cost(req'[t])] = [t \in Pending(k) |-> Cost(req[t])]
  BY <1>3, <1>4
<1>6. PendingCost(k)' = PendingCost(k)
  BY <1>3, <1>5 DEF PendingCost
<1>7. QED BY <1>1, <1>2, <1>6 DEF Idles

\* The sum over at most one pending order.
LEMMA PendingSum ==
    ASSUME NEW S, NEW f, NEW t, f[t] \in Int
    PROVE  /\ S = {} => SumFunctionOnSet(f, S) = 0
           /\ S = {t} => SumFunctionOnSet(f, S) = f[t]
<1>1. IsFiniteSet({t}) /\ {t} \ {t} = {}
  BY FS_Singleton, Zenon
<1>2. SumFunctionOnSet(f, {t}) = f[t] + SumFunctionOnSet(f, {t} \ {t})
  BY <1>1, SumRemove
<1>3. SumFunctionOnSet(f, {t} \ {t}) = 0
  BY <1>1, SumEmpty, Zenon
<1>4. SumFunctionOnSet(f, {t}) = f[t]
  BY <1>2, <1>3
<1>5. QED BY <1>4, SumEmpty, Zenon

\* A hold adds the cost of the order to both sides: the order is now pending.
LEMMA FreezesKeepsSums ==
    ASSUME TypeOK, LockInv, FrozenMatchesLog, NEW t \in Threads, Freezes(t)
    PROVE  FrozenMatchesLog'
<1> SUFFICES ASSUME NEW k \in Keys
             PROVE  balances'[k].frozen = LogCost(k)' + PendingCost(k)'
  BY DEF FrozenMatchesLog, LogCost, PendingCost
<1> DEFINE key == <<req[t].user, Asset(req[t])>>
           cost == Cost(req[t])
<1>1. balances[k].frozen = LogCost(k) + PendingCost(k)
  BY DEF FrozenMatchesLog, LogCost, PendingCost
<1>2. LogCost(k)' = LogCost(k)
  BY DEF Freezes, LogCost, LoggedFor
<1>3. /\ pc[t] = "writing" /\ req[t].kind = "create" /\ req' = req
      /\ pc' = [pc EXCEPT ![t] = "frozen"] /\ CanFreeze(balances, key, cost)
      /\ balances' = Freeze(balances, key, cost)
      /\ pc \in [Threads -> Places] /\ balances \in [Keys -> Account]
  BY DEF Freezes, InCreate, Goto, TypeOK
<1>4. cost \in Nat /\ key \in Keys
  <2>1. req[t] \in Working
    BY DEF TypeOK, Working
  <2>2. QED BY <2>1, <1>3, CreateIsLogged, CostIsNat
<1>5. owner = t
  BY <1>3 DEF LockInv, Holding, Critical
<1>6. Pending(k) = {}
  BY <1>3, <1>5, PendingIsOwner DEF Pending, InCreate
<1>7. PendingCost(k) = 0
  BY <1>6, SumEmpty DEF PendingCost
<1>8. \A r \in Threads : r # t => pc[r] # "frozen"
  BY <1>5 DEF LockInv, Holding, Critical
<1>9. Pending(k)' = IF key = k THEN {t} ELSE {}
  BY <1>3, <1>8 DEF Pending, InCreate
<1>10. PendingCost(k)' = IF key = k THEN cost ELSE 0
  <2>1. CASE key = k
    <3>1. Pending(k)' = {t} /\ t \in Pending(k)'
      BY <1>9, <2>1
    <3> DEFINE f == [r \in Pending(k)' |-> Cost(req'[r])]
    <3>2. f[t] = cost
      BY <3>1, <1>3
    <3> HIDE DEF f, cost
    <3>3. SumFunctionOnSet(f, Pending(k)') = cost
      BY <3>1, <3>2, <1>4, PendingSum
    <3>4. QED BY <3>3, <2>1 DEF PendingCost, f
  <2>2. CASE key # k
    BY <1>9, <2>2, SumEmpty DEF PendingCost
  <2>3. QED BY <2>1, <2>2
<1>11. balances'[k].frozen = IF key = k THEN balances[k].frozen + cost ELSE balances[k].frozen
  <2> HIDE DEF key, cost
  <2>1. QED BY <1>3, <1>4 DEF Freeze, SetBalance, Account
<1>12. balances[k].frozen \in Int /\ LogCost(k) \in Int
  <2>1. balances[k].frozen \in Int
    BY <1>3 DEF Account
  <2>2. IsFiniteSet(LoggedFor(k)) /\
        \A i \in LoggedFor(k) : [j \in DOMAIN oplog |-> Cost(oplog[j])][i] \in Int
    BY LogIsFinite
  <2>3. QED BY <2>1, <2>2, SumIsInt DEF LogCost
<1> HIDE DEF key, cost
<1>13. QED BY <1>1, <1>2, <1>4, <1>7, <1>10, <1>11, <1>12

\* The log entry takes the cost from the pending order to the log.
LEMMA LogsKeepsSums ==
    ASSUME TypeOK, LockInv, FrozenMatchesLog, NEW t \in Threads, Logs(t)
    PROVE  FrozenMatchesLog'
<1> SUFFICES ASSUME NEW k \in Keys
             PROVE  balances'[k].frozen = LogCost(k)' + PendingCost(k)'
  BY DEF FrozenMatchesLog, LogCost, PendingCost
<1> DEFINE key == <<req[t].user, Asset(req[t])>>
           cost == Cost(req[t])
           n == Len(oplog) + 1
<1>1. balances[k].frozen = LogCost(k) + PendingCost(k)
  BY DEF FrozenMatchesLog, LogCost, PendingCost
<1>2. /\ pc[t] = "frozen" /\ req[t].kind = "create" /\ req' = req /\ balances' = balances
      /\ pc' = [pc EXCEPT ![t] = "matching"] /\ oplog' = Append(oplog, req[t])
      /\ pc \in [Threads -> Places] /\ oplog \in Seq(Logged)
  BY DEF Logs, InCreate, Goto, TypeOK
<1>3. req[t] \in Logged /\ cost \in Nat /\ key \in Keys
  <2>1. req[t] \in Working
    BY DEF TypeOK, Working
  <2>2. QED BY <2>1, <1>2, CreateIsLogged, CostIsNat
<1>4. owner = t
  BY <1>2 DEF LockInv, Holding, Critical
<1>5. \A r \in Threads : r # t => pc[r] # "frozen"
  BY <1>4 DEF LockInv, Holding, Critical
<1>6. Pending(k) = (IF key = k THEN {t} ELSE {}) /\ Pending(k)' = {}
  BY <1>2, <1>5 DEF Pending, InCreate
<1>7. PendingCost(k)' = 0
  BY <1>6, SumEmpty DEF PendingCost
<1>8. PendingCost(k) = IF key = k THEN cost ELSE 0
  <2>1. CASE key = k
    <3>1. Pending(k) = {t} /\ t \in Pending(k)
      BY <1>6, <2>1
    <3> DEFINE f == [r \in Pending(k) |-> Cost(req[r])]
    <3>2. f[t] = cost
      BY <3>1
    <3> HIDE DEF f, cost
    <3>3. SumFunctionOnSet(f, Pending(k)) = cost
      BY <3>1, <3>2, <1>3, PendingSum
    <3>4. QED BY <3>3, <2>1 DEF PendingCost, f
  <2>2. CASE key # k
    BY <1>6, <2>2, SumEmpty DEF PendingCost
  <2>3. QED BY <2>1, <2>2
<1> DEFINE f == [i \in DOMAIN oplog |-> Cost(oplog[i])]
           g == [i \in DOMAIN oplog' |-> Cost(oplog'[i])]
<1>9. /\ DOMAIN oplog = 1 .. Len(oplog) /\ DOMAIN oplog' = 1 .. n /\ Len(oplog) \in Nat
      /\ \A i \in DOMAIN oplog : oplog'[i] = oplog[i] /\ n \notin DOMAIN oplog
      /\ oplog'[n] = req[t] /\ n \in DOMAIN oplog'
      /\ \A i \in DOMAIN oplog' : i = n \/ i \in DOMAIN oplog
      /\ DOMAIN oplog \subseteq DOMAIN oplog'
  BY <1>2, <1>3
<1>10. /\ IsFiniteSet(LoggedFor(k)) /\ LoggedFor(k) \subseteq DOMAIN oplog
       /\ \A i \in LoggedFor(k) : f[i] \in Int /\ g[i] \in Int /\ f[i] = g[i]
       /\ g[n] = cost
  <2>1. /\ IsFiniteSet(LoggedFor(k)) /\ LoggedFor(k) \subseteq DOMAIN oplog
        /\ \A i \in DOMAIN oplog : Cost(oplog[i]) \in Nat
    BY LogIsFinite
  <2>2. QED BY <2>1, <1>9
<1>11. SumFunctionOnSet(g, LoggedFor(k)) = LogCost(k) /\ LogCost(k) \in Int
  <2> HIDE DEF g
  <2>1. SumFunctionOnSet(g, LoggedFor(k)) = SumFunctionOnSet(f, LoggedFor(k))
    <3> HIDE DEF f
    <3>1. QED BY <1>10, SumCongruent
  <2>2. SumFunctionOnSet(f, LoggedFor(k)) \in Int
    <3> HIDE DEF f
    <3>1. QED BY <1>10, SumIsInt
  <2>3. QED BY <2>1, <2>2 DEF LogCost
<1>12. LogCost(k)' = LogCost(k) + (IF key = k THEN cost ELSE 0)
  <2>1. LogCost(k)' = SumFunctionOnSet(g, LoggedFor(k)')
    BY DEF LogCost
  <2>2. CASE key = k
    <3>1. LoggedFor(k)' = LoggedFor(k) \union {n} /\ n \notin LoggedFor(k)
      BY <2>2, <1>9, <1>10 DEF LoggedFor
    <3>2. SumFunctionOnSet(g, LoggedFor(k) \union {n}) = g[n] + SumFunctionOnSet(g, LoggedFor(k))
      <4> HIDE DEF g, n
      <4> HIDE DEF cost
      <4>1. \A i \in LoggedFor(k) \union {n} : g[i] \in Int
        <5>1. g[n] \in Int
          BY <1>3, <1>10
        <5>2. \A i \in LoggedFor(k) : g[i] \in Int
          BY <1>10
        <5>3. QED BY <5>1, <5>2
      <4>2. QED BY <3>1, <4>1, <1>10, SumAdd
    <3> HIDE DEF g, n
    <3>3. SumFunctionOnSet(g, LoggedFor(k)') = SumFunctionOnSet(g, LoggedFor(k) \union {n})
      BY <3>1, Zenon
    <3>4. LogCost(k)' = cost + LogCost(k)
      BY <2>1, <3>2, <3>3, <1>10, <1>11
    <3> HIDE DEF cost
    <3>5. QED BY <3>4, <2>2, <1>3, <1>11
  <2>3. CASE key # k
    <3>1. LoggedFor(k)' = LoggedFor(k)
      BY <2>3, <1>9, <1>10 DEF LoggedFor
    <3> HIDE DEF g, cost
    <3>2. LogCost(k)' = LogCost(k)
      BY <2>1, <3>1, <1>11, Zenon
    <3>3. QED BY <3>2, <2>3, <1>11
  <2>4. QED BY <2>2, <2>3
<1>13. balances'[k].frozen = balances[k].frozen
  BY <1>2
<1> HIDE DEF key, cost
<1>14. QED BY <1>1, <1>3, <1>7, <1>8, <1>11, <1>12, <1>13

\* Every other step leaves what is frozen, the log and the pending orders alone.
LEMMA NextKeepsSums ==
    TypeOK /\ LockInv /\ FrozenMatchesLog /\ [Next]_vars => FrozenMatchesLog'
<1> SUFFICES ASSUME TypeOK, LockInv, FrozenMatchesLog, [Next]_vars PROVE FrozenMatchesLog'
  OBVIOUS
<1>a. pc \in [Threads -> Places] /\ req \in [Threads -> Working] /\ Cron \in Threads
  BY NobodyIsNoThread DEF TypeOK, Working
<1> SUFFICES ASSUME ~ \E t \in Threads : Freezes(t) \/ Logs(t)
             PROVE  Idles
  BY FreezesKeepsSums, LogsKeepsSums, IdlingKeepsSums
<1>1. ASSUME NEW t \in Threads, UnlockAndAnswer(t), pc[t] # "frozen",
             UNCHANGED <<oplog, balances>>
      PROVE  Idles
  BY <1>1, <1>a DEF UnlockAndAnswer, Idles
<1>2. ASSUME NEW t \in Threads, Step(t) PROVE Idles
  <2>1. CASE RLock(t) \/ EnterWrite(t) \/ Read(t)
    BY <2>1, <1>a DEF RLock, EnterWrite, Read, Goto, engineState, Idles
  <2>2. CASE Refuses(t) \/ NoTrade(t) \/ CancelsNothing(t)
    BY <2>2, <1>1 DEF Refuses, NoTrade, CancelsNothing, InCreate, InCancel, engineState
  <2>3. ASSUME NEW i \in DOMAIN heap, Trades(t, i) PROVE Idles
    BY <2>3, <1>a DEF Trades, InCreate, Goto, Idles
  <2>4. CASE CancelRemoves(t)
    BY <2>4, <1>a DEF CancelRemoves, InCancel, Goto, Idles
  <2>5. QED BY <1>2, <2>1, <2>2, <2>3, <2>4 DEF Step
<1>3. ASSUME NEW t \in Threads, Announce(t) PROVE Idles
  BY <1>3, <1>a DEF Announce, Goto, engineState, Idles
<1>4. ASSUME NEW t \in Clients, NEW r \in Requests, Receive(t, r) PROVE Idles
  BY <1>4, <1>a, NobodyIsNoThread DEF Receive, Goto, Idles
<1>5. CASE CronTick \/ CronReadsMarkets \/ CronReadsPrice
  BY <1>5, <1>a DEF CronTick, CronReadsMarkets, CronReadsPrice, CronStep, Goto, engineState, Idles
<1>6. CASE CronChecksStops
  BY <1>6, <1>1, <1>a DEF CronChecksStops, engineState
<1>7. CASE UNCHANGED vars
  BY <1>7 DEF vars, Idles
<1>8. QED BY <1>2, <1>3, <1>4, <1>5, <1>6, <1>7 DEF Next, CronMoves

\* Whatever order the requests interleave in, what is frozen in an account is the
\* cost of its orders in the operation log and of the one about to be logged: for
\* any number of clients, users and orders.
THEOREM FrozenFundsAreLogged == Spec => [](TypeOK /\ FrozenMatchesLog)
<1>1. IInv /\ [Next]_vars => IInv'
  BY NextKeepsTypes, NextKeepsLock, NextKeepsSums DEF IInv
<1>2. IInv => TypeOK /\ FrozenMatchesLog
  BY DEF IInv
<1>3. QED BY <1>1, <1>2, InitHolds, PTL DEF Spec

\* The lock, the goroutines that hold it or wait for it, and what it guards stay well typed.
THEOREM EngineStaysTyped == Spec => []TypeOK
  BY FrozenFundsAreLogged, PTL

-----------------------------------------------------------------------------
(* The engine that hangs *)

\* A goroutine that waits under its own lock owns it: whoever would read waits for
\* the lock, and so does whoever would write.
LEMMA StuckStays == TypeOK /\ LockInv /\ [Next]_vars => [StaysSilent]_vars
<1> SUFFICES ASSUME TypeOK, LockInv, Next, Stuck
             PROVE  /\ Stuck' /\ UNCHANGED <<hasBook, heap, book, balances, oplog>>
                    /\ ~\E t \in Threads : Read(t)
  BY DEF StaysSilent
<1>1. PICK s \in Threads : pc[s] = "nested"
  BY DEF Stuck
<1>2. owner = s /\ owner # Nobody /\ pc \in [Threads -> Places]
  BY <1>1, NobodyIsNoThread DEF LockInv, Holding, Critical, TypeOK
<1>3. \A t \in Threads : pc[t] # "reading" /\ (t # s => pc[t] \notin Holding)
  BY <1>1, <1>2 DEF LockInv, Critical
<1>4. ~\E t \in Threads : Read(t)
  BY <1>3 DEF Read
<1>5. SUFFICES /\ pc'[s] = "nested" /\ UNCHANGED <<hasBook, heap, book, balances, oplog>>
  BY <1>4 DEF Stuck
<1>6. ASSUME NEW t \in Threads, Step(t) \/ Announce(t) PROVE FALSE
  <2>1. ~Announce(t) /\ ~RLock(t)
    BY <1>2 DEF Announce, RLock
  <2>2. pc[t] \notin {"reading", "announced", "writing", "frozen", "matching"}
    BY <1>1, <1>3 DEF Holding, Critical
  <2>3. QED BY <1>6, <2>1, <2>2
            DEF Step, EnterWrite, Read, Freezes, Refuses, Logs, NoTrade, Trades,
                CancelsNothing, CancelRemoves, InCreate, InCancel
<1>7. ASSUME NEW t \in Clients, NEW r \in Requests, Receive(t, r)
      PROVE  /\ pc'[s] = "nested" /\ UNCHANGED <<hasBook, heap, book, balances, oplog>>
  BY <1>7, <1>1, <1>2 DEF Receive, Goto
<1>8. CASE CronTick
  BY <1>8, <1>1, <1>2 DEF CronTick, CronStep, Goto, engineState
<1>9. ~CronMoves
  BY <1>1, <1>3, NobodyIsNoThread
  DEF CronMoves, CronReadsMarkets, CronReadsPrice, CronChecksStops, Holding, Critical
<1>10. QED BY <1>6, <1>7, <1>8, <1>9 DEF Next

\* Once a goroutine waits under its own write lock, nothing of the engine's state
\* ever changes again and no getter returns: with any number of clients.
THEOREM StuckEngineIsSilent == Spec => StuckIsSilent
<1>1. TypeOK /\ LockInv /\ [Next]_vars => (TypeOK /\ LockInv)'
  BY NextKeepsTypes, NextKeepsLock
<1>2. Init => TypeOK /\ LockInv
  BY InitHolds DEF IInv
<1>3. QED BY <1>1, <1>2, StuckStays, PTL DEF Spec, StuckIsSilent
=============================================================================
