--------------------------- MODULE RpcServer_proofs ---------------------------
(***************************************************************************)
(* Proofs about the RPC server, for any number of clients, users and       *)
(* requests and whatever book the last slice held; first about the balance *)
(* table its handlers work on, for every set of keys and amounts and every *)
(* bound on funds; and last about the heaps of one market's book, for any  *)
(* orders and prices.                                                      *)
(***************************************************************************)
EXTENDS RpcServer, OrderBook, SumTheorems, SequenceTheorems, TLAPS

(* The balance table *)

\* The inductive invariant: the table is well typed and no account is overdrawn.
IInv == TypeOK /\ NeverOverdrawn

\* A table the component can hold, and what a call can make of it.
WellFormed(bal) == /\ bal \in [Keys -> Account]
                   /\ \A k \in Keys : AccountOK(bal[k])
Outcomes(bal, k, amount) ==
    {Freeze(bal, k, amount), Unfreeze(bal, k, amount), Sub(bal, k, amount),
     Add(bal, k, amount), Change(bal, k, amount), Change(bal, k, -amount)}
Call(k, amount) ==
    \/ FreezeCall(k, amount) \/ UnfreezeCall(k, amount) \/ SubCall(k, amount)
    \/ AddCall(k, amount) \/ ChangeCall(k, amount) \/ ChangeCall(k, -amount)

\* The operators of Balances change one account and keep it well formed,
\* whatever amount that is not negative is passed and whether or not they fail.
LEMMA OperatorsKeepAccounts ==
    ASSUME NEW bal, WellFormed(bal), NEW k \in Keys, NEW amount \in Nat,
           NEW op \in Outcomes(bal, k, amount)
    PROVE  WellFormed(op) /\ \A j \in Keys \ {k} : op[j] = bal[j]
<1> USE DEF Account, AccountOK, SetBalance, WellFormed
<1>1. CASE op = Freeze(bal, k, amount)
  BY <1>1 DEF Freeze, CanFreeze
<1>2. CASE op = Unfreeze(bal, k, amount)
  BY <1>2 DEF Unfreeze, CanUnfreeze
<1>3. CASE op = Sub(bal, k, amount)
  BY <1>3 DEF Sub, CanSub
<1>4. CASE op = Add(bal, k, amount)
  BY <1>4 DEF Add, NoAccount
<1>5. CASE op = Change(bal, k, amount)
  <2>1. op = SetBalance(bal, k, bal[k].available + amount, bal[k].frozen)
    BY <1>5 DEF Change, CanChange
  <2>2. QED BY <2>1, <1>4 DEF Add, NoAccount
<1>6. CASE op = Change(bal, k, -amount)
  <2>1. bal[k].available \in Int /\ bal[k].known \in BOOLEAN
    OBVIOUS
  <2>2. CASE CanChange(bal, k, -amount)
    <3>1. op = SetBalance(bal, k, bal[k].available + (-amount), bal[k].frozen)
      BY <2>2, <1>6 DEF Change
    <3>2. amount > 0 => bal[k].known /\ bal[k].available >= amount
      BY <2>1, <2>2 DEF CanChange
    <3>3. bal[k].available + (-amount) \in Int /\ bal[k].available + (-amount) >= 0
      BY <2>1, <3>2
    <3>4. QED BY <3>1, <3>3
  <2>3. CASE ~CanChange(bal, k, -amount)
    <3>1. op = bal
      BY <2>3, <1>6 DEF Change
    <3>2. QED BY <3>1
  <2>4. QED BY <2>2, <2>3
<1>7. QED BY <1>1, <1>2, <1>3, <1>4, <1>5, <1>6 DEF Outcomes

\* A call of the manager is one of the operators, applied to one key.
LEMMA CallIsOperator ==
    ASSUME NEW k \in Keys, NEW amount \in Nat, Call(k, amount)
    PROVE  /\ balances' \in Outcomes(balances, k, amount)
           /\ err' \in Errors /\ call' \in Methods
  BY DEF Call, FreezeCall, UnfreezeCall, SubCall, AddCall, ChangeCall, Errors, Outcomes,
         Methods

\* The invariant holds of the table that the last snapshot left.
LEMMA InitHolds == Init => IInv
<1> SUFFICES ASSUME Init PROVE IInv
  OBVIOUS
<1>1. MaxFunds \in Nat
  BY MaxFundsAssumption
<1>2. NoAccount \in Account /\ AccountOK(NoAccount)
  BY DEF NoAccount, Account, AccountOK
<1>3. \A a, f \in 0 .. MaxFunds : Loaded(a, f) \in Account /\ AccountOK(Loaded(a, f))
  BY <1>1 DEF Loaded, Account, AccountOK
<1>4. \A k \in Keys : balances[k] \in Account /\ AccountOK(balances[k])
  BY <1>2, <1>3 DEF Init
<1>5. QED BY <1>4 DEF Init, IInv, TypeOK, NeverOverdrawn, Errors, Methods

\* A call with any amount, a failed one included, keeps the invariant.
LEMMA CallKeeps ==
    ASSUME IInv, NEW k \in Keys, NEW amount \in Nat, Call(k, amount)
    PROVE  IInv'
<1>1. WellFormed(balances)
  BY DEF IInv, TypeOK, NeverOverdrawn, WellFormed
<1>2. WellFormed(balances')
  BY <1>1, CallIsOperator, OperatorsKeepAccounts
<1>3. QED BY <1>2, CallIsOperator DEF IInv, TypeOK, NeverOverdrawn, WellFormed

\* Every step keeps the invariant.
LEMMA NextKeeps == IInv /\ [Next]_vars => IInv'
<1> SUFFICES ASSUME IInv, [Next]_vars PROVE IInv'
  OBVIOUS
<1>1. CASE Next
  <2>1. PICK k \in Keys, amount \in Amounts : Call(k, amount)
    BY <1>1 DEF Next, Call
  <2>2. amount \in Nat
    BY AmountsAssumption
  <2>3. QED BY <2>1, <2>2, CallKeeps
<1>2. CASE UNCHANGED vars
  BY <1>2 DEF IInv, TypeOK, NeverOverdrawn, vars
<1>3. QED BY <1>1, <1>2

\* The table is well typed and no account is ever overdrawn.
THEOREM NoOverdraft == Spec => [](TypeOK /\ NeverOverdrawn)
  BY InitHolds, NextKeeps, PTL DEF Spec, IInv

-----------------------------------------------------------------------------
\* Every call is a step of the ledger at the key it names.
LEMMA CallRefines ==
    ASSUME IInv, NEW k \in Keys, NEW amount \in Nat, Call(k, amount)
    PROVE  [Ledger!LedgerNext]_<<total, held, move>>
<1>1. amount \in Nat /\ balances[k] \in Account /\ AccountOK(balances[k])
  BY DEF IInv, TypeOK, NeverOverdrawn
<1>2. /\ balances' \in [Keys -> Account]
      /\ \A j \in Keys : AccountOK(balances'[j])
      /\ \A j \in Keys \ {k} : balances'[j] = balances[j]
  <2>1. WellFormed(balances)
    BY DEF IInv, TypeOK, NeverOverdrawn, WellFormed
  <2>2. WellFormed(balances') /\ \A j \in Keys \ {k} : balances'[j] = balances[j]
    BY <1>1, <2>1, CallIsOperator, OperatorsKeepAccounts
  <2>3. QED BY <2>2 DEF WellFormed
<1>3. Ledger!OnlyAt(k)
  BY <1>2 DEF Ledger!OnlyAt, total, held, Total
<1>4. Ledger!Deposit(k) \/ Ledger!Withdraw(k) \/ Ledger!Hold(k) \/ Ledger!Release(k)
  <2> USE <1>1, <1>2 DEF Account, AccountOK, SetBalance, total, held, Total
  <2>1. CASE FreezeCall(k, amount)
    <3>1. balances'[k].frozen >= balances[k].frozen /\ balances'[k].frozen <= Total(k)
          /\ total'[k] = total[k]
      BY <2>1 DEF FreezeCall, Freeze, CanFreeze, IInv, TypeOK
    <3>2. total' = total
      BY <3>1
    <3>3. move' = "hold"
      BY <2>1 DEF FreezeCall, move
    <3>4. QED BY <3>1, <3>2, <3>3 DEF Ledger!Hold
  <2>2. CASE UnfreezeCall(k, amount)
    <3>1. balances'[k].frozen <= balances[k].frozen /\ total'[k] = total[k]
      BY <2>2 DEF UnfreezeCall, Unfreeze, CanUnfreeze, IInv, TypeOK
    <3>2. total' = total
      BY <3>1
    <3>3. move' = "release"
      BY <2>2 DEF UnfreezeCall, move
    <3>4. QED BY <3>1, <3>2, <3>3 DEF Ledger!Release
  <2>3. CASE SubCall(k, amount)
    <3>1. balances'[k].frozen = balances[k].frozen /\ total'[k] <= total[k]
      BY <2>3 DEF SubCall, Sub, CanSub, IInv, TypeOK
    <3>2. held' = held /\ held[k] <= total'[k]
      BY <3>1
    <3>3. move' = "withdraw"
      BY <2>3 DEF SubCall, move
    <3>4. QED BY <3>1, <3>2, <3>3 DEF Ledger!Withdraw
  <2>4. CASE AddCall(k, amount)
    <3>1. balances'[k].frozen = balances[k].frozen /\ total'[k] >= total[k]
      BY <2>4 DEF AddCall, Add, IInv, TypeOK
    <3>2. held' = held
      BY <3>1
    <3>3. move' = "deposit"
      BY <2>4 DEF AddCall, move
    <3>4. QED BY <3>1, <3>2, <3>3 DEF Ledger!Deposit
  <2>5. CASE ChangeCall(k, amount)
    <3>1. balances'[k].frozen = balances[k].frozen /\ total'[k] >= total[k]
      BY <2>5 DEF ChangeCall, Change, CanChange, IInv, TypeOK
    <3>2. held' = held
      BY <3>1
    <3>3. move' = "change"
      BY <2>5 DEF ChangeCall, move
    <3>4. QED BY <3>1, <3>2, <3>3 DEF Ledger!Deposit
  <2>6. CASE ChangeCall(k, -amount)
    <3>1. balances'[k].frozen = balances[k].frozen /\ total'[k] <= total[k]
      BY <2>6 DEF ChangeCall, Change, CanChange, IInv, TypeOK
    <3>2. held' = held /\ held[k] <= total'[k]
      BY <3>1
    <3>3. move' = "change"
      BY <2>6 DEF ChangeCall, move
    <3>4. QED BY <3>1, <3>2, <3>3 DEF Ledger!Withdraw
  <2>7. QED BY <2>1, <2>2, <2>3, <2>4, <2>5, <2>6 DEF Call
<1>5. QED BY <1>3, <1>4 DEF Ledger!LedgerNext

\* The table that the last snapshot left is a ledger.
LEMMA InitRefines == Init => Ledger!LedgerInit
<1> SUFFICES ASSUME Init PROVE Ledger!LedgerInit
  OBVIOUS
<1>1. \A k \in Keys : balances[k] \in Account /\ AccountOK(balances[k])
  BY InitHolds DEF IInv, TypeOK, NeverOverdrawn
<1>2. \A k \in Keys : total[k] \in Nat /\ held[k] \in Nat /\ held[k] <= total[k]
  BY <1>1 DEF Account, AccountOK, total, held, Total
<1>3. QED BY <1>2 DEF Ledger!LedgerInit, total, held

\* The balance manager implements the ledger: freezing and unfreezing never
\* change what an account owns, and nothing takes what is on hold.
THEOREM ImplementsLedger == Spec => LedgerSpec
<1>1. IInv /\ [Next]_vars => [Ledger!LedgerNext]_<<total, held, move>>
  <2> SUFFICES ASSUME IInv, [Next]_vars PROVE [Ledger!LedgerNext]_<<total, held, move>>
    OBVIOUS
  <2>1. CASE Next
    BY <2>1, AmountsAssumption, CallRefines DEF Next, Call
  <2>2. CASE UNCHANGED vars
    BY <2>2 DEF vars, total, held, move, Total
  <2>3. QED BY <2>1, <2>2
<1>2. QED BY <1>1, InitRefines, InitHolds, NextKeeps, PTL
      DEF Spec, LedgerSpec, Ledger!LedgerSpec, Ledger!ledgerVars

-----------------------------------------------------------------------------
(* The handlers *)

\* Where a goroutine can be, by the kind of its request.
Fits(kind, place) ==
    /\ place \in {"price", "hold", "process", "undo", "settle"} => kind \in {"limit", "market"}
    /\ place = "hung" => kind \in {"limit", "market", "cancel"}
    /\ place = "stop" => kind = "stop"
    /\ place \in {"find", "cancel", "again"} => kind = "cancel"
    /\ place \in {"check", "mark", "change"} => kind = "update"
PlaceInv == \A t \in Clients : Fits(req[t].kind, pc[t])
\* An update that came too late is at its check, or refused.
LateInv == guarded => \A t \in late : pc[t] = "check" /\ req[t].id \in marks

Asked == {NoRequest} \union RequestSet
GoroutinesOK == /\ pc \in [Clients -> Places] /\ req \in [Clients -> Asked]
                /\ late \subseteq Clients
                /\ \A t \in Clients : pc[t] = "idle" <=> req[t] = NoRequest
                /\ PlaceInv
EngineOK == /\ serving \in BOOLEAN /\ guarded \in BOOLEAN /\ faulty \in BOOLEAN
            /\ received \in 0 .. MaxRequests
            /\ IsBook(ob) /\ mu \in {"free", "stuck"}
            /\ nextID \in Nat /\ added \in Nat /\ run \in Nat
            /\ stops \in Seq(Put)
            /\ accepted \in [Users \X Sides -> Nat]

\* The inductive invariant.
RpcInv == IInv /\ GoroutinesOK /\ EngineOK /\ LateInv /\ OrdersAccounted

-----------------------------------------------------------------------------
\* The kind of a request says what fields it has.
LEMMA KindTells ==
    ASSUME NEW r \in Asked
    PROVE  /\ r.kind \in {"limit", "market", "stop"} => r \in Put
           /\ r.kind = "cancel" => r \in Cancel
           /\ r.kind = "update" => r \in Update
           /\ r.kind \in {"limit", "market", "stop", "cancel", "update", "none"}
           /\ r.kind = "none" <=> r = NoRequest
  BY DEF Asked, RequestSet, Put, Cancel, Update, NoRequest

\* What an order costs, and the two accounts its cost is held in.
LEMMA PutIsPayable ==
    ASSUME NEW r \in Put
    PROVE  /\ Cost(r) \in Nat /\ MarketKey(r) \in Keys /\ PaysWith(r) \in Keys
           /\ r.user \in Users /\ r.side \in Sides /\ <<r.user, r.side>> \in Users \X Sides
<1>1. r.price \in Nat /\ r.amount \in Nat /\ r.user \in Users /\ r.side \in Sides
  BY DEF Put
<1>2. \A p, a \in Nat : p * a \in Nat
  OBVIOUS
<1>3. QED BY <1>1, <1>2, KeysAssumption DEF Cost, MarketKey, PaysWith

\* Going on keeps the goroutines in order, if the place is one for the request.
LEMMA GotoKeeps ==
    ASSUME GoroutinesOK, NEW t \in Clients, NEW place \in Places, Goto(t, place),
           pc[t] # "idle", place # "idle", Fits(req[t].kind, place)
    PROVE  GoroutinesOK'
  BY DEF Goto, GoroutinesOK, PlaceInv

\* So does an answer.
LEMMA AnswerKeeps ==
    ASSUME GoroutinesOK, NEW t \in Clients, Answer(t)
    PROVE  GoroutinesOK'
<1>1. pc' \in [Clients -> Places] /\ req' \in [Clients -> Asked]
  BY DEF Answer, GoroutinesOK, Places, Asked
<1>2. \A r \in Clients : /\ r # t => pc'[r] = pc[r] /\ req'[r] = req[r]
                         /\ pc'[t] = "idle" /\ req'[t] = NoRequest
  BY DEF Answer, GoroutinesOK
<1>3. Fits(NoRequest.kind, "idle")
  BY DEF Fits
<1>4. PlaceInv'
  BY <1>2, <1>3 DEF GoroutinesOK, PlaceInv
<1>5. QED BY <1>1, <1>2, <1>4 DEF Answer, GoroutinesOK

\* Every step of the server moves at most one goroutine, and to where it belongs.
LEMMA NextKeepsGoroutines == GoroutinesOK /\ EngineOK /\ [RpcNext]_rpcVars => GoroutinesOK'
<1> SUFFICES ASSUME GoroutinesOK, EngineOK, [RpcNext]_rpcVars PROVE GoroutinesOK'
  OBVIOUS
<1>a. /\ pc \in [Clients -> Places] /\ req \in [Clients -> Asked]
      /\ \A t \in Clients : Fits(req[t].kind, pc[t])
  BY DEF GoroutinesOK, PlaceInv
<1>1. ASSUME NEW t \in Clients, NEW r \in Requests, Receive(t, r) PROVE GoroutinesOK'
  <2>1. r \in RequestSet /\ r \in Asked
    BY RequestsAssumption DEF Asked
  <2>2. r.kind \in {"limit", "market", "stop", "cancel", "update"} /\ r # NoRequest
    BY <2>1 DEF RequestSet, Put, Cancel, Update, NoRequest
  <2>3. First[r.kind] \in Places \ {"idle"} /\ Fits(r.kind, First[r.kind])
    BY <2>2 DEF First, Fits, Places
  <2>4. pc' = [pc EXCEPT ![t] = First[r.kind]] /\ req' = [req EXCEPT ![t] = r]
        /\ late' \subseteq late \union {t}
    BY <1>1 DEF Receive
  <2> DEFINE place == First[r.kind]
  <2> HIDE DEF place
  <2>5. QED BY <1>a, <2>1, <2>2, <2>3, <2>4 DEF GoroutinesOK, PlaceInv, place
<1>2. ASSUME NEW t \in Clients, FindsPrice(t) PROVE GoroutinesOK'
  <2>1. CASE Answer(t)
    BY <2>1, AnswerKeeps
  <2>2. CASE ~Answer(t)
    <3> DEFINE side == Other(req[t].side)
               best == BestPrice(ob, side)
    <3>1. /\ pc[t] = "price" /\ pc' = [pc EXCEPT ![t] = "hold"]
          /\ req' = [req EXCEPT ![t].price = best] /\ late' = late /\ Heap(ob, side) # <<>>
      BY <1>2, <2>2 DEF FindsPrice, At
    <3>2. req[t] \in Put /\ req[t].kind \in {"limit", "market"}
      BY <1>a, <3>1, KindTells DEF Fits
    <3>3. best \in Nat
      <4>1. Heap(ob, side) \in Seq(BookOrder(Users))
        BY DEF EngineOK, IsBook, Heap
      <4>2. Heap(ob, side)[1] \in BookOrder(Users)
        BY <3>1, <4>1
      <4>3. QED BY <3>1, <4>1, <4>2 DEF BestPrice, BookOrder
    <3> HIDE DEF best
    <3>4. /\ req'[t] \in Put /\ req'[t].kind = req[t].kind
          /\ \A r \in Clients \ {t} : req'[r] = req[r] /\ pc'[r] = pc[r]
          /\ pc'[t] = "hold" /\ pc' \in [Clients -> Places]
      BY <1>a, <3>1, <3>2, <3>3 DEF Put, Places
    <3>5. req' \in [Clients -> Asked] /\ req'[t] # NoRequest
      BY <1>a, <3>1, <3>4 DEF Asked, RequestSet, Put, NoRequest
    <3>6. PlaceInv'
      BY <1>a, <3>2, <3>4 DEF PlaceInv, Fits
    <3>7. QED BY <3>1, <3>4, <3>5, <3>6 DEF GoroutinesOK
  <2>3. QED BY <2>1, <2>2
<1>3. ASSUME NEW t \in Clients, HoldsInMarket(t) PROVE GoroutinesOK'
  BY <1>3, <1>a, AnswerKeeps, GotoKeeps DEF HoldsInMarket, At, Fits, Places
<1>4. ASSUME NEW t \in Clients, Processes(t) PROVE GoroutinesOK'
  BY <1>4, <1>a, GotoKeeps DEF Processes, At, Fits, Places
<1>5. ASSUME NEW t \in Clients,
             Undoes(t) \/ Settles(t) \/ FindsAgain(t) \/ AddsStop(t) \/ Changes(t)
      PROVE  GoroutinesOK'
  BY <1>5, AnswerKeeps DEF Undoes, Settles, FindsAgain, AddsStop, Changes
<1>6. ASSUME NEW t \in Clients, FindsOrder(t) \/ Cancels(t) PROVE GoroutinesOK'
  BY <1>6, <1>a, AnswerKeeps, GotoKeeps DEF FindsOrder, Cancels, At, Fits, Places
<1>7. ASSUME NEW t \in Clients, Checks(t) \/ Marks(t) PROVE GoroutinesOK'
  BY <1>7, <1>a, AnswerKeeps, GotoKeeps DEF Checks, Marks, At, Fits, Places
<1>8. CASE Cron \/ CallsOnly \/ UNCHANGED rpcVars
  BY <1>8 DEF Cron, ProcessesStops, CallsOnly, rpcVars, GoroutinesOK, PlaceInv
<1>9. QED BY <1>1, <1>2, <1>3, <1>4, <1>5, <1>6, <1>7, <1>8 DEF RpcNext, Handle

-----------------------------------------------------------------------------
(* The engine behind the handlers *)

\* A pass over a list has a result for every prefix of it, each made of the one
\* before: the recursion of Chosen has a value.
LEMMA ChosenUnfolds ==
    ASSUME NEW S, NEW s \in Seq(S), NEW these
    PROVE  \E f : /\ Chosen(s, these) = f[Len(s)] /\ f[0] = <<>>
                 /\ \A n \in 1 .. Len(s) :
                       f[n] = IF s[n] \in these THEN Append(f[n - 1], s[n]) ELSE f[n - 1]
<1> DEFINE N == Len(s)
           Step(f, n) == IF n = 0 THEN <<>>
                         ELSE IF s[n] \in these THEN Append(f[n - 1], s[n]) ELSE f[n - 1]
           Passes(f, m) == f = [n \in 0 .. m |-> Step(f, n)]
<1>1. N \in Nat
  OBVIOUS
<1>2. \E f : Passes(f, N)
  <2> DEFINE Bad == {m \in 0 .. N : ~ \E f : Passes(f, m)}
  <2>1. Bad = {}
    <3>1. SUFFICES ASSUME Bad # {} PROVE FALSE
      OBVIOUS
    <3>2. Bad \in SUBSET Nat
      OBVIOUS
    <3>3. PICK m \in Bad : \A j \in Bad : m <= j
      <4> HIDE DEF Bad
      <4>1. QED BY <3>1, <3>2, SmallestNumber
    <3>4. m # 0
      <4>1. Passes([n \in 0 .. 0 |-> <<>>], 0)
        OBVIOUS
      <4>2. QED BY <4>1
    <3>5. m - 1 \in 0 .. N /\ m - 1 \notin Bad /\ m \in Nat
      <4>1. m \in 0 .. N
        OBVIOUS
      <4> HIDE DEF N, Bad
      <4>2. m \in Nat /\ m - 1 \in 0 .. N /\ ~(m <= m - 1)
        BY <1>1, <3>4, <4>1
      <4>3. QED BY <3>3, <4>2
    <3>6. PICK f : Passes(f, m - 1)
      BY <3>5
    <3> DEFINE g == [n \in 0 .. m |-> IF n = m THEN Step(f, m) ELSE f[n]]
    <3>7. ASSUME NEW n \in 0 .. m PROVE g[n] = Step(g, n)
      <4>1. CASE n = 0
        BY <3>4, <3>5, <3>6, <4>1
      <4>2. CASE n # 0
        <5>1. n - 1 \in 0 .. m - 1 /\ n - 1 \in 0 .. m /\ n - 1 # m
          BY <3>5, <4>2
        <5>2. g[n - 1] = f[n - 1]
          BY <5>1
        <5>3. g[n] = Step(f, n)
          <6>1. CASE n = m
            BY <6>1
          <6>2. CASE n # m
            <7>1. n \in 0 .. m - 1
              BY <3>5, <6>2
            <7>2. QED BY <6>2, <7>1, <3>6
          <6>3. QED BY <6>1, <6>2
        <5>4. QED BY <4>2, <5>2, <5>3
      <4>3. QED BY <4>1, <4>2
    <3>8. g = [n \in 0 .. m |-> Step(g, n)]
      <4>1. g = [n \in 0 .. m |-> g[n]]
        OBVIOUS
      <4> HIDE DEF g, Step
      <4>2. QED BY <4>1, <3>7, Zenon
    <3>9. QED BY <3>8
  <2> HIDE DEF Passes
  <2>2. QED BY <1>1, <2>1
<1> DEFINE h == CHOOSE f : Passes(f, N)
<1>3. Chosen(s, these) = h[N]
  BY DEF Chosen
<1>4. Passes(h, N)
  <2> HIDE DEF Passes
  <2>1. QED BY <1>2
<1> HIDE DEF h
<1>5. h[0] = <<>> /\ \A n \in 1 .. N : h[n] = Step(h, n) /\ n # 0
  <2>1. h = [n \in 0 .. N |-> Step(h, n)]
    BY <1>4
  <2>2. Step(h, 0) = <<>>
    OBVIOUS
  <2> HIDE DEF Step
  <2>3. QED BY <1>1, <2>1, <2>2
<1>6. QED BY <1>3, <1>5

\* A pass takes orders of the list, and what two passes take that share no order
\* and leave none is as many as there are.
LEMMA ChosenCounts ==
    ASSUME NEW S, NEW s \in Seq(S), NEW A, NEW B,
           \A n \in 1 .. Len(s) : s[n] \in A <=> s[n] \notin B
    PROVE  /\ Chosen(s, A) \in Seq(S) /\ Chosen(s, B) \in Seq(S)
           /\ Len(Chosen(s, A)) + Len(Chosen(s, B)) = Len(s)
<1> DEFINE N == Len(s)
<1>1. N \in Nat /\ \A n \in 1 .. N : s[n] \in S
  OBVIOUS
<1>2. PICK f : /\ Chosen(s, A) = f[N] /\ f[0] = <<>>
               /\ \A n \in 1 .. N : f[n] = IF s[n] \in A THEN Append(f[n - 1], s[n]) ELSE f[n - 1]
  BY ChosenUnfolds
<1>3. PICK g : /\ Chosen(s, B) = g[N] /\ g[0] = <<>>
               /\ \A n \in 1 .. N : g[n] = IF s[n] \in B THEN Append(g[n - 1], s[n]) ELSE g[n - 1]
  BY ChosenUnfolds
<1> DEFINE Good(n) == f[n] \in Seq(S) /\ g[n] \in Seq(S) /\ Len(f[n]) + Len(g[n]) = n
           Bad == {n \in 0 .. N : ~Good(n)}
<1>4. Bad = {}
  <2>1. SUFFICES ASSUME Bad # {} PROVE FALSE
    OBVIOUS
  <2>2. Bad \in SUBSET Nat
    <3> HIDE DEF Good
    <3>1. QED OBVIOUS
  <2>3. PICK n \in Bad : \A j \in Bad : n <= j
    <3> HIDE DEF Bad
    <3>1. QED BY <2>1, <2>2, SmallestNumber
  <2>4. n # 0
    <3>1. Good(0)
      BY <1>2, <1>3
    <3>2. QED BY <3>1
  <2>5. n \in 1 .. N /\ n - 1 \in 0 .. N /\ n - 1 \notin Bad
    <3>1. n \in 0 .. N
      OBVIOUS
    <3> HIDE DEF N, Bad
    <3>2. n \in 1 .. N /\ n - 1 \in 0 .. N /\ ~(n <= n - 1)
      BY <1>1, <2>4, <3>1
    <3>3. QED BY <2>3, <3>2
  <2>6. Good(n - 1) /\ s[n] \in S /\ (s[n] \in A <=> s[n] \notin B)
    BY <1>1, <2>5
  <2>7. \/ f[n] = Append(f[n - 1], s[n]) /\ g[n] = g[n - 1]
        \/ f[n] = f[n - 1] /\ g[n] = Append(g[n - 1], s[n])
    BY <1>2, <1>3, <2>5, <2>6
  <2>8. Good(n)
    <3> DEFINE a == f[n - 1]
               b == g[n - 1]
               x == s[n]
    <3>1. n \in Int
      BY <1>1, <2>5
    <3>2. a \in Seq(S) /\ b \in Seq(S) /\ Len(a) + Len(b) = n - 1 /\ x \in S
      BY <2>6
    <3>3. \/ f[n] = Append(a, x) /\ g[n] = b
          \/ f[n] = a /\ g[n] = Append(b, x)
      BY <2>7
    <3> HIDE DEF a, b, x
    <3>4. /\ Append(a, x) \in Seq(S) /\ Len(Append(a, x)) = Len(a) + 1 /\ Len(a) \in Nat
          /\ Append(b, x) \in Seq(S) /\ Len(Append(b, x)) = Len(b) + 1 /\ Len(b) \in Nat
      BY <3>2
    <3>5. f[n] \in Seq(S) /\ g[n] \in Seq(S)
      BY <3>2, <3>3, <3>4
    <3>6. Len(f[n]) + Len(g[n]) = n
      <4>1. \/ Len(f[n]) = Len(a) + 1 /\ Len(g[n]) = Len(b)
            \/ Len(f[n]) = Len(a) /\ Len(g[n]) = Len(b) + 1
        BY <3>3, <3>4
      <4>2. \A p, q \in Nat : p + q = n - 1 => (p + 1) + q = n /\ p + (q + 1) = n
        BY <3>1
      <4>3. (Len(a) + 1) + Len(b) = n /\ Len(a) + (Len(b) + 1) = n
        BY <3>2, <3>4, <4>2
      <4>4. QED BY <4>1, <4>3
    <3>7. QED BY <3>5, <3>6
  <2>9. QED BY <2>8
<1>5. Good(N)
  <2> HIDE DEF Good
  <2>1. QED BY <1>1, <1>4
<1>6. QED BY <1>2, <1>3, <1>5

\* The ticker takes the orders that are due off the list and runs all of them, or
\* those before the first that trades; then the lock is stuck.
LEMMA StopsLeaveTheList ==
    ASSUME EngineOK, NEW last, ProcessesStops(last)
    PROVE  /\ stops' \in Seq(Put) /\ run' \in Nat /\ nextID' \in Nat /\ mu' \in {"free", "stuck"}
           /\ mu' = "free" => Len(stops') + run' = Len(stops) + run
<1> DEFINE due == {s \in Range(stops) : Triggers(s, last)}
           triggered == Chosen(stops, due)
           trading == {i \in DOMAIN triggered : Trades("stop", triggered[i].side, triggered[i].price)}
           matched == IF trading = {} THEN Len(triggered) ELSE Min(trading)
<1>1. stops \in Seq(Put) /\ run \in Nat /\ nextID \in Nat
  BY DEF EngineOK
<1>2. /\ stops' = Chosen(stops, Range(stops) \ due)
      /\ run' = run + matched /\ nextID' = nextID + matched
      /\ mu' = IF trading = {} THEN "free" ELSE "stuck"
  BY DEF ProcessesStops
<1>3. /\ triggered \in Seq(Put) /\ stops' \in Seq(Put)
      /\ Len(triggered) + Len(stops') = Len(stops)
  <2>1. \A n \in 1 .. Len(stops) : stops[n] \in Range(stops)
    BY <1>1 DEF Range
  <2>2. \A n \in 1 .. Len(stops) : stops[n] \in due <=> stops[n] \notin Range(stops) \ due
    BY <2>1
  <2> HIDE DEF due
  <2>3. QED BY <1>1, <1>2, <2>2, ChosenCounts
<1> HIDE DEF triggered
<1>4. matched \in Nat
  <2>1. CASE trading = {}
    BY <1>3, <2>1
  <2>2. CASE trading # {}
    <3>1. trading \in SUBSET Nat
      BY <1>3
    <3> HIDE DEF trading
    <3>2. \E x \in trading : \A y \in trading : x <= y
      BY <2>2, <3>1, SmallestNumber
    <3>3. Min(trading) \in trading
      BY <3>2 DEF Min
    <3>4. QED BY <2>2, <3>1, <3>3
  <2>3. QED BY <2>1, <2>2
<1>5. CASE trading = {}
  BY <1>1, <1>2, <1>3, <1>4, <1>5
<1>6. CASE trading # {}
  <2> HIDE DEF matched
  <2>1. QED BY <1>1, <1>2, <1>3, <1>4, <1>6
<1>7. QED BY <1>5, <1>6

\* Every step keeps what the engine holds well typed.
LEMMA NextKeepsEngine == GoroutinesOK /\ EngineOK /\ [RpcNext]_rpcVars => EngineOK'
<1> SUFFICES ASSUME GoroutinesOK, EngineOK, [RpcNext]_rpcVars PROVE EngineOK'
  OBVIOUS
<1>a. /\ req \in [Clients -> Asked] /\ \A t \in Clients : Fits(req[t].kind, pc[t])
      /\ MaxRequests \in Nat
  BY BoundsAssumption DEF GoroutinesOK, PlaceInv
<1>b. \A t \in Clients :
        pc[t] \in {"price", "hold", "process", "undo", "settle", "stop"} => req[t] \in Put
  BY <1>a, KindTells DEF Fits
<1>1. CASE UNCHANGED <<server, received, engineVars, accepted>>
  BY <1>1 DEF server, engineVars, EngineOK
<1>2. ASSUME NEW t \in Clients, NEW r \in Requests, Receive(t, r) PROVE EngineOK'
  <2>1. received' \in 0 .. MaxRequests
    BY <1>2, <1>a DEF Receive, EngineOK
  <2>2. QED BY <1>2, <2>1 DEF Receive, server, engineVars, EngineOK
<1>3. ASSUME NEW t \in Clients, HoldsInMarket(t) PROVE EngineOK'
  <2>1. nextID' \in Nat
    BY <1>3 DEF HoldsInMarket, EngineOK
  <2>2. QED BY <1>3, <2>1 DEF HoldsInMarket, Goto, Answer, server, EngineOK
<1>4. ASSUME NEW t \in Clients, Processes(t) PROVE EngineOK'
  <2>1. mu' \in {"free", "stuck"}
    BY <1>4 DEF Processes, EngineOK
  <2>2. QED BY <1>4, <2>1 DEF Processes, Goto, server, EngineOK
<1>5. ASSUME NEW t \in Clients, Settles(t) PROVE EngineOK'
  <2>1. Cost(req[t]) \in Nat /\ <<req[t].user, req[t].side>> \in Users \X Sides
    BY <1>5, <1>b, PutIsPayable DEF Settles, At
  <2>2. accepted' = [accepted EXCEPT ![<<req[t].user, req[t].side>>] = @ + Cost(req[t])]
    BY <1>5 DEF Settles
  <2> DEFINE k == <<req[t].user, req[t].side>>
             c == Cost(req[t])
  <2>3. accepted' = [accepted EXCEPT ![k] = @ + c] /\ c \in Nat /\ k \in Users \X Sides
    BY <2>1, <2>2
  <2> HIDE DEF k, c
  <2>4. accepted' \in [Users \X Sides -> Nat]
    BY <2>3 DEF EngineOK
  <2>5. QED BY <1>5, <2>4 DEF Settles, Answer, server, engineVars, EngineOK
<1>6. ASSUME NEW t \in Clients, Cancels(t) PROVE EngineOK'
  <2>1. IsBook(ob') /\ mu' \in {"free", "stuck"}
    <3>1. CASE req[t].here
      <4>1. ob' = [ob EXCEPT !.orders = [i \in DOMAIN ob.orders \ {req[t].order} |-> ob.orders[i]]]
            /\ mu' = "stuck"
        BY <1>6, <3>1 DEF Cancels
      <4>2. QED BY <4>1 DEF EngineOK, IsBook
    <3>2. CASE ~req[t].here
      BY <1>6, <3>2 DEF Cancels, EngineOK
    <3>3. QED BY <3>1, <3>2
  <2>2. UNCHANGED <<server, nextID, stops, added, run, accepted, received>>
    BY <1>6 DEF Cancels, Goto
  <2>3. QED BY <2>1, <2>2 DEF server, EngineOK
<1>7. ASSUME NEW t \in Clients, AddsStop(t) PROVE EngineOK'
  <2>1. stops' \in Seq(Put) /\ added' \in Nat
    <3> DEFINE s == [kind |-> "stop", user |-> req[t].user, side |-> req[t].side,
                     price |-> req[t].price, amount |-> req[t].amount]
    <3>1. s \in Put
      BY <1>7, <1>b DEF AddsStop, At, Put
    <3>2. stops' = Append(stops, s) /\ added' = added + 1
      BY <1>7 DEF AddsStop
    <3> HIDE DEF s
    <3>3. QED BY <3>1, <3>2 DEF EngineOK
  <2>2. QED BY <1>7, <2>1 DEF AddsStop, Answer, server, EngineOK
<1>8. CASE Cron
  <2>1. PICK last : ProcessesStops(last)
    BY <1>8 DEF Cron
  <2>2. UNCHANGED <<server, received, ob, added, accepted>>
    BY <2>1 DEF ProcessesStops
  <2>3. QED BY <2>1, <2>2, StopsLeaveTheList DEF server, EngineOK
<1>9. ASSUME NEW t \in Clients, \/ FindsPrice(t) \/ Undoes(t) \/ FindsOrder(t)
                                \/ FindsAgain(t) \/ Checks(t) \/ Marks(t) \/ Changes(t)
      PROVE  EngineOK'
  BY <1>9, <1>1 DEF FindsPrice, Undoes, FindsOrder, FindsAgain, Checks, Marks, Changes, Goto, Answer
<1>10. CASE CallsOnly \/ UNCHANGED rpcVars
  BY <1>10, <1>1 DEF CallsOnly, rpcVars
<1>11. QED BY <1>2, <1>3, <1>4, <1>5, <1>6, <1>7, <1>8, <1>9, <1>10 DEF RpcNext, Handle

-----------------------------------------------------------------------------
(* The table behind the handlers *)

\* Whatever a handler does to the table is one call of the balance manager, with an
\* amount that is not negative.
LEMMA HandlerCalls ==
    ASSUME GoroutinesOK, [RpcNext]_rpcVars
    PROVE  UNCHANGED vars \/ \E k \in Keys, amount \in Nat : Call(k, amount)
<1>a. /\ req \in [Clients -> Asked] /\ \A t \in Clients : Fits(req[t].kind, pc[t])
  BY DEF GoroutinesOK, PlaceInv
<1>b. \A t \in Clients :
        pc[t] \in {"price", "hold", "process", "undo", "settle"} =>
            /\ Cost(req[t]) \in Nat /\ MarketKey(req[t]) \in Keys /\ PaysWith(req[t]) \in Keys
            /\ req[t] \in Put
  BY <1>a, KindTells, PutIsPayable DEF Fits
<1>1. ASSUME NEW t \in Clients, HoldsInMarket(t)
      PROVE  \E k \in Keys, amount \in Nat : Call(k, amount)
  <2>1. FreezeCall(MarketKey(req[t]), Cost(req[t])) /\ pc[t] = "hold"
    BY <1>1 DEF HoldsInMarket, At
  <2>2. QED BY <1>b, <2>1 DEF Call
<1>2. ASSUME NEW t \in Clients, Processes(t)
      PROVE  \E k \in Keys, amount \in Nat : Call(k, amount)
  <2>1. FreezeCall(PaysWith(req[t]), Cost(req[t])) /\ pc[t] = "process"
    BY <1>2 DEF Processes, At
  <2>2. QED BY <1>b, <2>1 DEF Call
<1>3. ASSUME NEW t \in Clients, Undoes(t)
      PROVE  \E k \in Keys, amount \in Nat : Call(k, amount)
  <2>1. UnfreezeCall(MarketKey(req[t]), Cost(req[t])) /\ pc[t] = "undo"
    BY <1>3 DEF Undoes, At
  <2>2. QED BY <1>b, <2>1 DEF Call
<1>4. ASSUME NEW t \in Clients, Settles(t)
      PROVE  \E k \in Keys, amount \in Nat : Call(k, amount)
  <2>1. UnfreezeCall(MarketKey(req[t]), Cost(req[t]) - Cost(req[t])) /\ pc[t] = "settle"
    BY <1>4 DEF Settles, At
  <2>2. Cost(req[t]) - Cost(req[t]) \in Nat
    BY <1>b, <2>1
  <2>3. QED BY <1>b, <2>1, <2>2 DEF Call
<1>5. ASSUME NEW t \in Clients, Changes(t)
      PROVE  \E k \in Keys, amount \in Nat : Call(k, amount)
  <2> DEFINE k == <<req[t].user, req[t].asset>>
             c == req[t].change
  <2>1. req[t] \in Update
    BY <1>5, <1>a, KindTells DEF Changes, At, Fits
  <2>2. k \in Keys /\ c \in Int
    BY <2>1, KeysAssumption DEF Update
  <2>3. (c > 0 /\ AddCall(k, c)) \/ (c < 0 /\ SubCall(k, -c))
    BY <1>5 DEF Changes
  <2> HIDE DEF k, c
  <2>4. (c > 0 => c \in Nat) /\ (c < 0 => -c \in Nat)
    BY <2>2
  <2>5. QED BY <2>2, <2>3, <2>4 DEF Call
<1>6. CASE CallsOnly
  BY <1>6, AmountsAssumption DEF CallsOnly, Next, Call
<1>7. ASSUME NEW t \in Clients, \/ FindsPrice(t) \/ FindsOrder(t) \/ Cancels(t) \/ FindsAgain(t)
                                \/ AddsStop(t) \/ Checks(t) \/ Marks(t)
      PROVE  UNCHANGED vars
  BY <1>7 DEF FindsPrice, FindsOrder, Cancels, FindsAgain, AddsStop, Checks, Marks
<1>8. ASSUME NEW t \in Clients, NEW r \in Requests, Receive(t, r) PROVE UNCHANGED vars
  BY <1>8 DEF Receive
<1>9. CASE Cron
  BY <1>9 DEF Cron, ProcessesStops
<1>10. CASE UNCHANGED rpcVars
  BY <1>10 DEF rpcVars
<1>11. QED BY <1>1, <1>2, <1>3, <1>4, <1>5, <1>6, <1>7, <1>8, <1>9, <1>10 DEF RpcNext, Handle

\* So the table stays as it has to be.
LEMMA NextKeepsTable == IInv /\ GoroutinesOK /\ [RpcNext]_rpcVars => IInv'
<1> SUFFICES ASSUME IInv, GoroutinesOK, [RpcNext]_rpcVars PROVE IInv'
  OBVIOUS
<1>1. CASE UNCHANGED vars
  BY <1>1, NextKeeps
<1>2. ASSUME NEW k \in Keys, NEW amount \in Nat, Call(k, amount) PROVE IInv'
  BY <1>2, CallKeeps
<1>3. QED BY <1>1, <1>2, HandlerCalls

\* The server starts with everything in order.
LEMMA RpcInitHolds == RpcInit => IInv /\ GoroutinesOK /\ EngineOK /\ LateInv
<1> SUFFICES ASSUME RpcInit PROVE IInv /\ GoroutinesOK /\ EngineOK /\ LateInv
  OBVIOUS
<1>1. IInv
  BY InitHolds DEF RpcInit
<1>2. GoroutinesOK
  BY DEF RpcInit, GoroutinesOK, PlaceInv, Fits, NoRequest, Places, Asked
<1>3. IsBook(ob)
  <2>1. IsBook(NoBook)
    BY DEF IsBook, NoBook
  <2>2. QED BY <2>1, BooksAssumption DEF RpcInit
<1>4. EngineOK
  BY <1>3, BoundsAssumption DEF RpcInit, EngineOK
<1>5. QED BY <1>1, <1>2, <1>4 DEF RpcInit, LateInv

\* The parts of the invariant are the invariant of the run.
LEMMA PartsAreTypes == GoroutinesOK /\ EngineOK /\ IInv => RpcTypeOK /\ NeverOverdrawn
  BY DEF GoroutinesOK, EngineOK, IInv, RpcTypeOK, Asked

\* The server's handlers, ticker and requests keep everything well typed, and no
\* interleaving of them overdraws an account.
THEOREM RpcKeepsFunds == RpcSpec => [](RpcTypeOK /\ NeverOverdrawn)
<1> DEFINE Inv == IInv /\ GoroutinesOK /\ EngineOK
<1>1. RpcInit => Inv
  BY RpcInitHolds
<1>2. Inv /\ [RpcNext]_rpcVars => Inv'
  BY NextKeepsGoroutines, NextKeepsEngine, NextKeepsTable
<1>3. Inv => RpcTypeOK /\ NeverOverdrawn
  BY PartsAreTypes
<1>4. QED BY <1>1, <1>2, <1>3, PTL DEF RpcSpec

\* The handlers move funds as the ledger allows: an order, a refusal or an update
\* takes nothing that is on hold, and a hold or a release changes no total.
THEOREM RpcImplementsLedger == RpcSpec => LedgerSpec
<1> DEFINE Inv == IInv /\ GoroutinesOK /\ EngineOK
<1>1. RpcInit => Inv /\ Ledger!LedgerInit
  <2>1. RpcInit => Inv /\ Init
    BY RpcInitHolds DEF RpcInit
  <2>2. Init => Ledger!LedgerInit
    BY InitRefines
  <2>3. QED BY <2>1, <2>2
<1>2. Inv /\ [RpcNext]_rpcVars => Inv'
  BY NextKeepsGoroutines, NextKeepsEngine, NextKeepsTable
<1>3. Inv /\ [RpcNext]_rpcVars => [Ledger!LedgerNext]_<<total, held, move>>
  <2> SUFFICES ASSUME Inv, [RpcNext]_rpcVars PROVE [Ledger!LedgerNext]_<<total, held, move>>
    OBVIOUS
  <2>1. CASE UNCHANGED vars
    BY <2>1 DEF vars, total, held, move, Total
  <2>2. QED BY <2>1, HandlerCalls, CallRefines
<1>4. QED BY <1>1, <1>2, <1>3, PTL DEF RpcSpec, LedgerSpec, Ledger!LedgerSpec, Ledger!ledgerVars

-----------------------------------------------------------------------------
(* The duplicate check *)

\* A mark is never taken back, and an update that found its id marked when it came
\* goes no further than its check.
LEMMA NextKeepsLate == GoroutinesOK /\ EngineOK /\ LateInv /\ [RpcNext]_rpcVars => LateInv'
<1> SUFFICES ASSUME GoroutinesOK, EngineOK, LateInv, [RpcNext]_rpcVars, guarded'
             PROVE  \A t \in late' : pc'[t] = "check" /\ req'[t].id \in marks'
  BY DEF LateInv
<1>a. pc \in [Clients -> Places] /\ req \in [Clients -> Asked] /\ late \subseteq Clients
  BY DEF GoroutinesOK
<1>b. guarded
  BY DEF RpcNext, Receive, Handle, Cron, ProcessesStops, CallsOnly, FindsPrice, HoldsInMarket,
         Processes, Undoes, Settles, FindsOrder, Cancels, FindsAgain, AddsStop, Checks, Marks,
         Changes, server, rpcVars
<1>c. \A t \in late : pc[t] = "check" /\ req[t].id \in marks
  BY <1>b DEF LateInv
<1>1. ASSUME NEW t \in Clients, NEW r \in Requests, Receive(t, r)
      PROVE  \A u \in late' : pc'[u] = "check" /\ req'[u].id \in marks'
  <2>1. /\ pc[t] = "idle" /\ pc' = [pc EXCEPT ![t] = First[r.kind]]
        /\ req' = [req EXCEPT ![t] = r] /\ marks' = marks
        /\ late' = IF r.kind = "update" /\ r.id \in marks THEN late \union {t} ELSE late
    BY <1>1 DEF Receive, At
  <2>2. t \notin late
    BY <1>c, <2>1
  <2>3. First["update"] = "check"
    BY DEF First
  <2>4. ASSUME NEW u \in late' PROVE pc'[u] = "check" /\ req'[u].id \in marks'
    <3>1. CASE u = t
      BY <1>a, <2>1, <2>2, <2>3, <3>1
    <3>2. CASE u # t
      BY <1>a, <1>c, <2>1, <3>2
    <3>3. QED BY <3>1, <3>2
  <2>5. QED BY <2>4
<1>2. ASSUME NEW t \in Clients, Answer(t), marks \subseteq marks'
      PROVE  \A u \in late' : pc'[u] = "check" /\ req'[u].id \in marks'
  BY <1>2, <1>a, <1>c DEF Answer
<1>3. ASSUME NEW t \in Clients, late' = late, marks \subseteq marks', t \notin late,
             \A u \in Clients \ {t} : pc'[u] = pc[u] /\ req'[u] = req[u]
      PROVE  \A u \in late' : pc'[u] = "check" /\ req'[u].id \in marks'
  BY <1>3, <1>a, <1>c
<1>4. ASSUME NEW t \in Clients, Handle(t)
      PROVE  \A u \in late' : pc'[u] = "check" /\ req'[u].id \in marks'
  <2>1. CASE Answer(t)
    <3>1. marks \subseteq marks'
      BY <1>4 DEF Handle, FindsPrice, HoldsInMarket, Processes, Undoes, Settles, FindsOrder,
                  Cancels, FindsAgain, AddsStop, Checks, Marks, Changes
    <3>2. QED BY <2>1, <3>1, <1>2
  <2>2. CASE ~Answer(t)
    <3>1. /\ marks \subseteq marks' /\ late' = late
          /\ \A u \in Clients \ {t} : pc'[u] = pc[u] /\ req'[u] = req[u]
      BY <1>4, <1>a, <2>2
      DEF Handle, FindsPrice, HoldsInMarket, Processes, Undoes, Settles, FindsOrder,
          Cancels, FindsAgain, AddsStop, Checks, Marks, Changes, Goto
    <3>2. t \notin late
      <4>1. CASE pc[t] = "check"
        BY <1>4, <1>b, <1>c, <2>2, <4>1
        DEF Handle, FindsPrice, HoldsInMarket, Processes, Undoes, Settles, FindsOrder,
            Cancels, FindsAgain, AddsStop, Checks, Marks, Changes, At
      <4>2. CASE pc[t] # "check"
        BY <1>c, <4>2
      <4>3. QED BY <4>1, <4>2
    <3>3. QED BY <3>1, <3>2, <1>3
  <2>3. QED BY <2>1, <2>2
<1>5. CASE Cron \/ CallsOnly \/ UNCHANGED rpcVars
  BY <1>5, <1>c DEF Cron, ProcessesStops, CallsOnly, rpcVars
<1>6. QED BY <1>1, <1>4, <1>5 DEF RpcNext

\* With redis failing as it may and any number of updates under way, an update whose
\* id was marked when it came never gets to the balance.
THEOREM MarkedUpdatesStayOut == RpcSpec => []MarkedStaysOut
<1> DEFINE Inv == IInv /\ GoroutinesOK /\ EngineOK /\ LateInv
<1>1. RpcInit => Inv
  BY RpcInitHolds
<1>2. Inv /\ [RpcNext]_rpcVars => Inv'
  BY NextKeepsGoroutines, NextKeepsEngine, NextKeepsTable, NextKeepsLate
<1>3. Inv => MarkedStaysOut
  BY DEF LateInv, MarkedStaysOut
<1>4. QED BY <1>1, <1>2, <1>3, PTL DEF RpcSpec

-----------------------------------------------------------------------------
(* What is frozen, and the stop orders *)

\* No stop order is lost, and none is matched twice, while the engine answers.
LEMMA NextKeepsStops == EngineOK /\ StopsRunOnce /\ [RpcNext]_rpcVars => StopsRunOnce'
<1> SUFFICES ASSUME EngineOK, StopsRunOnce, [RpcNext]_rpcVars PROVE StopsRunOnce'
  OBVIOUS
<1>1. CASE UNCHANGED <<mu, added, stops, run>>
  BY <1>1 DEF StopsRunOnce
<1>2. ASSUME NEW t \in Clients, Processes(t) \/ Cancels(t) PROVE StopsRunOnce'
  <2>1. UNCHANGED <<added, stops, run>> /\ mu = "free"
    BY <1>2 DEF Processes, Cancels
  <2>2. QED BY <2>1 DEF StopsRunOnce
<1>3. ASSUME NEW t \in Clients, AddsStop(t) PROVE StopsRunOnce'
  <2>1. /\ Len(stops') = Len(stops) + 1 /\ added' = added + 1 /\ run' = run /\ mu = "free"
        /\ Len(stops) \in Nat /\ added \in Nat /\ run \in Nat
    BY <1>3 DEF AddsStop, EngineOK
  <2>2. QED BY <2>1 DEF StopsRunOnce
<1>4. CASE Cron
  <2>1. PICK last : ProcessesStops(last)
    BY <1>4 DEF Cron
  <2>2. mu = "free" /\ added' = added
    BY <2>1 DEF ProcessesStops
  <2>3. QED BY <2>1, <2>2, StopsLeaveTheList DEF StopsRunOnce
<1>5. ASSUME NEW t \in Clients, Handle(t), ~(Processes(t) \/ Cancels(t) \/ AddsStop(t))
      PROVE  UNCHANGED <<mu, added, stops, run>>
  BY <1>5 DEF Handle, FindsPrice, HoldsInMarket, Undoes, Settles, FindsOrder, FindsAgain, Checks,
              Marks, Changes, engineVars
<1>6. ASSUME NEW t \in Clients, NEW r \in Requests, Receive(t, r)
      PROVE  UNCHANGED <<mu, added, stops, run>>
  BY <1>6 DEF Receive, engineVars
<1>7. CASE CallsOnly \/ UNCHANGED rpcVars
  BY <1>7, <1>1 DEF CallsOnly, rpcVars, engineVars
<1>8. QED BY <1>1, <1>2, <1>3, <1>4, <1>5, <1>6, <1>7 DEF RpcNext

\* A goroutine's share is a number of lots.
LEMMA ShareIsNat ==
    ASSUME GoroutinesOK, NEW u, NEW s, NEW places, NEW t \in Clients
    PROVE  Share(t, u, s, places) \in Nat
<1>1. req[t].kind \in {"limit", "market"} => Cost(req[t]) \in Nat
  BY KindTells, PutIsPayable DEF GoroutinesOK
<1>2. QED BY <1>1 DEF Share

\* When one goroutine moves, a sum changes by what its share does.
LEMMA OneMoves ==
    ASSUME GoroutinesOK, GoroutinesOK', NEW t \in Clients,
           \A r \in Clients \ {t} : pc'[r] = pc[r] /\ req'[r] = req[r],
           NEW u, NEW s, NEW places
    PROVE  /\ Working(u, s, places)' =
                 Working(u, s, places) + (Share(t, u, s, places)' - Share(t, u, s, places))
           /\ Working(u, s, places) \in Nat
           /\ Share(t, u, s, places) <= Working(u, s, places)
           /\ Share(t, u, s, places) \in Nat /\ Share(t, u, s, places)' \in Nat
<1> DEFINE f == [r \in Clients |-> Share(r, u, s, places)]
           g == [r \in Clients |-> Share(r, u, s, places)']
<1>1. /\ Working(u, s, places) = SumFunctionOnSet(f, Clients)
      /\ Working(u, s, places)' = SumFunctionOnSet(g, Clients)
  BY DEF Working
<1>2. /\ \A r \in Clients : f[r] \in Nat
      /\ f[t] = Share(t, u, s, places) /\ g[t] = Share(t, u, s, places)'
  BY ShareIsNat
<1>3. \A r \in Clients \ {t} : f[r] = g[r]
  BY DEF Share
<1>4. Share(t, u, s, places)' \in Nat
  <2>1. req'[t].kind \in {"limit", "market"} => Cost(req'[t]) \in Nat
    BY KindTells, PutIsPayable DEF GoroutinesOK
  <2>2. QED BY <2>1 DEF Share
<1>5. IsFiniteSet(Clients)
  BY ClientsAssumption
<1> HIDE DEF f, g
<1>6. /\ SumFunctionOnSet(f, Clients) \in Nat
      /\ f[t] <= SumFunctionOnSet(f, Clients)
  BY <1>2, <1>5, SumIsNat
<1>7. \A r \in Clients : f[r] \in Int /\ g[r] \in Int
  BY <1>2, <1>3, <1>4
<1>8. SumFunctionOnSet(g, Clients) = SumFunctionOnSet(f, Clients) + (g[t] - f[t])
  BY <1>3, <1>5, <1>7, SumUpdate
<1>9. QED BY <1>1, <1>2, <1>4, <1>6, <1>8

\* What a step of t adds to what is accepted, and to its own share.
Spent(u, s) == accepted'[<<u, s>>] - accepted[<<u, s>>]
Moved(t, u, s, places) == Share(t, u, s, places)' - Share(t, u, s, places)
AssetKey(u, s) == PaysWith([user |-> u, side |-> s])

\* The three accounts that orders of a user are held in are different ones.
LEMMA AccountsDiffer ==
    ASSUME NEW u \in Users, NEW v \in Users, NEW s \in Sides, NEW z \in Sides
    PROVE  /\ <<u, "market">> \in Keys /\ AssetKey(u, s) \in Keys
           /\ <<u, "market">> # AssetKey(v, z) /\ AssetKey(u, s) # <<v, "market">>
           /\ AssetKey(u, s) = AssetKey(v, z) <=> u = v /\ s = z
           /\ <<u, "market">> = <<v, "market">> <=> u = v
  BY KeysAssumption DEF AssetKey, PaysWith, Sides

\* A step of one goroutine keeps the account of what is frozen if it freezes for
\* one order, in either account, what the accepted costs and its share gain.
LEMMA HeldFollows ==
    ASSUME IInv, IInv', GoroutinesOK, GoroutinesOK', EngineOK, EngineOK', HeldTwice,
           UNCHANGED server, NEW t \in Clients,
           \A r \in Clients \ {t} : pc'[r] = pc[r] /\ req'[r] = req[r],
           NEW v \in Users, NEW z \in Sides, NEW dm \in Int, NEW da \in Int,
           \A u \in Users, s \in Sides :
              /\ Spent(u, s) + Moved(t, u, s, OnMarket) = IF u = v /\ s = z THEN dm ELSE 0
              /\ Spent(u, s) + Moved(t, u, s, OnAsset) = IF u = v /\ s = z THEN da ELSE 0,
           \A k \in Keys :
              balances'[k].frozen = balances[k].frozen
                  + (IF k = <<v, "market">> THEN dm ELSE IF k = AssetKey(v, z) THEN da ELSE 0)
    PROVE  HeldTwice'
<1> SUFFICES ASSUME serving', NEW u \in Users
             PROVE  /\ balances'[<<u, "market">>].frozen =
                          accepted'[<<u, "bid">>] + Working(u, "bid", OnMarket)'
                              + accepted'[<<u, "ask">>] + Working(u, "ask", OnMarket)'
                    /\ \A s \in Sides :
                          balances'[AssetKey(u, s)].frozen =
                              accepted'[<<u, s>>] + Working(u, s, OnAsset)'
  BY DEF HeldTwice, AssetKey, PaysWith
<1>1. serving
  BY DEF server
<1>2. /\ balances[<<u, "market">>].frozen =
            accepted[<<u, "bid">>] + Working(u, "bid", OnMarket)
                + accepted[<<u, "ask">>] + Working(u, "ask", OnMarket)
      /\ \A s \in Sides :
            balances[AssetKey(u, s)].frozen = accepted[<<u, s>>] + Working(u, s, OnAsset)
  BY <1>1 DEF HeldTwice, AssetKey
<1>3. \A s \in Sides : accepted[<<u, s>>] \in Nat /\ accepted'[<<u, s>>] \in Nat
  BY DEF EngineOK
<1>4. \A s \in Sides : \A places :
         /\ Working(u, s, places)' = Working(u, s, places) + Moved(t, u, s, places)
         /\ Working(u, s, places) \in Nat /\ Moved(t, u, s, places) \in Int
  <2> SUFFICES ASSUME NEW s \in Sides, NEW places
               PROVE  /\ Working(u, s, places)' = Working(u, s, places) + Moved(t, u, s, places)
                      /\ Working(u, s, places) \in Nat /\ Moved(t, u, s, places) \in Int
    OBVIOUS
  <2>1. /\ Working(u, s, places)' =
              Working(u, s, places) + (Share(t, u, s, places)' - Share(t, u, s, places))
        /\ Working(u, s, places) \in Nat
        /\ Share(t, u, s, places) \in Nat /\ Share(t, u, s, places)' \in Nat
    BY OneMoves
  <2>2. QED BY <2>1 DEF Moved
<1>5. ASSUME NEW s \in Sides
      PROVE  balances'[AssetKey(u, s)].frozen = accepted'[<<u, s>>] + Working(u, s, OnAsset)'
  <2>1. balances'[AssetKey(u, s)].frozen =
            balances[AssetKey(u, s)].frozen + (IF u = v /\ s = z THEN da ELSE 0)
    <3> DEFINE k == AssetKey(u, s)
    <3>1. k \in Keys /\ k # <<v, "market">> /\ (k = AssetKey(v, z) <=> u = v /\ s = z)
      <4>1. k \in Keys
        BY AccountsDiffer
      <4>2. k # <<v, "market">>
        BY AccountsDiffer
      <4>3. k = AssetKey(v, z) <=> u = v /\ s = z
        BY DEF AssetKey, PaysWith, Sides
      <4>4. QED BY <4>1, <4>2, <4>3
    <3> HIDE DEF k
    <3>2. balances'[k].frozen = balances[k].frozen + (IF u = v /\ s = z THEN da ELSE 0)
      BY <3>1
    <3>3. QED BY <3>2 DEF k
  <2>2. Spent(u, s) = accepted'[<<u, s>>] - accepted[<<u, s>>]
    BY DEF Spent
  <2>3. QED BY <1>2, <1>3, <1>4, <2>1, <2>2
<1>6. balances'[<<u, "market">>].frozen =
          accepted'[<<u, "bid">>] + Working(u, "bid", OnMarket)'
              + accepted'[<<u, "ask">>] + Working(u, "ask", OnMarket)'
  <2>1. balances'[<<u, "market">>].frozen =
            balances[<<u, "market">>].frozen + (IF u = v THEN dm ELSE 0)
    <3> DEFINE k == <<u, "market">>
    <3>1. k \in Keys /\ k # AssetKey(v, z) /\ (k = <<v, "market">> <=> u = v)
      BY AccountsDiffer
    <3> HIDE DEF k
    <3>2. balances'[k].frozen = balances[k].frozen + (IF u = v THEN dm ELSE 0)
      <4>1. balances'[k].frozen = balances[k].frozen
                + (IF k = <<v, "market">> THEN dm ELSE IF k = AssetKey(v, z) THEN da ELSE 0)
        BY <3>1
      <4>2. QED BY <3>1, <4>1
    <3>3. QED BY <3>2 DEF k
  <2>2. \A s \in Sides :
           /\ Spent(u, s) = accepted'[<<u, s>>] - accepted[<<u, s>>]
           /\ Spent(u, s) + Moved(t, u, s, OnMarket) = IF u = v /\ s = z THEN dm ELSE 0
    BY DEF Spent
  <2>3. /\ Spent(u, "bid") + Moved(t, u, "bid", OnMarket) = IF u = v /\ "bid" = z THEN dm ELSE 0
        /\ Spent(u, "ask") + Moved(t, u, "ask", OnMarket) = IF u = v /\ "ask" = z THEN dm ELSE 0
        /\ Spent(u, "bid") = accepted'[<<u, "bid">>] - accepted[<<u, "bid">>]
        /\ Spent(u, "ask") = accepted'[<<u, "ask">>] - accepted[<<u, "ask">>]
        /\ (z = "bid" \/ z = "ask") /\ "bid" \in Sides /\ "ask" \in Sides
    BY <2>2 DEF Sides
  <2>4. (Spent(u, "bid") + Moved(t, u, "bid", OnMarket))
            + (Spent(u, "ask") + Moved(t, u, "ask", OnMarket)) = IF u = v THEN dm ELSE 0
    BY <2>3
  <2> DEFINE d == IF u = v THEN dm ELSE 0
             frozen0 == balances[<<u, "market">>].frozen
             ab == accepted[<<u, "bid">>]
             aa == accepted[<<u, "ask">>]
             ab2 == accepted'[<<u, "bid">>]
             aa2 == accepted'[<<u, "ask">>]
             wb == Working(u, "bid", OnMarket)
             wa == Working(u, "ask", OnMarket)
             mb == Moved(t, u, "bid", OnMarket)
             ma == Moved(t, u, "ask", OnMarket)
  <2>5. /\ d \in Int /\ ab \in Int /\ aa \in Int /\ ab2 \in Int /\ aa2 \in Int
        /\ wb \in Int /\ wa \in Int /\ mb \in Int /\ ma \in Int
        /\ Working(u, "bid", OnMarket)' = wb + mb /\ Working(u, "ask", OnMarket)' = wa + ma
    BY <1>3, <1>4, <2>3
  <2>6. frozen0 = ab + wb + aa + wa /\ ((ab2 - ab) + mb) + ((aa2 - aa) + ma) = d
        /\ balances'[<<u, "market">>].frozen = frozen0 + d
    BY <1>2, <2>1, <2>3, <2>4
  <2> HIDE DEF d, frozen0, ab, aa, wb, wa, mb, ma
  <2>7. frozen0 + d = ab2 + (wb + mb) + aa2 + (wa + ma)
    <3> HIDE DEF ab2, aa2
    <3>1. QED BY <2>5, <2>6
  <2>8. QED BY <2>5, <2>6, <2>7
<1>7. QED BY <1>5, <1>6

\* What a call does to what is frozen, in the account it names and in the others.
LEMMA CallsFreeze ==
    ASSUME IInv, NEW k \in Keys, NEW c \in Nat, NEW d \in Int,
           \/ FreezeCall(k, c) /\ d = IF CanFreeze(balances, k, c) THEN c ELSE 0
           \/ UnfreezeCall(k, c) /\ balances[k].frozen >= c /\ d = -c
           \/ (AddCall(k, c) \/ SubCall(k, c)) /\ d = 0
    PROVE  \A j \in Keys : balances'[j].frozen = balances[j].frozen + (IF j = k THEN d ELSE 0)
<1>1. /\ balances \in [Keys -> Account]
      /\ \A j \in Keys : balances[j].frozen \in Int
      /\ ~balances[k].known => balances[k].frozen = 0
  BY DEF IInv, TypeOK, NeverOverdrawn, AccountOK, NoAccount, Account
<1>2. CASE balances' = balances /\ d = 0
  BY <1>1, <1>2
<1>3. ASSUME NEW a, NEW f, balances' = SetBalance(balances, k, a, f), f = balances[k].frozen + d
      PROVE  \A j \in Keys : balances'[j].frozen = balances[j].frozen + (IF j = k THEN d ELSE 0)
  BY <1>1, <1>3 DEF SetBalance
<1>4. CASE FreezeCall(k, c) /\ d = IF CanFreeze(balances, k, c) THEN c ELSE 0
  BY <1>2, <1>3, <1>4 DEF FreezeCall, Freeze
<1>5. CASE UnfreezeCall(k, c) /\ balances[k].frozen >= c /\ d = -c
  <2>1. CASE CanUnfreeze(balances, k, c)
    <3>1. balances' = SetBalance(balances, k, balances[k].available + c, balances[k].frozen - c)
      BY <1>5, <2>1 DEF UnfreezeCall, Unfreeze
    <3>2. balances[k].frozen - c = balances[k].frozen + d
      BY <1>1, <1>5
    <3>3. QED BY <1>3, <3>1, <3>2
  <2>2. CASE ~CanUnfreeze(balances, k, c)
    <3>1. balances' = balances /\ ~balances[k].known
      BY <1>5, <2>2 DEF UnfreezeCall, Unfreeze, CanUnfreeze
    <3>2. d = 0
      BY <1>1, <1>5, <3>1
    <3>3. QED BY <1>2, <3>1, <3>2
  <2>3. QED BY <2>1, <2>2
<1>6. CASE (AddCall(k, c) \/ SubCall(k, c)) /\ d = 0
  <2>1. \/ balances' = balances
        \/ \E a : balances' = SetBalance(balances, k, a, balances[k].frozen)
    BY <1>6 DEF AddCall, Add, SubCall, Sub
  <2>2. balances[k].frozen = balances[k].frozen + d
    BY <1>1, <1>6
  <2>3. QED BY <1>2, <1>3, <1>6, <2>1, <2>2
<1>7. QED BY <1>4, <1>5, <1>6

\* A step that freezes nothing, accepts nothing and changes no share.
LEMMA HeldStays ==
    ASSUME IInv, IInv', GoroutinesOK, GoroutinesOK', EngineOK, EngineOK', HeldTwice,
           UNCHANGED <<server, accepted>>, NEW t \in Clients,
           \A r \in Clients \ {t} : pc'[r] = pc[r] /\ req'[r] = req[r],
           \A u \in Users, s \in Sides :
              /\ Share(t, u, s, OnMarket)' = Share(t, u, s, OnMarket)
              /\ Share(t, u, s, OnAsset)' = Share(t, u, s, OnAsset),
           \A k \in Keys : balances'[k].frozen = balances[k].frozen
    PROVE  HeldTwice'
<1> SUFFICES ASSUME NEW v \in Users PROVE HeldTwice'
  BY DEF HeldTwice
<1>1. "bid" \in Sides
  BY DEF Sides
<1>2. \A u \in Users, s \in Sides :
         /\ Spent(u, s) + Moved(t, u, s, OnMarket) = 0
         /\ Spent(u, s) + Moved(t, u, s, OnAsset) = 0
  <2> SUFFICES ASSUME NEW u \in Users, NEW s \in Sides
               PROVE  /\ Spent(u, s) + Moved(t, u, s, OnMarket) = 0
                      /\ Spent(u, s) + Moved(t, u, s, OnAsset) = 0
    OBVIOUS
  <2>1. Spent(u, s) = 0
    <3>1. accepted[<<u, s>>] \in Nat
      BY DEF EngineOK
    <3>2. QED BY <3>1 DEF Spent
  <2>2. Moved(t, u, s, OnMarket) = 0 /\ Moved(t, u, s, OnAsset) = 0
    <3>1. Share(t, u, s, OnMarket) \in Nat /\ Share(t, u, s, OnAsset) \in Nat
      BY ShareIsNat
    <3>2. QED BY <3>1 DEF Moved
  <2>3. QED BY <2>1, <2>2
<1>3. \A k \in Keys : balances'[k].frozen = balances[k].frozen
          + (IF k = <<v, "market">> THEN 0 ELSE IF k = AssetKey(v, "bid") THEN 0 ELSE 0)
  <2>1. \A k \in Keys : balances[k].frozen \in Int
    BY DEF IInv, TypeOK, Account
  <2>2. QED BY <2>1
<1>4. UNCHANGED server
  OBVIOUS
<1>5. QED BY <1>1, <1>2, <1>3, <1>4, HeldFollows

\* Somewhere else than between a hold and an answer there is no share.
LEMMA NoShare ==
    ASSUME NEW t, pc[t] \notin OnMarket \/ req[t].kind \notin {"limit", "market"}
    PROVE  \A u, s : Share(t, u, s, OnMarket) = 0 /\ Share(t, u, s, OnAsset) = 0
  BY DEF Share, OnMarket, OnAsset
\* What the share of an order is, and what becomes of it when its goroutine goes on
\* or answers.
LEMMA OrdersShare ==
    ASSUME GoroutinesOK, NEW t \in Clients,
           pc[t] \in {"hold", "process", "undo", "settle"}
    PROVE  /\ req[t].user \in Users /\ req[t].side \in Sides /\ Cost(req[t]) \in Nat
           /\ MarketKey(req[t]) = <<req[t].user, "market">>
           /\ PaysWith(req[t]) = AssetKey(req[t].user, req[t].side)
           /\ MarketKey(req[t]) \in Keys /\ PaysWith(req[t]) \in Keys
           /\ \A u, s, places : Share(t, u, s, places) =
                 IF pc[t] \in places /\ u = req[t].user /\ s = req[t].side
                 THEN Cost(req[t]) ELSE 0
<1>1. req[t] \in Put /\ req[t].kind \in {"limit", "market"}
  BY KindTells DEF GoroutinesOK, PlaceInv, Fits
<1>2. QED BY <1>1, PutIsPayable DEF Share, MarketKey, PaysWith, AssetKey

\* See OrdersShare.
LEMMA GoesOn ==
    ASSUME GoroutinesOK, NEW t \in Clients, NEW place, Goto(t, place)
    PROVE  /\ req' = req /\ pc'[t] = place
           /\ \A r \in Clients \ {t} : pc'[r] = pc[r] /\ req'[r] = req[r]
  BY DEF Goto, GoroutinesOK

\* See OrdersShare.
LEMMA Answered ==
    ASSUME GoroutinesOK, NEW t \in Clients, Answer(t)
    PROVE  /\ pc'[t] = "idle"
           /\ \A r \in Clients \ {t} : pc'[r] = pc[r] /\ req'[r] = req[r]
           /\ \A u, s, places : Share(t, u, s, places)' = 0
<1>1. pc'[t] = "idle" /\ req'[t] = NoRequest
  BY DEF Answer, GoroutinesOK
<1>2. \A r \in Clients \ {t} : pc'[r] = pc[r] /\ req'[r] = req[r]
  BY DEF Answer, GoroutinesOK
<1>3. QED BY <1>1, <1>2 DEF Share, NoRequest

\* Whatever interleaves, what is frozen stays what the orders hold.
LEMMA NextKeepsHeld ==
    ASSUME IInv, IInv', GoroutinesOK, GoroutinesOK', EngineOK, EngineOK', HeldTwice,
           [RpcNext]_rpcVars
    PROVE  HeldTwice'
<1>a. /\ pc \in [Clients -> Places] /\ req \in [Clients -> Asked]
      /\ \A t \in Clients : Fits(req[t].kind, pc[t])
      /\ \A k \in Keys : balances[k].frozen \in Int
      /\ accepted \in [Users \X Sides -> Nat]
  BY DEF GoroutinesOK, PlaceInv, IInv, TypeOK, Account, EngineOK
<1>b. UNCHANGED server
  BY DEF RpcNext, Receive, Handle, Cron, ProcessesStops, CallsOnly, FindsPrice, HoldsInMarket,
         Processes, Undoes, Settles, FindsOrder, Cancels, FindsAgain, AddsStop, Checks, Marks,
         Changes, server, rpcVars
<1>1. ASSUME NEW t \in Clients, HoldsInMarket(t) PROVE HeldTwice'
  <2> DEFINE v == req[t].user
             z == req[t].side
             c == Cost(req[t])
             k == MarketKey(req[t])
  <2>1. pc[t] = "hold" /\ FreezeCall(k, c) /\ accepted' = accepted
    BY <1>1 DEF HoldsInMarket, At
  <2>2. /\ v \in Users /\ z \in Sides /\ c \in Nat /\ k = <<v, "market">> /\ k \in Keys
        /\ \A u, s, places : Share(t, u, s, places) =
              IF pc[t] \in places /\ u = v /\ s = z THEN c ELSE 0
    BY <2>1, OrdersShare
  <2>3. CASE CanFreeze(balances, k, c)
    <3>1. /\ req' = req /\ pc'[t] = "process"
          /\ \A r \in Clients \ {t} : pc'[r] = pc[r] /\ req'[r] = req[r]
      BY <1>1, <2>3, GoesOn DEF HoldsInMarket
    <3>2. \A u, s, places : Share(t, u, s, places)' =
              IF pc'[t] \in places /\ u = v /\ s = z THEN c ELSE 0
      <4>1. pc'[t] \in {"hold", "process", "undo", "settle"}
        BY <3>1
      <4>2. req'[t] = req[t]
        BY <3>1
      <4>3. req[t].kind \in {"limit", "market"}
        BY <1>a, <2>1 DEF Fits
      <4>4. QED BY <4>2, <4>3 DEF Share
    <3> HIDE DEF c, v, z
    <3>3. \A u \in Users, s \in Sides :
             /\ Spent(u, s) + Moved(t, u, s, OnMarket) = IF u = v /\ s = z THEN c ELSE 0
             /\ Spent(u, s) + Moved(t, u, s, OnAsset) = IF u = v /\ s = z THEN 0 ELSE 0
      <4>1. \A u \in Users, s \in Sides : Spent(u, s) = 0
        BY <1>a, <2>1 DEF Spent
      <4>2. \A u, s : /\ Share(t, u, s, OnMarket) = 0 /\ Share(t, u, s, OnAsset) = 0
                      /\ Share(t, u, s, OnMarket)' = IF u = v /\ s = z THEN c ELSE 0
                      /\ Share(t, u, s, OnAsset)' = 0
        BY <2>1, <2>2, <3>1, <3>2 DEF OnMarket, OnAsset
      <4>3. \A u, s : /\ Moved(t, u, s, OnMarket) = IF u = v /\ s = z THEN c ELSE 0
                      /\ Moved(t, u, s, OnAsset) = 0
        BY <2>2, <4>2 DEF Moved
      <4>4. QED BY <2>2, <4>1, <4>3
    <3>4. \A j \in Keys : balances'[j].frozen = balances[j].frozen + (IF j = k THEN c ELSE 0)
      <4> HIDE DEF k
      <4>1. QED BY <2>1, <2>2, <2>3, CallsFreeze
    <3>5. \A j \in Keys : balances'[j].frozen = balances[j].frozen
             + (IF j = <<v, "market">> THEN c ELSE IF j = AssetKey(v, z) THEN 0 ELSE 0)
      BY <2>2, <3>4
    <3>6. QED BY <1>b, <2>2, <3>1, <3>3, <3>5, HeldFollows
  <2>4. CASE ~CanFreeze(balances, k, c)
    <3>1. /\ \A r \in Clients \ {t} : pc'[r] = pc[r] /\ req'[r] = req[r]
          /\ \A u, s, places : Share(t, u, s, places)' = 0
      BY <1>1, <2>4, Answered DEF HoldsInMarket
    <3>2. \A u, s : Share(t, u, s, OnMarket) = 0 /\ Share(t, u, s, OnAsset) = 0
      BY <2>1, NoShare DEF OnMarket
    <3>3. \A j \in Keys : balances'[j].frozen = balances[j].frozen
      BY <2>1, <2>4 DEF FreezeCall, Freeze
    <3>4. QED BY <1>b, <2>1, <3>1, <3>2, <3>3, HeldStays
  <2>5. QED BY <2>3, <2>4
<1>2. ASSUME NEW t \in Clients, Processes(t) PROVE HeldTwice'
  <2> DEFINE v == req[t].user
             z == req[t].side
             c == Cost(req[t])
             k == PaysWith(req[t])
  <2>1. pc[t] = "process" /\ FreezeCall(k, c) /\ accepted' = accepted
    BY <1>2 DEF Processes, At
  <2>2. /\ v \in Users /\ z \in Sides /\ c \in Nat /\ k = AssetKey(v, z) /\ k \in Keys
        /\ \A u, s, places : Share(t, u, s, places) =
              IF pc[t] \in places /\ u = v /\ s = z THEN c ELSE 0
    BY <2>1, OrdersShare
  <2>3. /\ req' = req
        /\ \A r \in Clients \ {t} : pc'[r] = pc[r] /\ req'[r] = req[r]
        /\ pc'[t] \in IF CanFreeze(balances, k, c) THEN {"settle", "hung"} ELSE {"undo"}
    BY <1>2, GoesOn DEF Processes
  <2>4. \A u, s, places : Share(t, u, s, places)' =
            IF pc'[t] \in places /\ u = v /\ s = z THEN c ELSE 0
    <3>1. req'[t] = req[t]
      BY <2>3
    <3>2. req[t].kind \in {"limit", "market"}
      BY <1>a, <2>1 DEF Fits
    <3>3. QED BY <3>1, <3>2 DEF Share
  <2> HIDE DEF c, v, z
  <2>5. CASE CanFreeze(balances, k, c)
    <3>1. \A u \in Users, s \in Sides :
             /\ Spent(u, s) + Moved(t, u, s, OnMarket) = IF u = v /\ s = z THEN 0 ELSE 0
             /\ Spent(u, s) + Moved(t, u, s, OnAsset) = IF u = v /\ s = z THEN c ELSE 0
      <4>1. \A u \in Users, s \in Sides : Spent(u, s) = 0
        BY <1>a, <2>1 DEF Spent
      <4>2. \A u, s : /\ Share(t, u, s, OnMarket) = IF u = v /\ s = z THEN c ELSE 0
                      /\ Share(t, u, s, OnMarket)' = IF u = v /\ s = z THEN c ELSE 0
                      /\ Share(t, u, s, OnAsset) = 0
                      /\ Share(t, u, s, OnAsset)' = IF u = v /\ s = z THEN c ELSE 0
        BY <2>1, <2>2, <2>3, <2>4, <2>5 DEF OnMarket, OnAsset
      <4>3. \A u, s : /\ Moved(t, u, s, OnMarket) = 0
                      /\ Moved(t, u, s, OnAsset) = IF u = v /\ s = z THEN c ELSE 0
        BY <2>2, <4>2 DEF Moved
      <4>4. QED BY <2>2, <4>1, <4>3
    <3>2. \A j \in Keys : balances'[j].frozen = balances[j].frozen + (IF j = k THEN c ELSE 0)
      <4> HIDE DEF k
      <4>1. QED BY <2>1, <2>2, <2>5, CallsFreeze
    <3>3. \A j \in Keys : balances'[j].frozen = balances[j].frozen
             + (IF j = <<v, "market">> THEN 0 ELSE IF j = AssetKey(v, z) THEN c ELSE 0)
      <4>1. <<v, "market">> # AssetKey(v, z)
        BY <2>2, AccountsDiffer
      <4>2. QED BY <2>2, <3>2, <4>1
    <3>4. QED BY <1>b, <2>2, <2>3, <3>1, <3>3, HeldFollows
  <2>6. CASE ~CanFreeze(balances, k, c)
    <3>1. \A u, s : /\ Share(t, u, s, OnMarket)' = Share(t, u, s, OnMarket)
                    /\ Share(t, u, s, OnAsset)' = Share(t, u, s, OnAsset)
      BY <2>1, <2>2, <2>3, <2>4, <2>6 DEF OnMarket, OnAsset
    <3>2. \A j \in Keys : balances'[j].frozen = balances[j].frozen
      BY <2>1, <2>6 DEF FreezeCall, Freeze
    <3>3. QED BY <1>b, <2>1, <2>3, <3>1, <3>2, HeldStays
  <2>7. QED BY <2>5, <2>6
<1>3. ASSUME NEW t \in Clients, Undoes(t) PROVE HeldTwice'
  <2> DEFINE v == req[t].user
             z == req[t].side
             c == Cost(req[t])
             k == MarketKey(req[t])
  <2>1. pc[t] = "undo" /\ UnfreezeCall(k, c) /\ accepted' = accepted
    BY <1>3 DEF Undoes, At
  <2>2. /\ v \in Users /\ z \in Sides /\ c \in Nat /\ k = <<v, "market">> /\ k \in Keys
        /\ \A u, s, places : Share(t, u, s, places) =
              IF pc[t] \in places /\ u = v /\ s = z THEN c ELSE 0
    BY <2>1, OrdersShare
  <2>3. /\ \A r \in Clients \ {t} : pc'[r] = pc[r] /\ req'[r] = req[r]
        /\ \A u, s, places : Share(t, u, s, places)' = 0
    BY <1>3, Answered DEF Undoes
  <2>4. SUFFICES ASSUME serving PROVE HeldTwice'
    BY <1>b DEF server, HeldTwice
  <2> HIDE DEF c, v, z
  <2>5. \A u, s : /\ Share(t, u, s, OnMarket) = IF u = v /\ s = z THEN c ELSE 0
                  /\ Share(t, u, s, OnMarket)' = 0
                  /\ Share(t, u, s, OnAsset) = 0 /\ Share(t, u, s, OnAsset)' = 0
    BY <2>1, <2>2, <2>3 DEF OnMarket, OnAsset
  <2>6. balances[k].frozen >= c
    <3>1. balances[k].frozen =
              accepted[<<v, "bid">>] + Working(v, "bid", OnMarket)
                  + accepted[<<v, "ask">>] + Working(v, "ask", OnMarket)
      BY <2>2, <2>4 DEF HeldTwice
    <3>2. \A s \in Sides : accepted[<<v, s>>] \in Nat
      BY <1>a, <2>2
    <3>3. \A s \in Sides : /\ Working(v, s, OnMarket) \in Nat
                           /\ Share(t, v, s, OnMarket) <= Working(v, s, OnMarket)
      BY <2>3, OneMoves
    <3>4. Share(t, v, z, OnMarket) = c
      BY <2>5
    <3>5. /\ accepted[<<v, "bid">>] \in Nat /\ accepted[<<v, "ask">>] \in Nat
          /\ Working(v, "bid", OnMarket) \in Nat /\ Working(v, "ask", OnMarket) \in Nat
          /\ c <= Working(v, "bid", OnMarket) \/ c <= Working(v, "ask", OnMarket)
      BY <2>2, <3>2, <3>3, <3>4 DEF Sides
    <3>6. QED BY <2>2, <3>1, <3>5
  <2>7. \A u \in Users, s \in Sides :
           /\ Spent(u, s) + Moved(t, u, s, OnMarket) = IF u = v /\ s = z THEN -c ELSE 0
           /\ Spent(u, s) + Moved(t, u, s, OnAsset) = IF u = v /\ s = z THEN 0 ELSE 0
    <3>1. \A u \in Users, s \in Sides : Spent(u, s) = 0
      BY <1>a, <2>1 DEF Spent
    <3>2. \A u, s : /\ Moved(t, u, s, OnMarket) = IF u = v /\ s = z THEN -c ELSE 0
                    /\ Moved(t, u, s, OnAsset) = 0
      BY <2>2, <2>5 DEF Moved
    <3>3. QED BY <2>2, <3>1, <3>2
  <2>8. \A j \in Keys : balances'[j].frozen = balances[j].frozen + (IF j = k THEN -c ELSE 0)
    <3> HIDE DEF k
    <3>1. -c \in Int
      BY <2>2
    <3>2. QED BY <2>1, <2>2, <2>6, <3>1, CallsFreeze
  <2>9. \A j \in Keys : balances'[j].frozen = balances[j].frozen
           + (IF j = <<v, "market">> THEN -c ELSE IF j = AssetKey(v, z) THEN 0 ELSE 0)
    BY <2>2, <2>8
  <2> DEFINE d == -c
  <2>10. /\ d \in Int
         /\ \A u \in Users, s \in Sides :
              /\ Spent(u, s) + Moved(t, u, s, OnMarket) = IF u = v /\ s = z THEN d ELSE 0
              /\ Spent(u, s) + Moved(t, u, s, OnAsset) = IF u = v /\ s = z THEN 0 ELSE 0
         /\ \A j \in Keys : balances'[j].frozen = balances[j].frozen
              + (IF j = <<v, "market">> THEN d ELSE IF j = AssetKey(v, z) THEN 0 ELSE 0)
    BY <2>2, <2>7, <2>9
  <2> HIDE DEF d
  <2>11. QED BY <1>b, <2>2, <2>3, <2>10, HeldFollows
<1>4. ASSUME NEW t \in Clients, Settles(t) PROVE HeldTwice'
  <2> DEFINE v == req[t].user
             z == req[t].side
             c == Cost(req[t])
             k == MarketKey(req[t])
  <2>1. pc[t] = "settle" /\ UnfreezeCall(k, c - c)
        /\ accepted' = [accepted EXCEPT ![<<v, z>>] = @ + c]
    BY <1>4 DEF Settles, At
  <2>2. /\ v \in Users /\ z \in Sides /\ c \in Nat /\ k \in Keys
        /\ \A u, s, places : Share(t, u, s, places) =
              IF pc[t] \in places /\ u = v /\ s = z THEN c ELSE 0
    BY <2>1, OrdersShare
  <2>3. /\ \A r \in Clients \ {t} : pc'[r] = pc[r] /\ req'[r] = req[r]
        /\ \A u, s, places : Share(t, u, s, places)' = 0
    BY <1>4, Answered DEF Settles
  <2> HIDE DEF c, v, z, k
  <2>4. \A u \in Users, s \in Sides : Spent(u, s) = IF u = v /\ s = z THEN c ELSE 0
    <3>1. ASSUME NEW u \in Users, NEW s \in Sides
          PROVE  Spent(u, s) = IF u = v /\ s = z THEN c ELSE 0
      <4>1. accepted[<<u, s>>] \in Nat
        BY <1>a
      <4>2. CASE u = v /\ s = z
        <5>1. accepted'[<<u, s>>] = accepted[<<u, s>>] + c
          BY <1>a, <2>1, <2>2, <4>2
        <5>2. QED BY <2>2, <4>1, <4>2, <5>1 DEF Spent
      <4>3. CASE ~(u = v /\ s = z)
        <5>1. accepted'[<<u, s>>] = accepted[<<u, s>>]
          BY <1>a, <2>1, <4>3
        <5>2. QED BY <4>1, <4>3, <5>1 DEF Spent
      <4>4. QED BY <4>2, <4>3
    <3>2. QED BY <3>1
  <2>5. \A u, s : /\ Moved(t, u, s, OnMarket) = IF u = v /\ s = z THEN -c ELSE 0
                  /\ Moved(t, u, s, OnAsset) = IF u = v /\ s = z THEN -c ELSE 0
    <3>1. \A u, s : /\ Share(t, u, s, OnMarket) = IF u = v /\ s = z THEN c ELSE 0
                    /\ Share(t, u, s, OnAsset) = IF u = v /\ s = z THEN c ELSE 0
                    /\ Share(t, u, s, OnMarket)' = 0 /\ Share(t, u, s, OnAsset)' = 0
      BY <2>1, <2>2, <2>3 DEF OnMarket, OnAsset
    <3>2. QED BY <2>2, <3>1 DEF Moved
  <2>6. \A u \in Users, s \in Sides :
           /\ Spent(u, s) + Moved(t, u, s, OnMarket) = IF u = v /\ s = z THEN 0 ELSE 0
           /\ Spent(u, s) + Moved(t, u, s, OnAsset) = IF u = v /\ s = z THEN 0 ELSE 0
    BY <2>2, <2>4, <2>5
  <2>7. \A j \in Keys : balances'[j].frozen = balances[j].frozen + (IF j = k THEN 0 ELSE 0)
    <3>1. c - c = 0
      BY <2>2
    <3>2. UnfreezeCall(k, 0)
      BY <2>1, <3>1, Zenon
    <3>3. balances[k].frozen >= 0
      BY <2>2 DEF IInv, NeverOverdrawn, AccountOK
    <3>4. QED BY <2>2, <3>2, <3>3, CallsFreeze
  <2>8. \A j \in Keys : balances'[j].frozen = balances[j].frozen
           + (IF j = <<v, "market">> THEN 0 ELSE IF j = AssetKey(v, z) THEN 0 ELSE 0)
    BY <2>7
  <2>9. QED BY <1>b, <2>2, <2>3, <2>6, <2>8, HeldFollows
<1>5. ASSUME NEW t \in Clients, Changes(t) PROVE HeldTwice'
  <2> DEFINE k == <<req[t].user, req[t].asset>>
             c == req[t].change
  <2>1. pc[t] = "change" /\ accepted' = accepted
        /\ ((c > 0 /\ AddCall(k, c)) \/ (c < 0 /\ SubCall(k, -c)))
    BY <1>5 DEF Changes, At
  <2>2. k \in Keys /\ c \in Int
    <3>1. req[t] \in Update
      BY <1>a, <2>1, KindTells DEF Fits
    <3>2. QED BY <3>1, KeysAssumption DEF Update
  <2>3. /\ \A r \in Clients \ {t} : pc'[r] = pc[r] /\ req'[r] = req[r]
        /\ \A u, s, places : Share(t, u, s, places)' = 0
    BY <1>5, Answered DEF Changes
  <2>4. \A u, s : Share(t, u, s, OnMarket) = 0 /\ Share(t, u, s, OnAsset) = 0
    BY <2>1, NoShare DEF OnMarket
  <2> HIDE DEF k, c
  <2>5. \A j \in Keys : balances'[j].frozen = balances[j].frozen + (IF j = k THEN 0 ELSE 0)
    <3>1. PICK a \in Nat : AddCall(k, a) \/ SubCall(k, a)
      <4>1. (c > 0 => c \in Nat) /\ (c < 0 => -c \in Nat)
        BY <2>2
      <4>2. QED BY <2>1, <4>1
    <3>2. k \in Keys /\ a \in Nat /\ 0 \in Int
      BY <2>2
    <3>3. QED BY <3>1, <3>2, CallsFreeze
  <2>6. \A j \in Keys : balances'[j].frozen = balances[j].frozen
    BY <1>a, <2>5
  <2>7. QED BY <1>b, <2>1, <2>3, <2>4, <2>6, HeldStays
<1>6. ASSUME NEW t \in Clients, UNCHANGED <<balances, accepted>>,
             \A r \in Clients \ {t} : pc'[r] = pc[r] /\ req'[r] = req[r],
             pc[t] \notin OnMarket \/ req[t].kind \notin {"limit", "market"},
             pc'[t] \notin OnMarket \/ req'[t].kind \notin {"limit", "market"}
      PROVE  HeldTwice'
  <2>1. \A u, s : Share(t, u, s, OnMarket) = 0 /\ Share(t, u, s, OnAsset) = 0
    BY <1>6, NoShare
  <2>2. \A u, s : Share(t, u, s, OnMarket)' = 0 /\ Share(t, u, s, OnAsset)' = 0
    BY <1>6 DEF Share, OnMarket, OnAsset
  <2>3. QED BY <1>b, <1>6, <2>1, <2>2, HeldStays
<1>7. ASSUME NEW t \in Clients, NEW r \in Requests, Receive(t, r) PROVE HeldTwice'
  <2>1. r.kind \in {"limit", "market", "stop", "cancel", "update"}
    BY RequestsAssumption DEF RequestSet, Put, Cancel, Update
  <2>2. First[r.kind] \notin OnMarket
    BY <2>1 DEF First, OnMarket
  <2>3. pc[t] = "idle" /\ pc' = [pc EXCEPT ![t] = First[r.kind]] /\ req' = [req EXCEPT ![t] = r]
        /\ UNCHANGED <<balances, accepted>>
    BY <1>7 DEF Receive, At, vars
  <2>4. pc[t] \notin OnMarket /\ pc'[t] \notin OnMarket
    BY <1>a, <2>2, <2>3 DEF OnMarket
  <2>5. \A u \in Clients \ {t} : pc'[u] = pc[u] /\ req'[u] = req[u]
    BY <1>a, <2>3
  <2>6. QED BY <1>6, <2>3, <2>4, <2>5
<1>8. ASSUME NEW t \in Clients,
             FindsPrice(t) \/ FindsOrder(t) \/ Cancels(t) \/ FindsAgain(t) \/ AddsStop(t)
                \/ Checks(t) \/ Marks(t)
      PROVE  HeldTwice'
  <2>1. UNCHANGED <<balances, accepted>>
    BY <1>8 DEF FindsPrice, FindsOrder, Cancels, FindsAgain, AddsStop, Checks, Marks, vars
  <2>2. pc[t] \notin OnMarket
    BY <1>8 DEF FindsPrice, FindsOrder, Cancels, FindsAgain, AddsStop, Checks, Marks, At, OnMarket
  <2>3. CASE Answer(t)
    <3>1. pc'[t] \notin OnMarket
      BY <2>3, Answered DEF OnMarket
    <3>2. QED BY <1>6, <2>1, <2>2, <2>3, <3>1, Answered
  <2>4. CASE ~Answer(t)
    <3>1. \A r \in Clients \ {t} : pc'[r] = pc[r] /\ req'[r] = req[r]
      BY <1>8, <1>a, <2>4 DEF FindsPrice, FindsOrder, Cancels, FindsAgain, AddsStop, Checks, Marks, Goto
    <3>2. pc'[t] \notin OnMarket \/ req'[t].kind \notin {"limit", "market"}
      <4>1. CASE Cancels(t)
        BY <1>a, <4>1 DEF Cancels, At, Goto, Fits
      <4>2. CASE ~Cancels(t)
        BY <1>8, <1>a, <2>4, <4>2
        DEF FindsPrice, FindsOrder, FindsAgain, AddsStop, Checks, Marks, Goto, OnMarket
      <4>3. QED BY <4>1, <4>2
    <3>3. QED BY <1>6, <2>1, <2>2, <3>1, <3>2
  <2>5. QED BY <2>3, <2>4
<1>9. CASE Cron \/ UNCHANGED rpcVars
  <2>1. UNCHANGED <<serving, balances, accepted, pc, req>>
    BY <1>9 DEF Cron, ProcessesStops, rpcVars, vars, server
  <2>2. \A u, s, places : Working(u, s, places)' = Working(u, s, places)
    BY <2>1 DEF Working, Share
  <2>3. QED BY <2>1, <2>2 DEF HeldTwice
<1>10. CASE CallsOnly
  BY <1>10 DEF CallsOnly, server, HeldTwice
<1>11. QED BY <1>1, <1>2, <1>3, <1>4, <1>5, <1>7, <1>8, <1>9, <1>10 DEF RpcNext, Handle

\* At the start nothing is frozen and no order is known.
LEMMA StartIsAccounted == RpcInit => OrdersAccounted
<1> SUFFICES ASSUME RpcInit PROVE OrdersAccounted
  OBVIOUS
<1>1. StopsRunOnce
  BY DEF RpcInit, StopsRunOnce
<1>2. \A u, s, places : Working(u, s, places) = 0
  <2> SUFFICES ASSUME NEW u, NEW s, NEW places PROVE Working(u, s, places) = 0
    OBVIOUS
  <2> DEFINE f == [t \in Clients |-> Share(t, u, s, places)]
  <2>1. \A t \in Clients : f[t] = 0
    BY DEF RpcInit, Share, NoRequest
  <2> HIDE DEF f
  <2>2. SumFunctionOnSet(f, Clients) = 0
    BY <2>1, ClientsAssumption, NothingToSum
  <2>3. QED BY <2>2 DEF f, Working
<1>3. serving => \A k \in Keys : balances[k].frozen = 0
  BY DEF RpcInit, FromSlice, NoAccount, Loaded
<1>4. \A u \in Users, s \in Sides :
         /\ accepted[<<u, s>>] = 0
         /\ <<u, "market">> \in Keys /\ PaysWith([user |-> u, side |-> s]) \in Keys
  BY AccountsDiffer DEF RpcInit, AssetKey
<1>5. HeldTwice
  <2> SUFFICES ASSUME serving, NEW u \in Users
               PROVE  /\ balances[<<u, "market">>].frozen =
                            accepted[<<u, "bid">>] + Working(u, "bid", OnMarket)
                                + accepted[<<u, "ask">>] + Working(u, "ask", OnMarket)
                      /\ \A s \in Sides :
                            balances[PaysWith([user |-> u, side |-> s])].frozen =
                                accepted[<<u, s>>] + Working(u, s, OnAsset)
    BY DEF HeldTwice
  <2>1. balances[<<u, "market">>].frozen = 0 /\ accepted[<<u, "bid">>] = 0
        /\ accepted[<<u, "ask">>] = 0
    BY <1>3, <1>4 DEF Sides
  <2>2. \A s \in Sides : /\ balances[PaysWith([user |-> u, side |-> s])].frozen = 0
                         /\ accepted[<<u, s>>] = 0
    BY <1>3, <1>4
  <2>3. QED BY <1>2, <2>1, <2>2
<1>6. QED BY <1>1, <1>5 DEF OrdersAccounted

\* For any number of requests at once, refused or accepted in any order: what is
\* frozen is what the orders under way and the accepted ones hold, in both accounts,
\* and every stop order waits or ran once.
THEOREM OrdersStayAccounted == RpcSpec => []OrdersAccounted
<1>1. RpcInit => RpcInv
  BY RpcInitHolds, StartIsAccounted DEF RpcInv
<1>2. RpcInv /\ [RpcNext]_rpcVars => RpcInv'
  <2> SUFFICES ASSUME RpcInv, [RpcNext]_rpcVars PROVE RpcInv'
    OBVIOUS
  <2>1. IInv' /\ GoroutinesOK' /\ EngineOK' /\ LateInv'
    BY NextKeepsTable, NextKeepsGoroutines, NextKeepsEngine, NextKeepsLate DEF RpcInv
  <2>2. HeldTwice'
    BY <2>1, NextKeepsHeld DEF RpcInv, OrdersAccounted
  <2>3. StopsRunOnce'
    BY NextKeepsStops DEF RpcInv, OrdersAccounted
  <2>4. QED BY <2>1, <2>2, <2>3 DEF RpcInv, OrdersAccounted
<1>3. RpcInv => OrdersAccounted
  BY DEF RpcInv
<1>4. QED BY <1>1, <1>2, <1>3, PTL DEF RpcSpec
-----------------------------------------------------------------------------
(* The heaps of the book *)

\* The heap array of prices p: no entry goes before its parent.
IsHeap(p, q) == \A i \in 2 .. Len(q) : p[q[i]] <= p[q[i \div 2]]
\* The copies of an entry.
PlacesOf(q, e) == {i \in 1 .. Len(q) : q[i] = e}
CopiesIn(q, e) == Cardinality(PlacesOf(q, e))
\* q and r have the same entries, in another order.
SameBag(q, r) == Len(q) = Len(r) /\ \A e : CopiesIn(q, e) = CopiesIn(r, e)
\* A heap but for the entry at k, that may go before its parent, ...
AllButUp(p, q, k) ==
    /\ \A i \in 2 .. Len(q) : i # k => p[q[i]] <= p[q[i \div 2]]
    /\ k > 1 => \A i \in 2 .. Len(q) : i \div 2 = k => p[q[i]] <= p[q[k \div 2]]
\* ... or go after a child.
AllButDown(p, q, k) ==
    /\ \A i \in 2 .. Len(q) : i \div 2 # k => p[q[i]] <= p[q[i \div 2]]
    /\ k > 1 => \A i \in 2 .. Len(q) : i \div 2 = k => p[q[i]] <= p[q[k \div 2]]
\* Every entry of the array has a price.
Priced(p, q) == \A i \in 1 .. Len(q) : p[q[i]] \in Nat

\* The parent of a place of a heap comes before it, and it is one of its children.
LEMMA Halves ==
    ASSUME NEW i \in Nat, i > 1
    PROVE  /\ i \div 2 \in Nat /\ i \div 2 >= 1 /\ i \div 2 < i
           /\ i = 2 * (i \div 2) \/ i = 2 * (i \div 2) + 1
OBVIOUS

\* An array has finitely many places, so the copies of an entry can be counted.
LEMMA PlacesAreFinite ==
    ASSUME NEW S, NEW q \in Seq(S), NEW e
    PROVE  IsFiniteSet(PlacesOf(q, e)) /\ CopiesIn(q, e) \in Nat
<1>1. IsFiniteSet(1 .. Len(q))
  BY FS_Interval
<1>2. PlacesOf(q, e) \in SUBSET (1 .. Len(q))
  BY DEF PlacesOf
<1>3. QED BY <1>1, <1>2, FS_Subset, FS_CardinalityType DEF CopiesIn

\* Swapping two entries.
LEMMA SwapSwaps ==
    ASSUME NEW S, NEW q \in Seq(S), NEW i \in 1 .. Len(q), NEW j \in 1 .. Len(q)
    PROVE  /\ SwapAt(q, i, j) \in Seq(S) /\ Len(SwapAt(q, i, j)) = Len(q)
           /\ SwapAt(q, i, j)[i] = q[j] /\ SwapAt(q, i, j)[j] = q[i]
           /\ \A k \in 1 .. Len(q) : k # i /\ k # j => SwapAt(q, i, j)[k] = q[k]
<1>1. SwapAt(q, i, j) = [q EXCEPT ![i] = q[j], ![j] = q[i]]
  BY DEF SwapAt
<1>2. q \in [1 .. Len(q) -> S] /\ Len(q) \in Nat
  OBVIOUS
<1>3. q[i] \in S /\ q[j] \in S
  OBVIOUS
<1>4. PICK t : t = SwapAt(q, i, j)
  OBVIOUS
<1>5. t \in [1 .. Len(q) -> S]
  BY <1>1, <1>2, <1>3, <1>4
<1>6. t \in Seq(S) /\ Len(t) = Len(q)
  BY <1>2, <1>5
<1>7. t[i] = q[j] /\ t[j] = q[i] /\ \A k \in 1 .. Len(q) : k # i /\ k # j => t[k] = q[k]
  BY <1>1, <1>2, <1>4
<1>8. QED BY <1>4, <1>6, <1>7

\* A swap moves entries about: each has as many copies as before.
LEMMA SwapKeepsBag ==
    ASSUME NEW S, NEW q \in Seq(S), NEW i \in 1 .. Len(q), NEW j \in 1 .. Len(q)
    PROVE  SameBag(SwapAt(q, i, j), q)
<1>1. PICK t : t = SwapAt(q, i, j)
  OBVIOUS
<1>2. /\ t \in Seq(S) /\ Len(t) = Len(q) /\ t[i] = q[j] /\ t[j] = q[i]
      /\ \A k \in 1 .. Len(q) : k # i /\ k # j => t[k] = q[k]
  BY <1>1, SwapSwaps
<1>3. ASSUME NEW e PROVE CopiesIn(t, e) = CopiesIn(q, e)
  <2> DEFINE C == {k \in 1 .. Len(q) : k # i /\ k # j /\ q[k] = e}
  <2>1. IsFiniteSet(C) /\ i \notin C /\ j \notin C
    <3>1. C \in SUBSET (1 .. Len(q)) /\ i \notin C /\ j \notin C
      OBVIOUS
    <3>2. IsFiniteSet(1 .. Len(q))
      BY FS_Interval
    <3> HIDE DEF C
    <3>3. QED BY <3>1, <3>2, FS_Subset
  <2>2. CASE i = j \/ (q[i] = e <=> q[j] = e)
    <3>1. PlacesOf(t, e) = PlacesOf(q, e)
      BY <1>2, <2>2 DEF PlacesOf
    <3>2. QED BY <3>1 DEF CopiesIn
  <2>3. CASE i # j /\ q[i] = e /\ q[j] # e
    <3>1. PlacesOf(q, e) = C \union {i} /\ PlacesOf(t, e) = C \union {j}
      BY <1>2, <2>3 DEF PlacesOf
    <3> HIDE DEF C
    <3>2. Cardinality(C \union {i}) = Cardinality(C) + 1 /\ Cardinality(C \union {j}) = Cardinality(C) + 1
      BY <2>1, FS_AddElement
    <3>3. QED BY <3>1, <3>2 DEF CopiesIn
  <2>4. CASE i # j /\ q[i] # e /\ q[j] = e
    <3>1. PlacesOf(q, e) = C \union {j} /\ PlacesOf(t, e) = C \union {i}
      BY <1>2, <2>4 DEF PlacesOf
    <3> HIDE DEF C
    <3>2. Cardinality(C \union {i}) = Cardinality(C) + 1 /\ Cardinality(C \union {j}) = Cardinality(C) + 1
      BY <2>1, FS_AddElement
    <3>3. QED BY <3>1, <3>2 DEF CopiesIn
  <2>5. QED BY <2>2, <2>3, <2>4
<1>4. QED BY <1>1, <1>2, <1>3 DEF SameBag

-----------------------------------------------------------------------------
\* The climb has a value wherever it starts: the recursion of HeapUp is over the
\* places before it.
LEMMA UpUnfolds ==
    ASSUME NEW p, NEW q, Len(q) \in Nat
    PROVE  \E f : /\ \A j : HeapUp(p, q, j) = f[j][q]
                 /\ \A k \in 1 .. Len(q), s \in Arrays(q) :
                       f[k][s] = IF k > 1 /\ Less(p, s, k, k \div 2)
                                 THEN f[k \div 2][SwapAt(s, k, k \div 2)] ELSE s
<1> DEFINE N == Len(q)
           A == Arrays(q)
           Step(f, k) == [s \in A |-> IF k > 1 /\ Less(p, s, k, k \div 2)
                                      THEN f[k \div 2][SwapAt(s, k, k \div 2)] ELSE s]
           Table(f, m) == f = [k \in 1 .. m |-> Step(f, k)]
           Bad == {m \in 0 .. N : ~ \E f : Table(f, m)}
<1>1. ASSUME Bad # {} PROVE FALSE
  <2>1. PICK m \in Bad : \A j \in Bad : m <= j
    <3>1. Bad \in SUBSET Nat
      OBVIOUS
    <3> HIDE DEF Bad
    <3>2. QED BY <1>1, <3>1, SmallestNumber
  <2>2. m # 0
    <3> DEFINE g == [k \in 1 .. 0 |-> q]
    <3>1. Table(g, 0)
      OBVIOUS
    <3> HIDE DEF g, Table
    <3>2. QED BY <3>1
  <2>3. m \in Nat /\ m - 1 \in 0 .. N /\ m - 1 \notin Bad /\ m \in 1 .. N
    <3>1. m \in 0 .. N
      OBVIOUS
    <3> HIDE DEF N, Bad
    <3>2. N \in Nat
      BY DEF N
    <3>3. m \in Nat /\ m - 1 \in 0 .. N /\ ~(m <= m - 1) /\ m \in 1 .. N
      BY <2>2, <3>1, <3>2
    <3>4. QED BY <2>1, <3>3
  <2>4. PICK f : Table(f, m - 1)
    BY <2>3
  <2> DEFINE g == [k \in 1 .. m |-> IF k = m THEN Step(f, m) ELSE f[k]]
  <2>5. ASSUME NEW k \in 1 .. m PROVE g[k] = Step(g, k)
    <3>1. g[k] = Step(f, k)
      <4>1. CASE k = m
        BY <4>1
      <4>2. CASE k # m
        <5>1. k \in 1 .. m - 1
          BY <2>3, <4>2
        <5>2. QED BY <2>4, <4>2, <5>1
      <4>3. QED BY <4>1, <4>2
    <3>2. k > 1 => g[k \div 2] = f[k \div 2]
      <4>1. k > 1 => k \div 2 \in 1 .. m /\ k \div 2 # m
        BY <2>3, Halves
      <4>2. QED BY <4>1
    <3> HIDE DEF g
    <3>3. Step(f, k) = Step(g, k)
      BY <3>2
    <3> HIDE DEF Step
    <3>4. QED BY <3>1, <3>3
  <2>6. g = [k \in 1 .. m |-> g[k]]
    OBVIOUS
  <2> HIDE DEF g, Step
  <2>7. Table(g, m)
    BY <2>5, <2>6
  <2>8. QED BY <2>1, <2>7
<1>2. N \in 0 .. N
  OBVIOUS
<1>3. \E f : Table(f, N)
  <2> HIDE DEF Table, N
  <2>1. QED BY <1>1, <1>2
<1> DEFINE h == CHOOSE f : Table(f, N)
<1>4. \A j : HeapUp(p, q, j) = h[j][q]
  BY DEF HeapUp
<1>5. Table(h, N)
  <2> HIDE DEF Table
  <2>1. QED BY <1>3
<1> HIDE DEF h
<1>6. ASSUME NEW k \in 1 .. Len(q), NEW s \in Arrays(q)
      PROVE  h[k][s] = IF k > 1 /\ Less(p, s, k, k \div 2) THEN h[k \div 2][SwapAt(s, k, k \div 2)] ELSE s
  <2>1. h[k] = Step(h, k)
    <3> HIDE DEF Step
    <3>1. QED BY <1>5
  <2>2. QED BY <2>1
<1>7. QED BY <1>4, <1>6

\* The child that may climb lies behind its parent.
LEMMA ChildrenComeLater ==
    ASSUME NEW p, NEW q, NEW k \in Nat \ {0}
    PROVE  FirstChild(p, q, k) \in Nat /\ FirstChild(p, q, k) > k
BY DEF FirstChild

\* So has the sinking: its recursion is over the places behind.
LEMMA DownUnfolds ==
    ASSUME NEW p, NEW q, Len(q) \in Nat
    PROVE  \E f : /\ \A i : HeapDown(p, q, i) = f[i][q]
                 /\ \A k \in 1 .. Len(q) + 1, s \in Arrays(q) :
                       f[k][s] = LET j == FirstChild(p, s, k)
                                 IN  IF j <= Len(q) /\ Less(p, s, j, k) THEN f[j][SwapAt(s, k, j)] ELSE s
<1> DEFINE N == Len(q)
           A == Arrays(q)
           Sunk(f, k, s) == LET j == FirstChild(p, s, k)
                            IN  IF j <= Len(q) /\ Less(p, s, j, k) THEN f[j][SwapAt(s, k, j)] ELSE s
           Step(f, k) == [s \in A |-> Sunk(f, k, s)]
           Table(f, m) == f = [k \in N + 2 - m .. N + 1 |-> Step(f, k)]
           Bad == {m \in 0 .. N + 1 : ~ \E f : Table(f, m)}
<1>1. ASSUME Bad # {} PROVE FALSE
  <2>1. PICK m \in Bad : \A j \in Bad : m <= j
    <3>1. Bad \in SUBSET Nat
      OBVIOUS
    <3> HIDE DEF Bad
    <3>2. QED BY <1>1, <3>1, SmallestNumber
  <2>2. m # 0
    <3> DEFINE g == [k \in N + 2 - 0 .. N + 1 |-> q]
    <3>1. N + 2 - 0 .. N + 1 = {}
      OBVIOUS
    <3>2. Table(g, 0)
      BY <3>1
    <3> HIDE DEF g, Table
    <3>3. QED BY <3>2
  <2>3. /\ m \in Nat /\ N \in Nat /\ m - 1 \in 0 .. N + 1 /\ m - 1 \notin Bad /\ N + 2 - m \in 1 .. N + 1
        /\ \A k \in N + 2 - m .. N + 1 : k = N + 2 - m \/ k \in N + 2 - (m - 1) .. N + 1
        /\ \A k \in N + 2 - (m - 1) .. N + 1 : k \in N + 2 - m .. N + 1 /\ k # N + 2 - m
        /\ \A k \in N + 2 - m .. N + 1, j \in Nat : j > k /\ j <= N => j \in N + 2 - (m - 1) .. N + 1
    <3>1. m \in 0 .. N + 1
      OBVIOUS
    <3> HIDE DEF N, Bad
    <3>2. N \in Nat
      BY DEF N
    <3>3. m \in Nat /\ m - 1 \in 0 .. N + 1 /\ ~(m <= m - 1) /\ N + 2 - m \in 1 .. N + 1
      BY <2>2, <3>1, <3>2
    <3>4. m - 1 \notin Bad
      BY <2>1, <3>3
    <3>5. QED BY <3>2, <3>3, <3>4
  <2>4. PICK f : Table(f, m - 1)
    BY <2>3
  <2> DEFINE g == [k \in N + 2 - m .. N + 1 |-> IF k = N + 2 - m THEN Step(f, k) ELSE f[k]]
  <2>5. ASSUME NEW k \in N + 2 - m .. N + 1 PROVE g[k] = Step(g, k)
    <3>1. g[k] = Step(f, k)
      <4>1. CASE k = N + 2 - m
        BY <4>1
      <4>2. CASE k # N + 2 - m
        <5>1. k \in N + 2 - (m - 1) .. N + 1
          BY <2>3, <4>2
        <5>2. f[k] = Step(f, k)
          <6> HIDE DEF Step, N
          <6>1. QED BY <2>4, <5>1
        <5>3. QED BY <4>2, <5>2
      <4>3. QED BY <4>1, <4>2
    <3>2. ASSUME NEW s \in A PROVE Sunk(f, k, s) = Sunk(g, k, s)
      <4>1. PICK j : j = FirstChild(p, s, k)
        OBVIOUS
      <4>2. k \in Nat \ {0}
        BY <2>3
      <4>3. j \in Nat /\ j > k
        BY <4>1, <4>2, ChildrenComeLater
      <4>4. j <= N => g[j] = f[j]
        <5>1. j <= N => j \in N + 2 - m .. N + 1 /\ j # N + 2 - m
          BY <2>3, <4>3
        <5>2. QED BY <5>1
      <4> HIDE DEF g
      <4>5. QED BY <4>1, <4>4
    <3> HIDE DEF g, Sunk
    <3>3. Step(f, k) = Step(g, k)
      BY <3>2
    <3> HIDE DEF Step
    <3>4. QED BY <3>1, <3>3
  <2>6. g = [k \in N + 2 - m .. N + 1 |-> g[k]]
    OBVIOUS
  <2> HIDE DEF g, Step
  <2>7. Table(g, m)
    BY <2>5, <2>6
  <2>8. QED BY <2>1, <2>7
<1>2. N + 1 \in 0 .. N + 1 /\ N + 2 - (N + 1) = 1
  OBVIOUS
<1>3. \E f : f = [k \in 1 .. N + 1 |-> Step(f, k)]
  <2>1. \E f : Table(f, N + 1)
    <3> HIDE DEF Table, N
    <3>1. QED BY <1>1, <1>2
  <2> HIDE DEF Step, N
  <2>2. QED BY <1>2, <2>1
<1> DEFINE h == CHOOSE f : f = [k \in 1 .. N + 1 |-> Step(f, k)]
<1>4. \A i : HeapDown(p, q, i) = h[i][q]
  BY DEF HeapDown
<1>5. h = [k \in 1 .. N + 1 |-> Step(h, k)]
  <2> HIDE DEF Step, N
  <2>1. QED BY <1>3
<1> HIDE DEF h
<1>6. ASSUME NEW k \in 1 .. Len(q) + 1, NEW s \in Arrays(q) PROVE h[k][s] = Sunk(h, k, s)
  <2>1. h[k] = Step(h, k)
    <3> HIDE DEF Step
    <3>1. QED BY <1>5
  <2> HIDE DEF Sunk
  <2>2. QED BY <2>1
<1>7. QED BY <1>4, <1>6

\* A climb by one place moves the entry that may go before its parent up by one.
LEMMA UpStep ==
    ASSUME NEW S, NEW q \in Seq(S), NEW p, Priced(p, q), NEW k \in 1 .. Len(q), k > 1,
           NEW h \in 1 .. Len(q), h = k \div 2, AllButUp(p, q, k), p[q[k]] > p[q[h]]
    PROVE  AllButUp(p, SwapAt(q, k, h), h)
<1>0. h = k \div 2
  OBVIOUS
<1>1. Len(q) \in Nat /\ k \in Nat /\ h \in Nat /\ h >= 1 /\ h < k /\ h \in 1 .. Len(q) /\ k \in 1 .. Len(q)
  BY <1>0, Halves
<1>2. PICK t : t = SwapAt(q, k, h)
  OBVIOUS
<1>3. /\ Len(t) = Len(q) /\ t[k] = q[h] /\ t[h] = q[k]
      /\ \A i \in 1 .. Len(q) : i # k /\ i # h => t[i] = q[i]
  <2>1. /\ Len(SwapAt(q, k, h)) = Len(q) /\ SwapAt(q, k, h)[k] = q[h] /\ SwapAt(q, k, h)[h] = q[k]
        /\ \A i \in 1 .. Len(q) : i # k /\ i # h => SwapAt(q, k, h)[i] = q[i]
    BY ONLY k \in 1 .. Len(q), h \in 1 .. Len(q), q \in Seq(S), SwapSwaps
  <2>2. QED BY <1>2, <2>1
<1>4. \A i \in 1 .. Len(q) : p[q[i]] \in Nat
  BY DEF Priced
<1>5. \A i \in 2 .. Len(q) : /\ i \div 2 \in 1 .. Len(q) /\ i \div 2 < i /\ i \in 1 .. Len(q)
  BY <1>1, Halves
<1>6. ASSUME NEW i \in 2 .. Len(q), i # h PROVE p[t[i]] <= p[t[i \div 2]]
  <2>0. PICK g : g = i \div 2
    OBVIOUS
  <2>1. g \in 1 .. Len(q) /\ g < i /\ i \in 1 .. Len(q)
    BY <2>0, <1>5
  <2>2. CASE i = k
    <3>1. g = h
      BY <2>2, <2>0, <1>0
    <3>2. p[q[h]] <= p[q[k]]
      BY <1>0, <1>1, <1>4
    <3>3. QED BY <3>1, <3>2, <2>2, <1>3, <2>0
  <2>3. CASE i # k /\ g = k
    <3>1. p[q[i]] <= p[q[h]]
      BY <1>0, <1>1, <2>0, <2>3 DEF AllButUp
    <3>2. t[i] = q[i] /\ t[g] = q[h]
      BY <1>1, <1>3, <2>1, <2>3
    <3>3. QED BY <3>1, <3>2, <2>0
  <2>4. CASE i # k /\ g = h
    <3>1. p[q[i]] <= p[q[h]]
      BY <2>0, <2>4 DEF AllButUp
    <3>2. t[i] = q[i] /\ t[g] = q[k]
      BY <1>3, <2>1, <2>4
    <3>3. p[q[i]] <= p[q[k]]
      BY <3>1, <1>0, <1>1, <1>4, <2>1
    <3>4. QED BY <3>2, <3>3, <2>0
  <2>5. CASE i # k /\ g # k /\ g # h
    <3>1. p[q[i]] <= p[q[g]]
      BY <2>0, <2>5 DEF AllButUp
    <3>2. t[i] = q[i] /\ t[g] = q[g]
      BY <1>3, <1>6, <2>1, <2>5
    <3>3. QED BY <3>1, <3>2, <2>0
  <2>6. QED BY <2>2, <2>3, <2>4, <2>5
<1>7. ASSUME h > 1, NEW i \in 2 .. Len(q), i \div 2 = h PROVE p[t[i]] <= p[t[h \div 2]]
  <2>0. PICK g : g = h \div 2
    OBVIOUS
  <2>1. g \in 1 .. Len(q) /\ g < h /\ h \in 2 .. Len(q) /\ i \in 1 .. Len(q) /\ h < i
    BY <2>0, <1>1, <1>5, <1>7
  <2>2. p[q[h]] <= p[q[g]] /\ t[g] = q[g]
    BY <1>1, <1>3, <2>0, <2>1 DEF AllButUp
  <2>3. CASE i = k
    BY <2>0, <2>2, <2>3, <1>3
  <2>4. CASE i # k
    <3>1. p[q[i]] <= p[q[h]]
      BY <1>7, <2>4 DEF AllButUp
    <3>2. t[i] = q[i]
      BY <2>1, <2>4, <1>3
    <3>3. p[q[i]] <= p[q[g]]
      BY <3>1, <2>1, <2>2, <1>4
    <3>4. QED BY <2>0, <2>2, <3>2, <3>3
  <2>5. QED BY <2>3, <2>4
<1>8. AllButUp(p, t, h)
  BY <1>3, <1>6, <1>7 DEF AllButUp
<1>9. QED BY <1>0, <1>2, <1>8

\* An entry that has nowhere to climb leaves a heap.
LEMMA UpEnds ==
    ASSUME NEW S, NEW q \in Seq(S), NEW p, Priced(p, q), NEW k \in 1 .. Len(q),
           AllButUp(p, q, k), ~ (k > 1 /\ p[q[k]] > p[q[k \div 2]])
    PROVE  IsHeap(p, q)
<1>1. ASSUME NEW i \in 2 .. Len(q) PROVE p[q[i]] <= p[q[i \div 2]]
  <2>1. CASE i # k
    BY <2>1 DEF AllButUp
  <2>2. CASE i = k
    <3>1. k \in Nat /\ k > 1 /\ k \div 2 \in 1 .. Len(q)
      BY <2>2, Halves
    <3>2. p[q[k]] \in Nat /\ p[q[k \div 2]] \in Nat
      BY <3>1 DEF Priced
    <3>3. QED BY <2>2, <3>1, <3>2
  <2>3. QED BY <2>1, <2>2
<1>2. QED BY <1>1 DEF IsHeap

\* The same for an entry that sinks below the child that goes first, ...
LEMMA DownStep ==
    ASSUME NEW S, NEW q \in Seq(S), NEW p, Priced(p, q), NEW k \in 1 .. Len(q), NEW j,
           j = FirstChild(p, q, k), j <= Len(q), AllButDown(p, q, k), p[q[j]] > p[q[k]]
    PROVE  AllButDown(p, SwapAt(q, k, j), j)
<1>1. Len(q) \in Nat /\ k \in Nat /\ k >= 1 /\ j \in Nat /\ k < j /\ j \in 2 .. Len(q) /\ j \in 1 .. Len(q) /\ j \div 2 = k
  BY DEF FirstChild
<1>2. PICK t : t = SwapAt(q, k, j)
  OBVIOUS
<1>3. /\ Len(t) = Len(q) /\ t[k] = q[j] /\ t[j] = q[k]
      /\ \A i \in 1 .. Len(q) : i # k /\ i # j => t[i] = q[i]
  <2>1. j \in 1 .. Len(q)
    BY <1>1
  <2>2. /\ Len(SwapAt(q, k, j)) = Len(q) /\ SwapAt(q, k, j)[k] = q[j] /\ SwapAt(q, k, j)[j] = q[k]
        /\ \A i \in 1 .. Len(q) : i # k /\ i # j => SwapAt(q, k, j)[i] = q[i]
    BY ONLY <2>1, q \in Seq(S), k \in 1 .. Len(q), SwapSwaps
  <2>3. QED BY <1>2, <2>2
<1>4. \A i \in 1 .. Len(q) : p[q[i]] \in Nat
  BY DEF Priced
<1>5. \A i \in 2 .. Len(q) : /\ i \div 2 \in 1 .. Len(q) /\ i \div 2 < i /\ i \in 1 .. Len(q)
                             /\ i = 2 * (i \div 2) \/ i = 2 * (i \div 2) + 1
  BY <1>1, Halves
<1>6. \A i \in 2 .. Len(q) : i \div 2 = k => p[q[i]] <= p[q[j]]
  <2>1. ASSUME NEW i \in 2 .. Len(q), i \div 2 = k PROVE p[q[i]] <= p[q[j]]
    <3>1. i = 2 * k \/ i = 2 * k + 1
      BY <1>5, <2>1
    <3>2. i \in 1 .. Len(q) /\ p[q[i]] \in Nat /\ p[q[j]] \in Nat
      BY <1>1, <1>4, <1>5
    <3>3. CASE i = j
      BY <3>2, <3>3
    <3>4. CASE i = 2 * k /\ i # j
      <4>1. Less(p, q, 2 * k + 1, 2 * k) /\ j = 2 * k + 1
        BY <3>4 DEF FirstChild
      <4>2. QED BY <4>1, <3>2, <3>4 DEF Less
    <3>5. CASE i = 2 * k + 1 /\ i # j
      <4>1. j = 2 * k /\ 2 * k + 1 <= Len(q) /\ ~ Less(p, q, 2 * k + 1, 2 * k)
        BY <3>5 DEF FirstChild
      <4>2. QED BY <4>1, <3>2, <3>5 DEF Less
    <3>6. QED BY <3>1, <3>3, <3>4, <3>5
  <2>2. QED BY <2>1
<1>7. ASSUME NEW i \in 2 .. Len(q), i \div 2 # j PROVE p[t[i]] <= p[t[i \div 2]]
  <2>0. PICK g : g = i \div 2
    OBVIOUS
  <2>1. g \in 1 .. Len(q) /\ g < i /\ i \in 1 .. Len(q)
    BY <2>0, <1>5
  <2>2. CASE i = j
    <3>1. p[q[k]] <= p[q[j]]
      BY <1>1, <1>4
    <3>2. QED BY <3>1, <2>2, <1>1, <1>3
  <2>3. CASE i # j /\ g = k
    <3>1. p[q[i]] <= p[q[j]]
      BY <1>6, <2>0, <2>3
    <3>2. t[i] = q[i]
      BY <1>3, <2>1, <2>3
    <3>3. QED BY <2>0, <2>3, <3>1, <3>2, <1>3
  <2>4. CASE i = k
    <3>1. p[q[j]] <= p[q[g]]
      BY <1>1, <2>0, <2>1, <2>4 DEF AllButDown
    <3>2. t[g] = q[g]
      BY <1>1, <1>3, <2>1, <2>4
    <3>3. QED BY <2>0, <2>4, <3>1, <3>2, <1>3
  <2>5. CASE i # j /\ i # k /\ g # k
    <3>1. p[q[i]] <= p[q[g]]
      BY <2>0, <2>5 DEF AllButDown
    <3>2. t[i] = q[i] /\ t[g] = q[g]
      BY <1>3, <1>7, <2>0, <2>1, <2>5
    <3>3. QED BY <3>1, <3>2, <2>0
  <2>6. QED BY <2>2, <2>3, <2>4, <2>5
<1>8. ASSUME NEW i \in 2 .. Len(q), i \div 2 = j PROVE p[t[i]] <= p[t[j \div 2]]
  <2>1. i \in 1 .. Len(q) /\ j < i
    BY <1>5, <1>8
  <2>2. t[i] = q[i]
    BY <1>1, <1>3, <2>1
  <2>3. p[q[i]] <= p[q[j]]
    BY <1>1, <1>8 DEF AllButDown
  <2>4. QED BY <1>1, <1>3, <2>2, <2>3
<1>9. AllButDown(p, t, j)
  BY <1>3, <1>7, <1>8 DEF AllButDown
<1>10. QED BY <1>2, <1>9

\* ... and when neither child goes before it, there is a heap.
LEMMA DownEnds ==
    ASSUME NEW S, NEW q \in Seq(S), NEW p, Priced(p, q), NEW k \in Nat \ {0}, k <= Len(q) + 1, NEW j,
           j = FirstChild(p, q, k), AllButDown(p, q, k), ~ (j <= Len(q) /\ p[q[j]] > p[q[k]])
    PROVE  IsHeap(p, q)
<1>1. \A i \in 1 .. Len(q) : p[q[i]] \in Nat
  BY DEF Priced
<1>2. ASSUME NEW i \in 2 .. Len(q) PROVE p[q[i]] <= p[q[i \div 2]]
  <2>1. CASE i \div 2 # k
    BY <2>1 DEF AllButDown
  <2>2. CASE i \div 2 = k
    <3>1. i \in 1 .. Len(q) /\ k \in 1 .. Len(q) /\ (i = 2 * k \/ i = 2 * k + 1) /\ Len(q) \in Nat
      <4>1. Len(q) \in Nat /\ i \in Nat /\ i > 1 /\ i <= Len(q)
        OBVIOUS
      <4>2. i \div 2 \in Nat /\ i \div 2 >= 1 /\ i \div 2 < i /\ (i = 2 * (i \div 2) \/ i = 2 * (i \div 2) + 1)
        BY <4>1, Halves
      <4>3. QED BY <2>2, <4>1, <4>2
    <3>2. j <= Len(q) /\ j \in 1 .. Len(q) /\ (j = 2 * k \/ j = 2 * k + 1)
      BY <3>1 DEF FirstChild
    <3>3. p[q[j]] <= p[q[k]]
      BY <1>1, <3>1, <3>2
    <3>4. p[q[i]] <= p[q[j]]
      <4>1. CASE i = j
        BY <4>1, <1>1, <3>1
      <4>2. CASE i = 2 * k /\ i # j
        <5>1. Less(p, q, 2 * k + 1, 2 * k) /\ j = 2 * k + 1
          BY <4>2 DEF FirstChild
        <5>2. QED BY <5>1, <3>1, <3>2, <4>2, <1>1 DEF Less
      <4>3. CASE i = 2 * k + 1 /\ i # j
        <5>1. j = 2 * k /\ ~ Less(p, q, 2 * k + 1, 2 * k)
          BY <4>3 DEF FirstChild
        <5>2. QED BY <5>1, <3>1, <3>2, <4>3, <1>1 DEF Less
      <4>4. QED BY <3>1, <4>1, <4>2, <4>3
    <3>5. QED BY <1>1, <2>2, <3>1, <3>2, <3>3, <3>4
  <2>3. QED BY <2>1, <2>2
<1>3. QED BY <1>2 DEF IsHeap

\* The arrays that sifting goes through are sequences like the one it starts from.
LEMMA ArraysAreLike ==
    ASSUME NEW S, NEW q \in Seq(S), NEW s \in Arrays(q)
    PROVE  /\ s \in Seq(S) /\ Len(s) = Len(q)
           /\ \A p : Priced(p, q) => Priced(p, s)
           /\ \A i, j \in 1 .. Len(q) : /\ SwapAt(s, i, j) \in Arrays(q)
                                        /\ SameBag(s, q) => SameBag(SwapAt(s, i, j), q)
<1> DEFINE E == {q[i] : i \in DOMAIN q}
<1>1. Arrays(q) = [1 .. Len(q) -> E] /\ Len(q) \in Nat
  <2>1. DOMAIN q = 1 .. Len(q) /\ Len(q) \in Nat
    OBVIOUS
  <2>2. Arrays(q) = [DOMAIN q -> E]
    BY DEF Arrays
  <2> HIDE DEF E
  <2>3. QED BY <2>1, <2>2
<1>2. \A e \in E : e \in S /\ \E i \in 1 .. Len(q) : e = q[i]
  OBVIOUS
<1> HIDE DEF E
<1>3. s \in [1 .. Len(q) -> E]
  BY <1>1
<1>4. s \in Seq(E) /\ Len(s) = Len(q)
  BY <1>1, <1>3
<1>5. s \in [1 .. Len(q) -> S]
  BY <1>2, <1>3
<1>6. s \in Seq(S)
  BY <1>1, <1>5
<1>7. ASSUME NEW p, Priced(p, q) PROVE Priced(p, s)
  <2>1. \A i \in 1 .. Len(q) : s[i] \in E
    BY <1>3
  <2>2. QED BY <1>2, <1>4, <1>7, <2>1 DEF Priced
<1>8. ASSUME NEW i \in 1 .. Len(q), NEW j \in 1 .. Len(q)
      PROVE  /\ SwapAt(s, i, j) \in Arrays(q)
             /\ SameBag(s, q) => SameBag(SwapAt(s, i, j), q)
  <2>1. SwapAt(s, i, j) \in Seq(E) /\ Len(SwapAt(s, i, j)) = Len(q)
    BY <1>4, SwapSwaps
  <2>2. SwapAt(s, i, j) \in [1 .. Len(q) -> E]
    BY <2>1
  <2>3. SameBag(SwapAt(s, i, j), s)
    BY <1>4, SwapKeepsBag
  <2>4. QED BY <1>1, <2>2, <2>3 DEF SameBag
<1>9. QED BY <1>4, <1>6, <1>7, <1>8

\* heap.up makes a heap of the same entries of an array that is one but for the
\* entry that climbs.
LEMMA UpHeaps ==
    ASSUME NEW S, NEW q \in Seq(S), NEW p, Priced(p, q), NEW k \in 1 .. Len(q), AllButUp(p, q, k)
    PROVE  /\ HeapUp(p, q, k) \in Seq(S) /\ IsHeap(p, HeapUp(p, q, k))
           /\ SameBag(HeapUp(p, q, k), q)
<1>1. Len(q) \in Nat
  OBVIOUS
<1>2. PICK f : /\ \A j : HeapUp(p, q, j) = f[j][q]
               /\ \A j \in 1 .. Len(q), s \in Arrays(q) :
                    f[j][s] = IF j > 1 /\ Less(p, s, j, j \div 2)
                              THEN f[j \div 2][SwapAt(s, j, j \div 2)] ELSE s
  BY <1>1, UpUnfolds
<1> DEFINE Sifted(r) == r \in Arrays(q) /\ IsHeap(p, r) /\ SameBag(r, q)
           Bad == {j \in 1 .. Len(q) : \E s \in Arrays(q) :
                        AllButUp(p, s, j) /\ SameBag(s, q) /\ ~ Sifted(f[j][s])}
<1>3. ASSUME Bad # {} PROVE FALSE
  <2>1. PICK j \in Bad : \A i \in Bad : j <= i
    <3>1. Bad \in SUBSET Nat
      OBVIOUS
    <3> HIDE DEF Bad
    <3>2. QED BY <1>3, <3>1, SmallestNumber
  <2>2. j \in 1 .. Len(q) /\ j \in Nat
    OBVIOUS
  <2>3. PICK s \in Arrays(q) : AllButUp(p, s, j) /\ SameBag(s, q) /\ ~ Sifted(f[j][s])
    OBVIOUS
  <2> HIDE DEF Sifted
  <2>4. s \in Seq(S) /\ Len(s) = Len(q) /\ Priced(p, s)
    BY ArraysAreLike
  <2>5. CASE j > 1 /\ p[s[j]] > p[s[j \div 2]]
    <3>1. PICK h : h = j \div 2
      OBVIOUS
    <3>2. h \in 1 .. Len(q) /\ h < j /\ j \in 1 .. Len(s) /\ h \in 1 .. Len(s) /\ p[s[j]] > p[s[h]]
      BY <2>2, <2>4, <2>5, <3>1, Halves
    <3>3. AllButUp(p, SwapAt(s, j, h), h)
      BY <2>3, <2>4, <2>5, <3>1, <3>2, UpStep
    <3>4. SwapAt(s, j, h) \in Arrays(q) /\ SameBag(SwapAt(s, j, h), q)
      BY <2>2, <2>3, <3>2, ArraysAreLike
    <3>5. f[j][s] = f[h][SwapAt(s, j, h)]
      BY <1>2, <2>2, <2>5, <3>1 DEF Less
    <3>6. h \in Bad
      BY <2>3, <3>2, <3>3, <3>4, <3>5
    <3> HIDE DEF Bad
    <3>7. j <= h
      BY <2>1, <3>6
    <3>8. QED BY <2>2, <3>2, <3>7
  <2>6. CASE ~ (j > 1 /\ p[s[j]] > p[s[j \div 2]])
    <3>1. f[j][s] = s
      BY <1>2, <2>2, <2>6 DEF Less
    <3>2. j \in 1 .. Len(s)
      BY <2>2, <2>4
    <3>3. IsHeap(p, s)
      BY <2>3, <2>4, <2>6, <3>2, UpEnds
    <3>4. QED BY <2>3, <3>1, <3>3 DEF Sifted
  <2>7. QED BY <2>5, <2>6
<1>4. q \in Arrays(q) /\ SameBag(q, q)
  BY DEF Arrays, SameBag
<1>5. Sifted(f[k][q])
  <2> HIDE DEF Sifted
  <2>1. QED BY <1>3, <1>4
<1>6. QED BY <1>2, <1>5, ArraysAreLike

\* heap.down does so for the entry that sinks.
LEMMA DownHeaps ==
    ASSUME NEW S, NEW q \in Seq(S), NEW p, Priced(p, q), AllButDown(p, q, 1)
    PROVE  /\ HeapDown(p, q, 1) \in Seq(S) /\ IsHeap(p, HeapDown(p, q, 1))
           /\ SameBag(HeapDown(p, q, 1), q)
<1>1. Len(q) \in Nat
  OBVIOUS
<1>2. PICK f : /\ \A i : HeapDown(p, q, i) = f[i][q]
               /\ \A k \in 1 .. Len(q) + 1, s \in Arrays(q) :
                    f[k][s] = LET j == FirstChild(p, s, k)
                              IN  IF j <= Len(q) /\ Less(p, s, j, k) THEN f[j][SwapAt(s, k, j)] ELSE s
  BY ONLY <1>1, DownUnfolds
<1> DEFINE Sifted(r) == r \in Arrays(q) /\ IsHeap(p, r) /\ SameBag(r, q)
           Bad == {m \in 0 .. Len(q) : \E s \in Arrays(q) :
                        /\ AllButDown(p, s, Len(q) + 1 - m) /\ SameBag(s, q)
                        /\ ~ Sifted(f[Len(q) + 1 - m][s])}
<1>3. ASSUME Bad # {} PROVE FALSE
  <2>1. PICK m \in Bad : \A i \in Bad : m <= i
    <3>1. Bad \in SUBSET Nat
      OBVIOUS
    <3> HIDE DEF Bad
    <3>2. QED BY <1>3, <3>1, SmallestNumber
  <2>2. PICK i : i = Len(q) + 1 - m
    OBVIOUS
  <2>3. m \in Nat /\ i \in 1 .. Len(q) + 1 /\ i \in Nat \ {0} /\ m = Len(q) + 1 - i
    <3>1. m \in 0 .. Len(q)
      OBVIOUS
    <3>2. QED BY <1>1, <2>2, <3>1
  <2>4. PICK s \in Arrays(q) : AllButDown(p, s, i) /\ SameBag(s, q) /\ ~ Sifted(f[i][s])
    BY <2>2
  <2> HIDE DEF Sifted
  <2>5. s \in Seq(S) /\ Len(s) = Len(q) /\ Priced(p, s)
    BY ArraysAreLike
  <2>6. PICK j : j = FirstChild(p, s, i)
    OBVIOUS
  <2>7. j \in Nat /\ j > i
    BY <2>3, <2>6, ChildrenComeLater
  <2>8. CASE j <= Len(q) /\ p[s[j]] > p[s[i]]
    <3>1. i \in 1 .. Len(q) /\ j \in 1 .. Len(q) /\ i \in 1 .. Len(s) /\ j <= Len(s)
      BY <1>1, <2>3, <2>5, <2>7, <2>8
    <3>2. AllButDown(p, SwapAt(s, i, j), j)
      BY <2>4, <2>5, <2>6, <2>8, <3>1, DownStep
    <3>3. SwapAt(s, i, j) \in Arrays(q) /\ SameBag(SwapAt(s, i, j), q)
      BY <2>4, <3>1, ArraysAreLike
    <3>4. f[i][s] = f[j][SwapAt(s, i, j)]
      BY <1>2, <2>3, <2>6, <2>8 DEF Less
    <3>5. PICK n : n = Len(q) + 1 - j
      OBVIOUS
    <3>6. n \in 0 .. Len(q) /\ j = Len(q) + 1 - n /\ n < m
      BY <1>1, <2>3, <2>7, <3>1, <3>5
    <3>7. n \in Bad
      BY <2>4, <3>2, <3>3, <3>4, <3>6
    <3> HIDE DEF Bad
    <3>8. m <= n
      BY <2>1, <3>7
    <3>9. QED BY <2>3, <3>6, <3>8
  <2>9. CASE ~ (j <= Len(q) /\ p[s[j]] > p[s[i]])
    <3>1. f[i][s] = s
      BY <1>2, <2>3, <2>6, <2>9 DEF Less
    <3>2. IsHeap(p, s)
      <4>1. i <= Len(s) + 1 /\ ~ (j <= Len(s) /\ p[s[j]] > p[s[i]])
        BY <1>1, <2>3, <2>5, <2>9
      <4>2. QED BY <2>3, <2>4, <2>5, <2>6, <4>1, DownEnds
    <3>3. QED BY <2>4, <3>1, <3>2 DEF Sifted
  <2>10. QED BY <2>8, <2>9
<1>4. q \in Arrays(q) /\ SameBag(q, q)
  BY DEF Arrays, SameBag
<1>5. Sifted(f[1][q])
  <2>1. Len(q) \in 0 .. Len(q) /\ Len(q) + 1 - Len(q) = 1
    BY <1>1
  <2> HIDE DEF Sifted
  <2>2. Len(q) \notin Bad
    BY <1>3
  <2>3. QED BY <1>4, <2>1, <2>2
<1>6. QED BY <1>2, <1>5, ArraysAreLike

\* Nothing goes before the first entry of a heap.
LEMMA RootIsBest ==
    ASSUME NEW S, NEW q \in Seq(S), NEW p, Priced(p, q), IsHeap(p, q), NEW i \in 1 .. Len(q)
    PROVE  p[q[i]] <= p[q[1]]
<1> DEFINE Bad == {j \in 1 .. Len(q) : ~ (p[q[j]] <= p[q[1]])}
<1>1. ASSUME Bad # {} PROVE FALSE
  <2>1. PICK j \in Bad : \A l \in Bad : j <= l
    <3>1. Bad \in SUBSET Nat
      OBVIOUS
    <3> HIDE DEF Bad
    <3>2. QED BY <1>1, <3>1, SmallestNumber
  <2>2. j \in 1 .. Len(q) /\ j \in Nat /\ ~ (p[q[j]] <= p[q[1]])
    OBVIOUS
  <2>3. \A l \in 1 .. Len(q) : p[q[l]] \in Nat
    BY DEF Priced
  <2>4. Len(q) \in Nat
    OBVIOUS
  <2>5. j # 1
    BY <2>2, <2>3
  <2>6. PICK h : h = j \div 2
    OBVIOUS
  <2>7. j \in 2 .. Len(q) /\ h \in 1 .. Len(q) /\ h < j
    BY <2>2, <2>4, <2>5, <2>6, Halves
  <2>8. p[q[j]] <= p[q[h]]
    BY <2>6, <2>7 DEF IsHeap
  <2>9. h \notin Bad
    <3> HIDE DEF Bad
    <3>1. h \in Bad => j <= h
      BY <2>1
    <3>2. QED BY <2>2, <2>7, <3>1
  <2>10. p[q[h]] <= p[q[1]]
    BY <2>7, <2>9
  <2>11. 1 \in 1 .. Len(q)
    BY <2>7, <2>4
  <2>12. QED BY <2>2, <2>3, <2>7, <2>8, <2>10, <2>11
<1>2. QED BY <1>1

\* An entry added at the end is one copy more of it.
LEMMA AppendCounts ==
    ASSUME NEW S, NEW q \in Seq(S), NEW e \in S, NEW x
    PROVE  CopiesIn(Append(q, e), x) = CopiesIn(q, x) + IF x = e THEN 1 ELSE 0
<1>1. PICK r : r = Append(q, e)
  OBVIOUS
<1>2. Len(q) \in Nat /\ Len(r) = Len(q) + 1 /\ r[Len(q) + 1] = e /\ \A i \in 1 .. Len(q) : r[i] = q[i]
  BY <1>1
<1>3. PICK n : n = Len(q) + 1
  OBVIOUS
<1>4. IsFiniteSet(PlacesOf(q, x)) /\ CopiesIn(q, x) \in Nat
  BY PlacesAreFinite
<1>5. CASE x = e
  <2>1. PlacesOf(r, x) = PlacesOf(q, x) \union {n}
    BY <1>2, <1>3, <1>5 DEF PlacesOf
  <2>2. n \notin PlacesOf(q, x)
    BY <1>2, <1>3 DEF PlacesOf
  <2>3. CopiesIn(r, x) = CopiesIn(q, x) + 1
    BY <1>4, <2>1, <2>2, FS_AddElement DEF CopiesIn
  <2>4. QED BY <1>1, <1>5, <2>3
<1>6. CASE x # e
  <2>1. PlacesOf(r, x) = PlacesOf(q, x)
    BY <1>2, <1>6 DEF PlacesOf
  <2>2. CopiesIn(r, x) = CopiesIn(q, x)
    BY <2>1 DEF CopiesIn
  <2>3. QED BY <1>1, <1>4, <1>6, <2>2
<1>7. QED BY <1>5, <1>6

\* heap.Push keeps the heap and adds one copy of the entry.
LEMMA PushHeaps ==
    ASSUME NEW S, NEW q \in Seq(S), NEW e \in S, NEW p, Priced(p, q), p[e] \in Nat, IsHeap(p, q)
    PROVE  /\ HeapPush(p, q, e) \in Seq(S) /\ Len(HeapPush(p, q, e)) = Len(q) + 1
           /\ IsHeap(p, HeapPush(p, q, e))
           /\ \A x : CopiesIn(HeapPush(p, q, e), x) = CopiesIn(q, x) + IF x = e THEN 1 ELSE 0
<1>1. PICK a : a = Append(q, e)
  OBVIOUS
<1>2. /\ a \in Seq(S) /\ Len(q) \in Nat /\ Len(a) = Len(q) + 1 /\ a[Len(q) + 1] = e
      /\ \A i \in 1 .. Len(q) : a[i] = q[i]
  BY <1>1
<1>3. PICK n : n = Len(q) + 1
  OBVIOUS
<1>4. n \in 1 .. Len(a) /\ \A i \in 1 .. Len(a) : i = n \/ i \in 1 .. Len(q)
  BY <1>2, <1>3
<1>5. Priced(p, a)
  BY <1>2, <1>3, <1>4 DEF Priced
<1>6. ASSUME NEW i \in 2 .. Len(a) PROVE i \div 2 \in 1 .. Len(q) /\ i \div 2 < i /\ i \in 1 .. Len(a)
  BY <1>2, Halves
<1>7. ASSUME NEW i \in 2 .. Len(a), i # n PROVE p[a[i]] <= p[a[i \div 2]]
  <2>1. i \in 2 .. Len(q) /\ i \in 1 .. Len(q) /\ i \div 2 \in 1 .. Len(q)
    BY <1>2, <1>3, <1>6, <1>7
  <2>2. p[q[i]] <= p[q[i \div 2]]
    BY <2>1 DEF IsHeap
  <2>3. QED BY <1>2, <2>1, <2>2
<1>8. ASSUME NEW i \in 2 .. Len(a) PROVE i \div 2 # n
  <2>1. i \div 2 \in 1 .. Len(q)
    BY <1>6
  <2>2. QED BY <1>2, <1>3, <2>1
<1>9. AllButUp(p, a, n)
  BY <1>7, <1>8 DEF AllButUp
<1>10. HeapUp(p, a, n) \in Seq(S) /\ IsHeap(p, HeapUp(p, a, n)) /\ SameBag(HeapUp(p, a, n), a)
  BY <1>2, <1>4, <1>5, <1>9, UpHeaps
<1>11. HeapPush(p, q, e) = HeapUp(p, a, n)
  BY <1>1, <1>3 DEF HeapPush
<1>12. \A x : CopiesIn(a, x) = CopiesIn(q, x) + IF x = e THEN 1 ELSE 0
  BY <1>1, AppendCounts
<1>13. QED BY <1>2, <1>10, <1>11, <1>12 DEF SameBag

\* heap.Pop keeps the heap and takes one copy of its first entry.
LEMMA PopHeaps ==
    ASSUME NEW S, NEW q \in Seq(S), q # <<>>, NEW p, Priced(p, q), IsHeap(p, q)
    PROVE  /\ HeapPop(p, q) \in Seq(S) /\ Len(HeapPop(p, q)) = Len(q) - 1
           /\ IsHeap(p, HeapPop(p, q))
           /\ \A x : CopiesIn(HeapPop(p, q), x) = CopiesIn(q, x) - IF x = q[1] THEN 1 ELSE 0
<1>1. PICK n : n = Len(q)
  OBVIOUS
<1>2. n \in Nat /\ n >= 1 /\ n \in 1 .. Len(q) /\ 1 \in 1 .. Len(q) /\ q[1] \in S
  BY <1>1
<1>3. PICK t : t = SwapAt(q, 1, n)
  OBVIOUS
<1>4. /\ t \in Seq(S) /\ Len(t) = n /\ t[n] = q[1] /\ t[1] = q[n]
      /\ \A i \in 1 .. n : i # 1 /\ i # n => t[i] = q[i]
  <2>1. /\ SwapAt(q, 1, n) \in Seq(S) /\ Len(SwapAt(q, 1, n)) = Len(q)
        /\ SwapAt(q, 1, n)[1] = q[n] /\ SwapAt(q, 1, n)[n] = q[1]
        /\ \A i \in 1 .. Len(q) : i # 1 /\ i # n => SwapAt(q, 1, n)[i] = q[i]
    BY ONLY <1>2, q \in Seq(S), SwapSwaps
  <2>2. QED BY <1>1, <1>3, <2>1
<1>5. \A x : CopiesIn(t, x) = CopiesIn(q, x)
  BY <1>2, <1>3, SwapKeepsBag DEF SameBag
<1>6. PICK u : u = SubSeq(t, 1, n - 1)
  OBVIOUS
<1>7. u \in Seq(S) /\ Len(u) = n - 1 /\ \A i \in 1 .. n - 1 : u[i] = t[i]
  BY <1>2, <1>4, <1>6, SubSeqProperties
<1>8. t = Append(u, q[1])
  <2>1. PICK v : v = Append(u, q[1])
    OBVIOUS
  <2>2. v \in Seq(S) /\ Len(v) = n /\ v[n] = q[1] /\ \A i \in 1 .. n - 1 : v[i] = u[i]
    BY <1>2, <1>7, <2>1
  <2>3. \A i \in 1 .. n : v[i] = t[i]
    <3>1. ASSUME NEW i \in 1 .. n PROVE v[i] = t[i]
      <4>1. i = n \/ i \in 1 .. n - 1
        BY <1>2
      <4>2. QED BY <4>1, <1>4, <1>7, <2>2
    <3>2. QED BY <3>1
  <2>4. v = t
    BY <1>4, <2>2, <2>3
  <2>5. QED BY <2>1, <2>4
<1>9. \A x : CopiesIn(t, x) = CopiesIn(u, x) + IF x = q[1] THEN 1 ELSE 0
  BY <1>2, <1>7, <1>8, AppendCounts
<1>10. \A x : CopiesIn(u, x) = CopiesIn(q, x) - IF x = q[1] THEN 1 ELSE 0
  <2>1. ASSUME NEW x PROVE CopiesIn(u, x) = CopiesIn(q, x) - IF x = q[1] THEN 1 ELSE 0
    <3>1. CopiesIn(u, x) \in Nat /\ CopiesIn(q, x) \in Nat
      BY <1>7, PlacesAreFinite
    <3>2. CopiesIn(q, x) = CopiesIn(u, x) + IF x = q[1] THEN 1 ELSE 0
      BY <1>5, <1>9
    <3>3. QED BY <3>1, <3>2
  <2>2. QED BY <2>1
<1>11. \A i \in 1 .. n : p[q[i]] \in Nat
  BY <1>1 DEF Priced
<1>12. Priced(p, u)
  <2>1. ASSUME NEW i \in 1 .. n - 1 PROVE p[u[i]] \in Nat
    <3>1. i \in 1 .. n /\ i # n /\ n \in 1 .. n
      BY <1>2
    <3>2. u[i] = q[i] \/ u[i] = q[n]
      BY <1>4, <1>7, <3>1
    <3>3. QED BY <3>1, <3>2, <1>11
  <2>2. QED BY <1>7, <2>1 DEF Priced
<1>13. ASSUME NEW i \in 2 .. n - 1, i \div 2 # 1 PROVE p[u[i]] <= p[u[i \div 2]]
  <2>1. PICK h : h = i \div 2
    OBVIOUS
  <2>2. h \in 2 .. n - 1 /\ i \in 1 .. n - 1 /\ h \in 1 .. n - 1 /\ i \in 2 .. n
    <3>1. i \in Nat /\ i > 1 /\ i <= n - 1
      BY <1>2
    <3>2. h \in Nat /\ h >= 1 /\ h < i
      BY <3>1, <2>1, Halves
    <3>3. QED BY <1>2, <1>13, <2>1, <3>1, <3>2
  <2>3. \A l \in 2 .. n - 1 : u[l] = q[l]
    <3>1. ASSUME NEW l \in 2 .. n - 1 PROVE u[l] = q[l]
      <4>1. l \in 1 .. n - 1 /\ l \in 1 .. n /\ l # 1 /\ l # n
        BY <1>2
      <4>2. QED BY <4>1, <1>4, <1>7
    <3>2. QED BY <3>1
  <2>4. u[i] = q[i] /\ u[h] = q[h]
    BY <2>2, <2>3
  <2>5. p[q[i]] <= p[q[h]]
    BY <1>1, <2>1, <2>2 DEF IsHeap
  <2>6. QED BY <2>1, <2>4, <2>5
<1>14. AllButDown(p, u, 1)
  BY <1>7, <1>13 DEF AllButDown
<1>15. HeapDown(p, u, 1) \in Seq(S) /\ IsHeap(p, HeapDown(p, u, 1)) /\ SameBag(HeapDown(p, u, 1), u)
  BY <1>7, <1>12, <1>14, DownHeaps
<1>16. HeapPop(p, q) = HeapDown(p, u, 1)
  BY <1>1, <1>3, <1>6 DEF HeapPop
<1>17. QED BY <1>1, <1>7, <1>10, <1>15, <1>16 DEF SameBag

(* One market's book *)

\* The inductive invariant: each side is a heap by the prices of the orders, and
\* holds every order of the map.
BookInv == BookTypeOK /\ BookOrdersAreQueued /\ \A s \in BookSides : IsHeap(price, queue[s])

\* Side s has n copies of e more, and as many of any other order as before; an order
\* that came in keeps its price.
Gains(s, e, n) == \A x \in Orders : Copies(s, x)' = Copies(s, x) + IF x = e THEN n ELSE 0
PricesStay == \A o \in Arrived : price'[o] = price[o]

\* What the model counts as copies is what the lemmas on arrays count.
LEMMA CountsPlaces ==
    ASSUME NEW s, queue[s] \in Seq(Orders), NEW x
    PROVE  Copies(s, x) = CopiesIn(queue[s], x) /\ Copies(s, x) \in Nat
<1>1. {i \in DOMAIN queue[s] : queue[s][i] = x} = PlacesOf(queue[s], x)
  <2>1. DOMAIN queue[s] = 1 .. Len(queue[s])
    OBVIOUS
  <2>2. QED BY <2>1 DEF PlacesOf
<1>2. CopiesIn(queue[s], x) \in Nat
  BY PlacesAreFinite
<1>3. QED BY <1>1, <1>2 DEF Copies, CopiesIn

\* What a queue counts is what it holds.
LEMMA HeldAreQueued ==
    ASSUME NEW s, queue[s] \in Seq(Orders), NEW x
    PROVE  Copies(s, x) > 0 <=> \E i \in 1 .. Len(queue[s]) : queue[s][i] = x
<1>1. Copies(s, x) = CopiesIn(queue[s], x) /\ Copies(s, x) \in Nat
  BY CountsPlaces
<1>2. IsFiniteSet(PlacesOf(queue[s], x))
  BY PlacesAreFinite
<1>3. CopiesIn(queue[s], x) = 0 <=> PlacesOf(queue[s], x) = {}
  BY <1>2, FS_EmptySet DEF CopiesIn
<1>4. PlacesOf(queue[s], x) # {} <=> \E i \in 1 .. Len(queue[s]) : queue[s][i] = x
  BY DEF PlacesOf
<1>5. QED BY <1>1, <1>3, <1>4

\* The prices of the orders that came in.
LEMMA ArrivedArePriced ==
    ASSUME BookTypeOK
    PROVE  /\ Arrived = 1 .. Len(orders) /\ Arrived \subseteq Orders /\ Len(orders) \in Nat
           /\ \A o \in Arrived : price[o] = orders[o].price /\ price[o] \in Nat
           /\ \A s \in BookSides : queue[s] \in Seq(Arrived) /\ queue[s] \in Seq(Orders) /\ Priced(price, queue[s])
<1>1. /\ Arrived = 1 .. Len(orders) /\ Len(orders) \in Nat /\ Len(orders) <= MaxOrders /\ MaxOrders \in Nat
      /\ \A o \in Arrived : orders[o] \in [side: BookSides, price: Prices]
  <2> DEFINE R == [side: BookSides, price: Prices]
  <2>1. orders \in Seq(R) /\ Len(orders) <= MaxOrders
    BY DEF BookTypeOK
  <2> HIDE DEF R
  <2>2. DOMAIN orders = 1 .. Len(orders) /\ Len(orders) \in Nat /\ \A o \in 1 .. Len(orders) : orders[o] \in R
    BY <2>1
  <2>3. QED BY <2>1, <2>2, BookBoundsAssumption DEF Arrived, R
<1>2. Arrived \subseteq Orders
  BY <1>1 DEF Orders
<1>3. ASSUME NEW o \in Arrived PROVE price[o] = orders[o].price /\ price[o] \in Nat
  <2>1. o \in Orders
    BY <1>2
  <2>2. price[o] = orders[o].price
    BY <2>1 DEF price
  <2>3. orders[o].price \in Prices
    BY <1>1
  <2>4. QED BY <2>2, <2>3, PricesAssumption
<1>4. ASSUME NEW s \in BookSides PROVE queue[s] \in Seq(Arrived) /\ queue[s] \in Seq(Orders) /\ Priced(price, queue[s])
  <2>1. queue[s] \in Seq(Arrived)
    BY DEF BookTypeOK
  <2>2. \A i \in 1 .. Len(queue[s]) : queue[s][i] \in Arrived
    BY <2>1
  <2>3. queue[s] \in Seq(Orders)
    BY <1>2, <2>1
  <2>4. QED BY <1>3, <2>1, <2>2, <2>3 DEF Priced
<1>5. QED BY <1>1, <1>2, <1>3, <1>4

\* An order that came in is a bid or an ask.
LEMMA SidesOfArrived ==
    ASSUME BookTypeOK, NEW o \in Arrived
    PROVE  orders[o].side \in BookSides
<1> DEFINE R == [side: BookSides, price: Prices]
<1>1. orders \in Seq(R)
  BY DEF BookTypeOK
<1>2. \A r \in R : r.side \in BookSides
  OBVIOUS
<1> HIDE DEF R
<1>3. orders[o] \in R
  BY <1>1 DEF Arrived
<1>4. QED BY <1>2, <1>3

\* A new order has its price, and the others keep theirs.
LEMMA ArrivalPrices ==
    ASSUME BookTypeOK, NEW s \in BookSides, NEW p \in Prices, Arrives(s, p)
    PROVE  /\ orders' \in Seq([side: BookSides, price: Prices]) /\ Len(orders') = Len(orders) + 1
           /\ Len(orders') <= MaxOrders /\ Arrived' = 1 .. Len(orders') /\ Arrived \subseteq Arrived'
           /\ Arrived' \subseteq Orders /\ Len(orders') \in Arrived' /\ Len(orders') \notin Arrived
           /\ orders'[Len(orders')].side = s /\ \A o \in Arrived : orders'[o] = orders[o]
           /\ price'[Len(orders')] \in Nat /\ PricesStay
           /\ book' = book \union {Len(orders')}
<1>1. Arrived = 1 .. Len(orders) /\ Len(orders) \in Nat /\ Arrived \subseteq Orders
  BY ArrivedArePriced
<1>2. orders \in Seq([side: BookSides, price: Prices])
  BY DEF BookTypeOK
<1>3. PICK r : r = [side |-> s, price |-> p]
  OBVIOUS
<1>4. orders' = Append(orders, r) /\ r \in [side: BookSides, price: Prices] /\ Len(orders) < MaxOrders
  BY <1>3 DEF Arrives
<1>5. /\ orders' \in Seq([side: BookSides, price: Prices]) /\ Len(orders') = Len(orders) + 1
      /\ DOMAIN orders' = 1 .. Len(orders) + 1
      /\ orders'[Len(orders) + 1] = r /\ \A o \in 1 .. Len(orders) : orders'[o] = orders[o]
  BY <1>1, <1>2, <1>4
<1>6. Arrived' = 1 .. Len(orders') /\ Arrived' \subseteq Orders /\ Len(orders') <= MaxOrders
  BY <1>1, <1>4, <1>5, BookBoundsAssumption DEF Arrived, Orders
<1>7. Arrived \subseteq Arrived' /\ Len(orders') \in Arrived' /\ Len(orders') \notin Arrived
  BY <1>1, <1>5, <1>6
<1>8. \A o \in Arrived' : price'[o] = orders'[o].price
  BY <1>6 DEF price
<1>9. \A o \in Arrived : price'[o] = price[o]
  BY <1>1, <1>5, <1>7, <1>8, ArrivedArePriced
<1>10. price'[Len(orders')] \in Nat
  BY <1>3, <1>5, <1>7, <1>8, PricesAssumption
<1>11. QED BY <1>1, <1>3, <1>5, <1>6, <1>7, <1>9, <1>10 DEF PricesStay, Arrives

\* A heap stays one while its prices stay, in the larger set of orders.
LEMMA HeapsKeepPrices ==
    ASSUME BookInv, NEW z \in BookSides, PricesStay, Arrived \subseteq Arrived'
    PROVE  queue[z] \in Seq(Arrived') /\ IsHeap(price', queue[z]) /\ Priced(price', queue[z])
<1>1. queue[z] \in Seq(Arrived) /\ Priced(price, queue[z]) /\ IsHeap(price, queue[z])
  BY ArrivedArePriced DEF BookInv
<1>2. Len(queue[z]) \in Nat /\ \A i \in 1 .. Len(queue[z]) : queue[z][i] \in Arrived /\ price'[queue[z][i]] = price[queue[z][i]]
  BY <1>1 DEF PricesStay
<1>3. queue[z] \in Seq(Arrived')
  BY <1>1
<1>4. Priced(price', queue[z])
  BY <1>1, <1>2 DEF Priced
<1>5. ASSUME NEW i \in 2 .. Len(queue[z]) PROVE price'[queue[z][i]] <= price'[queue[z][i \div 2]]
  <2>1. i \in 1 .. Len(queue[z]) /\ i \div 2 \in 1 .. Len(queue[z])
    BY <1>2, Halves
  <2>2. price[queue[z][i]] <= price[queue[z][i \div 2]]
    BY <1>1 DEF IsHeap
  <2>3. QED BY <1>2, <2>1, <2>2
<1>6. QED BY <1>3, <1>4, <1>5 DEF IsHeap

\* What an order that comes in leaves of the invariant, whichever way it is pushed.
LEMMA PushedKeeps ==
    ASSUME BookInv, NEW s \in BookSides, NEW p \in Prices, Arrives(s, p), NEW r, NEW n \in {1, 2},
           queue' = [queue EXCEPT ![s] = r], r \in Seq(Arrived'), Len(r) <= MaxEntries, IsHeap(price', r),
           \A x : CopiesIn(r, x) = CopiesIn(queue[s], x) + IF x = Len(orders') THEN n ELSE 0
    PROVE  BookInv' /\ PricesStay /\ Gains(s, Len(orders'), n) /\ \A z \in BookSides \ {s} : queue'[z] = queue[z]
<1>0. BookTypeOK /\ queue \in [BookSides -> Seq(Arrived)] /\ \A z \in BookSides : Len(queue[z]) <= MaxEntries
  BY DEF BookInv, BookTypeOK
<1>1. /\ orders' \in Seq([side: BookSides, price: Prices]) /\ Len(orders') <= MaxOrders
      /\ Arrived \subseteq Arrived' /\ Arrived' \subseteq Orders /\ Len(orders') \in Arrived' /\ Len(orders') \notin Arrived
      /\ orders'[Len(orders')].side = s /\ \A o \in Arrived : orders'[o] = orders[o]
      /\ PricesStay /\ book' = book \union {Len(orders')}
  BY <1>0, ArrivalPrices
<1>2. queue'[s] = r /\ \A z \in BookSides \ {s} : queue'[z] = queue[z]
  BY <1>0
<1>3. \A z \in BookSides : queue'[z] \in Seq(Arrived') /\ Len(queue'[z]) <= MaxEntries /\ IsHeap(price', queue'[z])
  BY <1>0, <1>1, <1>2, HeapsKeepPrices
<1>4. BookTypeOK'
  <2>1. queue' \in [BookSides -> Seq(Arrived')]
    BY <1>0, <1>3
  <2>2. book' \subseteq Arrived'
    BY <1>0, <1>1 DEF BookTypeOK
  <2>3. QED BY <1>1, <1>3, <2>1, <2>2 DEF BookTypeOK
<1>5. \A z \in BookSides : queue[z] \in Seq(Orders) /\ queue'[z] \in Seq(Orders)
  <2>1. \A z \in BookSides : queue[z] \in Seq(Orders)
    BY <1>0, ArrivedArePriced
  <2>2. QED BY <1>1, <1>3, <2>1
<1>6. \A z \in BookSides : \A x : Copies(z, x)' = CopiesIn(queue'[z], x) /\ Copies(z, x) = CopiesIn(queue[z], x) /\ Copies(z, x) \in Nat
  <2>1. \A z \in BookSides : \A x : Copies(z, x) = CopiesIn(queue[z], x) /\ Copies(z, x) \in Nat
    BY <1>5, CountsPlaces
  <2>2. ASSUME NEW z \in BookSides, NEW x PROVE Copies(z, x)' = CopiesIn(queue'[z], x)
    <3>1. DOMAIN queue'[z] = 1 .. Len(queue'[z])
      BY <1>5
    <3>2. {i \in DOMAIN queue'[z] : queue'[z][i] = x} = PlacesOf(queue'[z], x)
      BY <3>1 DEF PlacesOf
    <3>3. QED BY <3>2 DEF Copies, CopiesIn
  <2>3. QED BY <2>1, <2>2
<1>7. \A x : Copies(s, x)' = Copies(s, x) + IF x = Len(orders') THEN n ELSE 0
  BY <1>2, <1>6
<1>8. \A z \in BookSides \ {s} : \A x : Copies(z, x)' = Copies(z, x)
  BY <1>2, <1>6
<1>9. BookOrdersAreQueued'
  <2>1. ASSUME NEW o \in book' PROVE \E z : z = orders'[o].side /\ Copies(z, o)' > 0
    <3>1. CASE o = Len(orders')
      <4>1. Copies(s, o) \in Nat /\ Copies(s, o)' = Copies(s, o) + n
        BY <1>6, <1>7, <3>1
      <4>2. Copies(s, o)' > 0
        BY <4>1
      <4>3. QED BY <1>1, <3>1, <4>2
    <3>2. CASE o # Len(orders')
      <4>1. o \in book /\ o \in Arrived
        BY <1>0, <1>1, <3>2 DEF BookTypeOK
      <4>2. PICK z : z = orders[o].side
        OBVIOUS
      <4>3. z \in BookSides /\ orders'[o].side = z
        BY <1>0, <1>1, <4>1, <4>2, ArrivedArePriced, SidesOfArrived
      <4>4. Copies(z, o) > 0
        BY <4>1, <4>2 DEF BookInv, BookOrdersAreQueued
      <4>5. Copies(z, o)' = Copies(z, o)
        BY <1>6, <1>7, <1>8, <3>2, <4>3
      <4>6. QED BY <4>3, <4>4, <4>5
    <3>3. QED BY <3>1, <3>2
  <2>2. QED BY <2>1 DEF BookOrdersAreQueued, Copies
<1>10. QED BY <1>1, <1>2, <1>3, <1>4, <1>7, <1>9 DEF BookInv, Gains

\* What an order that comes in finds: heaps by the prices it makes.
LEMMA ArrivalFinds ==
    ASSUME BookInv, NEW s \in BookSides, NEW p \in Prices, Arrives(s, p)
    PROVE  /\ queue[s] \in Seq(Arrived') /\ IsHeap(price', queue[s]) /\ Priced(price', queue[s])
           /\ Len(orders') \in Arrived' /\ price'[Len(orders')] \in Nat
<1>1. PricesStay /\ Arrived \subseteq Arrived' /\ Len(orders') \in Arrived' /\ price'[Len(orders')] \in Nat
  BY ArrivalPrices DEF BookInv
<1>2. QED BY <1>1, HeapsKeepPrices

\* An order that is added to the book is one entry more of its side.
LEMMA AddAdds ==
    ASSUME BookInv, NEW s \in BookSides, NEW p \in Prices, AddOrder(s, p)
    PROVE  /\ BookInv' /\ PricesStay /\ Len(orders') \in Orders /\ Gains(s, Len(orders'), 1)
           /\ \A z \in BookSides \ {s} : queue'[z] = queue[z]
<1>1. PICK r : r = HeapPush(price', queue[s], Len(orders'))
  OBVIOUS
<1>2. Arrives(s, p) /\ Len(queue[s]) < MaxEntries /\ queue' = [queue EXCEPT ![s] = r]
  BY <1>1 DEF AddOrder
<1>3. /\ queue[s] \in Seq(Arrived') /\ IsHeap(price', queue[s]) /\ Priced(price', queue[s])
      /\ Len(orders') \in Arrived' /\ price'[Len(orders')] \in Nat
  BY <1>2, ArrivalFinds
<1>4. /\ r \in Seq(Arrived') /\ Len(r) = Len(queue[s]) + 1 /\ IsHeap(price', r)
      /\ \A x : CopiesIn(r, x) = CopiesIn(queue[s], x) + IF x = Len(orders') THEN 1 ELSE 0
  BY <1>1, <1>3, PushHeaps
<1>5. Len(r) <= MaxEntries
  <2>1. Len(queue[s]) \in Nat
    BY <1>3
  <2>2. QED BY <1>2, <1>4, <2>1, BookBoundsAssumption
<1>6. BookInv' /\ PricesStay /\ Gains(s, Len(orders'), 1) /\ \A z \in BookSides \ {s} : queue'[z] = queue[z]
  BY <1>2, <1>4, <1>5, PushedKeeps
<1>7. Len(orders') \in Orders
  BY <1>2, ArrivalPrices DEF BookInv
<1>8. QED BY <1>6, <1>7

\* An order that is added twice is two entries more, both in their places.
LEMMA AddTwiceAdds ==
    ASSUME BookInv, NEW s \in BookSides, NEW p \in Prices, AddTwice(s, p)
    PROVE  /\ BookInv' /\ PricesStay /\ Len(orders') \in Orders /\ Gains(s, Len(orders'), 2)
           /\ \A z \in BookSides \ {s} : queue'[z] = queue[z]
<1>1. PICK a : a = HeapPush(price', queue[s], Len(orders'))
  OBVIOUS
<1>2. PICK r : r = HeapPush(price', a, Len(orders'))
  OBVIOUS
<1>3. Arrives(s, p) /\ Len(queue[s]) + 1 < MaxEntries /\ queue' = [queue EXCEPT ![s] = r]
  BY <1>1, <1>2 DEF AddTwice
<1>4. /\ queue[s] \in Seq(Arrived') /\ IsHeap(price', queue[s]) /\ Priced(price', queue[s])
      /\ Len(orders') \in Arrived' /\ price'[Len(orders')] \in Nat
  BY <1>3, ArrivalFinds
<1>5. /\ a \in Seq(Arrived') /\ Len(a) = Len(queue[s]) + 1 /\ IsHeap(price', a)
      /\ \A x : CopiesIn(a, x) = CopiesIn(queue[s], x) + IF x = Len(orders') THEN 1 ELSE 0
  BY <1>1, <1>4, PushHeaps
<1>6. Priced(price', a)
  <2>1. ASSUME NEW i \in 1 .. Len(a) PROVE price'[a[i]] \in Nat
    <3>1. a[i] \in Arrived'
      BY <1>5
    <3>2. price'[a[i]] \in Nat
      <4>1. \A o \in Arrived' : price'[o] \in Nat
        <5>1. /\ Arrived' = 1 .. Len(orders') /\ Arrived = 1 .. Len(orders) /\ Len(orders) \in Nat
              /\ Len(orders') = Len(orders) + 1 /\ PricesStay
          BY <1>3, ArrivalPrices, ArrivedArePriced DEF BookInv
        <5>2. \A o \in Arrived' : o \in Arrived \/ o = Len(orders')
          BY <5>1
        <5>3. \A o \in Arrived : price'[o] \in Nat
          BY <5>1, ArrivedArePriced DEF BookInv, PricesStay
        <5>4. QED BY <1>4, <5>2, <5>3
      <4>2. QED BY <3>1, <4>1
    <3>3. QED BY <3>2
  <2>2. QED BY <2>1 DEF Priced
<1>7. /\ r \in Seq(Arrived') /\ Len(r) = Len(a) + 1 /\ IsHeap(price', r)
      /\ \A x : CopiesIn(r, x) = CopiesIn(a, x) + IF x = Len(orders') THEN 1 ELSE 0
  BY <1>2, <1>4, <1>5, <1>6, PushHeaps
<1>8. \A x : CopiesIn(r, x) = CopiesIn(queue[s], x) + IF x = Len(orders') THEN 2 ELSE 0
  <2>1. \A x : CopiesIn(queue[s], x) \in Nat
    BY <1>4, PlacesAreFinite
  <2>2. ASSUME NEW x PROVE CopiesIn(r, x) = CopiesIn(queue[s], x) + IF x = Len(orders') THEN 2 ELSE 0
    <3>1. PICK i, j, k : i = CopiesIn(queue[s], x) /\ j = CopiesIn(a, x) /\ k = CopiesIn(r, x)
      OBVIOUS
    <3>2. i \in Nat
      BY <2>1, <3>1
    <3>3. CASE x = Len(orders')
      <4>1. j = i + 1 /\ k = j + 1
        BY <1>5, <1>7, <3>1, <3>3
      <4>2. k = i + 2
        BY <3>2, <4>1
      <4>3. QED BY <3>1, <3>3, <4>2
    <3>4. CASE x # Len(orders')
      <4>1. j = i + 0 /\ k = j + 0
        BY <1>5, <1>7, <3>1, <3>4
      <4>2. k = i + 0
        BY <3>2, <4>1
      <4>3. QED BY <3>1, <3>4, <4>2
    <3>5. QED BY <3>3, <3>4
  <2>3. QED BY <2>2
<1>9. Len(r) <= MaxEntries
  <2>1. Len(queue[s]) \in Nat
    BY <1>4
  <2>2. QED BY <1>3, <1>5, <1>7, <2>1, BookBoundsAssumption
<1>10. BookInv' /\ PricesStay /\ Gains(s, Len(orders'), 2) /\ \A z \in BookSides \ {s} : queue'[z] = queue[z]
  BY <1>3, <1>7, <1>8, <1>9, PushedKeeps
<1>11. Len(orders') \in Orders
  BY <1>3, ArrivalPrices DEF BookInv
<1>12. QED BY <1>10, <1>11

\* A cancellation leaves the heaps alone.
LEMMA RemoveLeavesHeaps ==
    ASSUME BookInv, NEW o \in book, RemoveOrder(o)
    PROVE  BookInv' /\ price' = price /\ queue' = queue
<1>1. book' = book \ {o} /\ orders' = orders /\ queue' = queue
  BY DEF RemoveOrder
<1>2. Arrived' = Arrived /\ price' = price
  BY <1>1 DEF Arrived, price
<1>3. BookTypeOK'
  BY <1>1, <1>2 DEF BookInv, BookTypeOK
<1>4. BookOrdersAreQueued'
  BY <1>1 DEF BookInv, BookOrdersAreQueued, Copies
<1>5. QED BY <1>1, <1>2, <1>3, <1>4 DEF BookInv

\* The first entry of a side is taken: the best one, and one copy of it.
LEMMA TakeFirstTakes ==
    ASSUME BookInv, NEW s \in BookSides, TakeFirst(s)
    PROVE  /\ BookInv' /\ price' = price /\ \A z \in BookSides \ {s} : queue'[z] = queue[z]
           /\ Head(queue[s]) \in Orders /\ Copies(s, Head(queue[s])) > 0
           /\ \A x \in Orders : Copies(s, x) > 0 => price[x] <= price[Head(queue[s])]
           /\ \A x \in Orders : Copies(s, x)' = Copies(s, x) - IF x = Head(queue[s]) THEN 1 ELSE 0
<1>1. PICK q : q = queue[s]
  OBVIOUS
<1>2. PICK r : r = HeapPop(price, q)
  OBVIOUS
<1>3. PICK e : e = Head(q)
  OBVIOUS
<1>4. /\ q # <<>> /\ queue' = [queue EXCEPT ![s] = r] /\ book' = book \ {e} /\ orders' = orders
  BY <1>1, <1>2, <1>3 DEF TakeFirst
<1>5. /\ BookTypeOK /\ q \in Seq(Arrived) /\ q \in Seq(Orders) /\ Priced(price, q) /\ IsHeap(price, q)
      /\ Arrived \subseteq Orders /\ queue \in [BookSides -> Seq(Arrived)]
      /\ \A z \in BookSides : Len(queue[z]) <= MaxEntries /\ queue[z] \in Seq(Orders)
  BY <1>1, ArrivedArePriced DEF BookInv, BookTypeOK
<1>6. e = q[1] /\ 1 \in 1 .. Len(q) /\ e \in Orders
  BY <1>3, <1>4, <1>5
<1>7. Arrived' = Arrived /\ price' = price
  BY <1>4 DEF Arrived, price
<1>8. /\ r \in Seq(Arrived) /\ Len(r) = Len(q) - 1 /\ IsHeap(price, r)
      /\ \A x : CopiesIn(r, x) = CopiesIn(q, x) - IF x = e THEN 1 ELSE 0
  BY <1>2, <1>4, <1>5, <1>6, PopHeaps
<1>9. queue'[s] = r /\ \A z \in BookSides \ {s} : queue'[z] = queue[z]
  BY <1>4, <1>5
<1>10. r \in Seq(Orders)
  BY <1>5, <1>8
<1>11. \A x : Copies(s, x) = CopiesIn(q, x) /\ Copies(s, x) \in Nat
  BY <1>1, <1>5, CountsPlaces
<1>12. ASSUME NEW x PROVE Copies(s, x)' = Copies(s, x) - IF x = e THEN 1 ELSE 0
  <2>1. DOMAIN r = 1 .. Len(r)
    BY <1>10
  <2>2. {i \in DOMAIN r : r[i] = x} = PlacesOf(r, x)
    BY <2>1 DEF PlacesOf
  <2>3. Copies(s, x)' = CopiesIn(r, x)
    BY <1>9, <2>2 DEF Copies, CopiesIn
  <2>4. QED BY <1>8, <1>11, <2>3
<1>13. \A z \in BookSides \ {s} : \A x : Copies(z, x)' = Copies(z, x)
  BY <1>9 DEF Copies
<1>14. BookTypeOK'
  <2>1. Len(r) <= MaxEntries
    <3>1. Len(q) \in Nat /\ Len(q) <= MaxEntries
      BY <1>1, <1>5
    <3>2. QED BY <3>1, <1>8, BookBoundsAssumption
  <2>2. queue' \in [BookSides -> Seq(Arrived)] /\ \A z \in BookSides : Len(queue'[z]) <= MaxEntries
    BY <1>4, <1>5, <1>8, <1>9, <2>1
  <2>3. QED BY <1>4, <1>5, <1>7, <2>2 DEF BookTypeOK
<1>15. BookOrdersAreQueued'
  <2>1. ASSUME NEW o \in book' PROVE \E z : z = orders'[o].side /\ Copies(z, o)' > 0
    <3>1. o \in book /\ o # e /\ o \in Arrived
      BY <1>4, <1>5 DEF BookTypeOK
    <3>2. PICK z : z = orders[o].side
      OBVIOUS
    <3>3. z \in BookSides
      BY <1>5, <3>1, <3>2, SidesOfArrived
    <3>4. Copies(z, o) > 0
      BY <3>1, <3>2 DEF BookInv, BookOrdersAreQueued
    <3>5. Copies(z, o)' = Copies(z, o)
      BY <1>11, <1>12, <1>13, <3>1, <3>3
    <3>6. QED BY <1>4, <3>2, <3>4, <3>5
  <2>2. QED BY <2>1 DEF BookOrdersAreQueued, Copies
<1>16. \A z \in BookSides : IsHeap(price', queue'[z])
  BY <1>7, <1>8, <1>9 DEF BookInv
<1>17. Copies(s, e) > 0
  BY <1>1, <1>5, <1>6, HeldAreQueued
<1>18. ASSUME NEW x \in Orders, Copies(s, x) > 0 PROVE price[x] <= price[e]
  <2>1. PICK i \in 1 .. Len(q) : q[i] = x
    BY <1>1, <1>5, <1>18, HeldAreQueued
  <2>2. QED BY <1>5, <1>6, <2>1, RootIsBest
<1>19. BookInv'
  BY <1>14, <1>15, <1>16 DEF BookInv
<1>20. QED BY <1>1, <1>3, <1>6, <1>7, <1>9, <1>12, <1>17, <1>18, <1>19

-----------------------------------------------------------------------------
\* A step of the book, as one side sees it.
BagMoves(s) ==
    /\ \A e \in Orders : Copies(s, e) > 0 => price'[e] = price[e]
    /\ \/ CopiesOn(s)' = CopiesOn(s)
       \/ \E e \in Orders :
             \/ \E n \in {1, 2} : CopiesOn(s)' = [CopiesOn(s) EXCEPT ![e] = @ + n]
             \/ /\ Copies(s, e) > 0 /\ \A f \in Orders : Copies(s, f) > 0 => price[f] <= price[e]
                /\ CopiesOn(s)' = [CopiesOn(s) EXCEPT ![e] = @ - 1]

\* An entry of a heap is an order that came in, so it keeps its price.
LEMMA PricesAreKept ==
    ASSUME BookInv, PricesStay, NEW s \in BookSides, NEW e \in Orders, Copies(s, e) > 0
    PROVE  price'[e] = price[e]
<1>1. queue[s] \in Seq(Arrived) /\ queue[s] \in Seq(Orders)
  BY ArrivedArePriced DEF BookInv
<1>2. PICK i \in 1 .. Len(queue[s]) : queue[s][i] = e
  BY <1>1, HeldAreQueued
<1>3. e \in Arrived
  BY <1>1, <1>2
<1>4. QED BY <1>3 DEF PricesStay

\* A side whose array is left alone counts what it counted.
LEMMA OtherSideRests ==
    ASSUME NEW z \in BookSides, queue'[z] = queue[z]
    PROVE  CopiesOn(z)' = CopiesOn(z)
BY DEF CopiesOn, Copies

\* To the bag of each side, an order that comes in is an insertion or nothing.
LEMMA GainIsInsert ==
    ASSUME BookInv, NEW s \in BookSides, NEW e \in Orders, NEW n \in {1, 2}, Gains(s, e, n), PricesStay,
           \A z \in BookSides \ {s} : queue'[z] = queue[z], NEW z \in BookSides
    PROVE  BagMoves(z)
<1>1. \A x \in Orders : Copies(z, x) > 0 => price'[x] = price[x]
  BY PricesAreKept
<1>2. CASE z # s
  BY <1>1, <1>2, OtherSideRests DEF BagMoves
<1>3. CASE z = s
  <2>1. \A x \in Orders : Copies(s, x)' = IF x = e THEN Copies(s, x) + n ELSE Copies(s, x)
    <3>1. \A x \in Orders : Copies(s, x) \in Nat
      BY ArrivedArePriced, CountsPlaces DEF BookInv
    <3>2. QED BY <3>1 DEF Gains
  <2>2. CopiesOn(s)' = [CopiesOn(s) EXCEPT ![e] = @ + n]
    BY <2>1 DEF CopiesOn
  <2>3. QED BY <1>1, <1>3, <2>2 DEF BagMoves
<1>4. QED BY <1>2, <1>3

\* To the bag of each side, a pop is an extraction of a best entry or nothing.
LEMMA TakeIsExtract ==
    ASSUME BookInv, NEW s \in BookSides, TakeFirst(s), NEW z \in BookSides
    PROVE  BagMoves(z)
<1>1. PICK e : e = Head(queue[s])
  OBVIOUS
<1>2. /\ price' = price /\ \A y \in BookSides \ {s} : queue'[y] = queue[y]
      /\ e \in Orders /\ Copies(s, e) > 0
      /\ \A x \in Orders : Copies(s, x) > 0 => price[x] <= price[e]
      /\ \A x \in Orders : Copies(s, x)' = Copies(s, x) - IF x = e THEN 1 ELSE 0
  BY <1>1, TakeFirstTakes
<1>3. CASE z # s
  BY <1>2, <1>3, OtherSideRests DEF BagMoves
<1>4. CASE z = s
  <2>1. \A x \in Orders : Copies(s, x)' = IF x = e THEN Copies(s, x) - 1 ELSE Copies(s, x)
    <3>1. \A x \in Orders : Copies(s, x) \in Nat
      BY ArrivedArePriced, CountsPlaces DEF BookInv
    <3>2. QED BY <1>2, <3>1
  <2>2. CopiesOn(s)' = [CopiesOn(s) EXCEPT ![e] = @ - 1]
    BY <2>1 DEF CopiesOn
  <2>3. QED BY <1>2, <1>4, <2>2 DEF BagMoves
<1>5. QED BY <1>3, <1>4

\* An empty book has the invariant, and empty bags.
LEMMA BookStarts ==
    ASSUME BookInit PROVE BookInv /\ \A s \in BookSides : CopiesOn(s) = [o \in Orders |-> 0]
<1>1. /\ orders = <<>> /\ book = {} /\ queue \in [BookSides -> Seq({})]
      /\ \A s \in BookSides : queue[s] = <<>> /\ Len(queue[s]) = 0
  BY DEF BookInit
<1>2. BookTypeOK
  BY <1>1, BookBoundsAssumption DEF BookTypeOK, Arrived
<1>3. BookOrdersAreQueued /\ \A s \in BookSides : IsHeap(price, queue[s])
  BY <1>1 DEF BookOrdersAreQueued, IsHeap
<1>4. ASSUME NEW s \in BookSides, NEW o \in Orders PROVE Copies(s, o) = 0
  <2>1. {i \in DOMAIN queue[s] : queue[s][i] = o} = {}
    BY <1>1
  <2>2. QED BY <2>1, FS_EmptySet DEF Copies
<1>5. QED BY <1>2, <1>3, <1>4 DEF BookInv, CopiesOn

\* Every call keeps the invariant, and is a step of the bag of each side.
LEMMA BookStepKeeps ==
    ASSUME BookInv, [BookNext]_bookVars PROVE BookInv' /\ \A z \in BookSides : BagMoves(z)
<1>1. ASSUME NEW s \in BookSides, NEW p \in Prices, AddOrder(s, p) PROVE BookInv' /\ \A z \in BookSides : BagMoves(z)
  BY <1>1, AddAdds, GainIsInsert
<1>2. ASSUME NEW s \in BookSides, NEW p \in Prices, AddTwice(s, p) PROVE BookInv' /\ \A z \in BookSides : BagMoves(z)
  BY <1>2, AddTwiceAdds, GainIsInsert
<1>3. ASSUME NEW o \in book, RemoveOrder(o) PROVE BookInv' /\ \A z \in BookSides : BagMoves(z)
  BY <1>3, RemoveLeavesHeaps, OtherSideRests DEF BagMoves
<1>4. ASSUME NEW s \in BookSides, TakeFirst(s) PROVE BookInv' /\ \A z \in BookSides : BagMoves(z)
  BY <1>4, TakeFirstTakes, TakeIsExtract
<1>5. CASE UNCHANGED bookVars
  <2>1. orders' = orders /\ queue' = queue /\ book' = book
    BY <1>5 DEF bookVars
  <2>2. Arrived' = Arrived /\ price' = price
    BY <2>1 DEF Arrived, price
  <2>3. BookInv'
    BY <2>1, <2>2 DEF BookInv, BookTypeOK, BookOrdersAreQueued, Copies
  <2>4. QED BY <2>1, <2>2, <2>3, OtherSideRests DEF BagMoves
<1>6. QED BY <1>1, <1>2, <1>3, <1>4, <1>5 DEF BookNext

\* Whatever was added once or twice, cancelled and taken before, both arrays are
\* heaps by price and each order of the map is in the array of its side.
THEOREM BookHolds == BookSpec => []BookInv
<1>1. BookInit => BookInv
  BY BookStarts
<1>2. BookInv /\ [BookNext]_bookVars => BookInv'
  BY BookStepKeeps
<1>3. QED BY <1>1, <1>2, PTL DEF BookSpec

\* The book stays well typed, for any numbers of orders, prices and entries.
THEOREM BookStaysTyped == BookSpec => []BookTypeOK
<1>1. BookInv => BookTypeOK
  BY DEF BookInv
<1>2. QED BY <1>1, BookHolds, PTL

\* For any history of calls: no order of the map has dropped out of its heap.
THEOREM LiveOrdersStayQueued == BookSpec => []BookOrdersAreQueued
<1>1. BookInv => BookOrdersAreQueued
  BY DEF BookInv
<1>2. QED BY <1>1, BookHolds, PTL

\* heap.Push and heap.Pop, as container/heap sifts, implement a priority bag on each
\* side of the book, for heaps of any size: each pop takes one copy of an entry with
\* the highest price, and sifting loses and makes no entry.
THEOREM HeapsImplementBags == BookSpec => SidesImplementBag
<1>1. BookInit => BidBag!BagInit /\ AskBag!BagInit
  BY BookStarts DEF BidBag!BagInit, AskBag!BagInit, BookSides
<1>2. BookInv /\ [BookNext]_bookVars => [BidBag!BagNext]_(BidBag!bagVars) /\ [AskBag!BagNext]_(AskBag!bagVars)
  <2>1. SUFFICES ASSUME BookInv, [BookNext]_bookVars PROVE BidBag!BagNext /\ AskBag!BagNext
    OBVIOUS
  <2>2. BagMoves("bid") /\ BagMoves("ask")
    BY <2>1, BookStepKeeps DEF BookSides
  <2>3. BidBag!BagNext
    BY <2>2 DEF BagMoves, CopiesOn, BidBag!BagNext, BidBag!PricesKept, BidBag!Held, BidBag!Insert, BidBag!Extract, BidBag!Best
  <2>4. AskBag!BagNext
    BY <2>2 DEF BagMoves, CopiesOn, AskBag!BagNext, AskBag!PricesKept, AskBag!Held, AskBag!Insert, AskBag!Extract, AskBag!Best
  <2>5. QED BY <2>3, <2>4
<1>3. QED BY <1>1, <1>2, BookHolds, PTL DEF BookSpec, SidesImplementBag, BidBag!BagSpec, AskBag!BagSpec
=============================================================================
