--------------------------- MODULE BalanceManager ---------------------------
(***************************************************************************)
(* The balance manager as a component: any goroutine calls any method, the *)
(* mutex makes each call one step, and the caller gets an error or nil.    *)
(* The table starts as the last snapshot left it (SetBalance is called by  *)
(* LoadBalancesToEngine only).                                             *)
(***************************************************************************)
EXTENDS Balances

CONSTANTS Keys,         \* the (user, asset) pairs
          Amounts,      \* the amounts a caller passes
          MaxFunds      \* bound of the model on what one account may own

\* Callers pass amounts that are not negative: prices and amounts of orders are
\* checked to be positive, and HandleBalanceUpdate strips the sign.
ASSUME AmountsAssumption == Amounts \subseteq Nat
ASSUME MaxFundsAssumption == MaxFunds \in Nat

VARIABLES balances,     \* bm.balances
          call,         \* the method that was called last
          err           \* what it returned
vars == <<balances, call, err>>

Methods == {"none", "Freeze", "Unfreeze", "Sub", "Add", "Change"}

Errors == {"nil", "ErrInsufficientBalance", "ErrBalanceNotFound", "ErrInvalidAmount"}

Total(k) == balances[k].available + balances[k].frozen

\* Every account is well typed.
TypeOK == /\ balances \in [Keys -> Account]
          /\ call \in Methods
          /\ err \in Errors

Loaded(a, f) == [known |-> TRUE, available |-> a, frozen |-> f]
Init == /\ balances \in [Keys -> {NoAccount}
                                 \union {Loaded(a, f) : a, f \in 0 .. MaxFunds}]
        /\ \A k \in Keys : Total(k) <= MaxFunds
        /\ call = "none"
        /\ err = "nil"

\* The model's bound: calls that would take an account over MaxFunds are not made.
Affordable(k, amount) == Total(k) + amount <= MaxFunds

FreezeCall(k, amount) ==
    /\ call' = "Freeze"
    /\ balances' = Freeze(balances, k, amount)
    /\ err' = IF CanFreeze(balances, k, amount) THEN "nil" ELSE "ErrInsufficientBalance"

UnfreezeCall(k, amount) ==
    /\ call' = "Unfreeze"
    /\ balances' = Unfreeze(balances, k, amount)
    /\ err' = IF ~balances[k].known THEN "ErrBalanceNotFound"
              ELSE IF CanUnfreeze(balances, k, amount) THEN "nil" ELSE "ErrInvalidAmount"

\* Mutant: an error that the package does not declare.
SubCallOtherError(k, amount) ==
    /\ call' = "Sub"
    /\ balances' = Sub(balances, k, amount)
    /\ err' = IF CanSub(balances, k, amount) THEN "nil" ELSE "ErrBalanceTooLow"
SubCall(k, amount) ==
    /\ call' = "Sub"
    /\ balances' = Sub(balances, k, amount)
    /\ err' = IF ~balances[k].known THEN "ErrBalanceNotFound"
              ELSE IF CanSub(balances, k, amount) THEN "nil" ELSE "ErrInsufficientBalance"

AddCall(k, amount) ==
    /\ call' = "Add"
    /\ Affordable(k, amount)
    /\ balances' = Add(balances, k, amount)
    /\ err' = "nil"

ChangeCall(k, change) ==
    /\ call' = "Change"
    /\ Affordable(k, change)
    /\ balances' = Change(balances, k, change)
    /\ err' = IF CanChange(balances, k, change) THEN "nil"
              ELSE IF balances[k].known THEN "ErrInsufficientBalance"
              ELSE "ErrBalanceNotFound"

Next == \E k \in Keys, amount \in Amounts :
    \/ FreezeCall(k, amount)
    \/ UnfreezeCall(k, amount)
    \/ SubCall(k, amount)
    \/ AddCall(k, amount)
    \/ ChangeCall(k, amount)
    \/ ChangeCall(k, -amount)

Spec == Init /\ [][Next]_vars

-----------------------------------------------------------------------------
\* No sequence of calls, of any callers in any order and whatever errors they
\* ignored before, overdraws an account or its frozen part; a key the map does
\* not hold reads as zero (balance.go: the comparisons in Freeze, Unfreeze, Sub
\* and Change).
AccountOK(b) == /\ b.available >= 0 /\ b.frozen >= 0
                /\ ~b.known => b = NoAccount
NeverOverdrawn == \A k \in Keys : AccountOK(balances[k])

\* The table implements the ledger: total is available plus frozen, what is on
\* hold is frozen.  Freezing and unfreezing never change what an account owns, no
\* call takes value that is on hold, and only Add, Sub and Change change the total,
\* each in its direction.
total == [k \in Keys |-> Total(k)]
held == [k \in Keys |-> balances[k].frozen]
move == [none |-> "none", Freeze |-> "hold", Unfreeze |-> "release", Sub |-> "withdraw",
         Add |-> "deposit", Change |-> "change"][call]
Ledger == INSTANCE AccountLedger
LedgerSpec == Ledger!LedgerSpec

=============================================================================
