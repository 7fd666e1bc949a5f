------------------------------ MODULE Balances ------------------------------
(***************************************************************************)
(* The balance table of the matching engine (balance/balance.go) as        *)
(* operators on a function from keys to accounts.  Every method of         *)
(* BalanceManager runs under bm.mu, so one call is one atomic change of    *)
(* the table.  A method that returns an error leaves the table as it was:  *)
(* most callers in the engine drop that error, so each operator returns    *)
(* the unchanged table there.                                              *)
(***************************************************************************)
EXTENDS Integers

\* An entry of bm.balances; known = FALSE is a key the map does not hold, and
\* GetBalance answers (0, 0) for it.
Account == [known: BOOLEAN, available: Int, frozen: Int]
NoAccount == [known |-> FALSE, available |-> 0, frozen |-> 0]

\* SetBalance, and the entry Add and Change create: it replaces what was there.
SetBalance(bal, k, available, frozen) ==
    [bal EXCEPT ![k] = [known |-> TRUE, available |-> available, frozen |-> frozen]]

\* Freeze (LockBalance): available -> frozen.
CanFreeze(bal, k, amount) == bal[k].known /\ bal[k].available >= amount
Freeze(bal, k, amount) ==
    IF CanFreeze(bal, k, amount)
    THEN SetBalance(bal, k, bal[k].available - amount, bal[k].frozen + amount)
    ELSE bal

\* Unfreeze (UnlockBalance): frozen -> available.
CanUnfreeze(bal, k, amount) == bal[k].known /\ bal[k].frozen >= amount
\* Mutant: what is released stays frozen.
UnfreezeKeepsFrozen(bal, k, amount) ==
    IF CanUnfreeze(bal, k, amount)
    THEN SetBalance(bal, k, bal[k].available + amount, bal[k].frozen)
    ELSE bal
Unfreeze(bal, k, amount) ==
    IF CanUnfreeze(bal, k, amount)
    THEN SetBalance(bal, k, bal[k].available + amount, bal[k].frozen - amount)
    ELSE bal

\* Sub (DeductBalance): takes from available only.
CanSub(bal, k, amount) == bal[k].known /\ bal[k].available >= amount
\* Mutant: no look at what is available.
SubUnchecked(bal, k, amount) ==
    SetBalance(bal, k, bal[k].available - amount, bal[k].frozen)
Sub(bal, k, amount) ==
    IF CanSub(bal, k, amount)
    THEN SetBalance(bal, k, bal[k].available - amount, bal[k].frozen)
    ELSE bal

\* Add (AddBalance): creates the entry if need be, and has no error.
Add(bal, k, amount) == SetBalance(bal, k, bal[k].available + amount, bal[k].frozen)

\* Change: a signed change of available; a negative one needs an entry that
\* covers it.
CanChange(bal, k, change) ==
    change < 0 => bal[k].known /\ bal[k].available >= -change
Change(bal, k, change) ==
    IF CanChange(bal, k, change)
    THEN SetBalance(bal, k, bal[k].available + change, bal[k].frozen)
    ELSE bal

=============================================================================
