--------------------------- MODULE AccountLedger ---------------------------
(***************************************************************************)
(* What the balance table promises: an account owns a total, a part of it  *)
(* is on hold, and nothing but a deposit or a withdrawal changes the       *)
(* total.  A withdrawal takes only what is not on hold; a hold and a       *)
(* release move value inside one account and create none.  A move that is  *)
(* refused moves nothing.                                                  *)
(***************************************************************************)
EXTENDS Integers

CONSTANT Keys          \* the (user, asset) pairs

VARIABLES total, held,
          move         \* what was asked for last
ledgerVars == <<total, held, move>>

LedgerInit == /\ total \in [Keys -> Nat]
              /\ held \in [Keys -> Nat]
              /\ \A k \in Keys : held[k] <= total[k]

OnlyAt(k) == /\ total' = [total EXCEPT ![k] = total'[k]]
             /\ held' = [held EXCEPT ![k] = held'[k]]

\* A change is a deposit or a withdrawal, as its sign has it.
Deposit(k) == /\ move' \in {"deposit", "change"}
              /\ total'[k] >= total[k] /\ UNCHANGED held
Withdraw(k) == /\ move' \in {"withdraw", "change"}
               /\ held[k] <= total'[k] /\ total'[k] <= total[k] /\ UNCHANGED held
Hold(k) == /\ move' = "hold"
           /\ held[k] <= held'[k] /\ held'[k] <= total[k] /\ UNCHANGED total
Release(k) == /\ move' = "release"
              /\ 0 <= held'[k] /\ held'[k] <= held[k] /\ UNCHANGED total

LedgerNext == \E k \in Keys :
    OnlyAt(k) /\ (Deposit(k) \/ Withdraw(k) \/ Hold(k) \/ Release(k))

\* Only these moves, at one account at a time.
LedgerSpec == LedgerInit /\ [][LedgerNext]_ledgerVars
=============================================================================
