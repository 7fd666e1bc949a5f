----------------------------- MODULE MCMatching -----------------------------
(* Matching for TLC: two users, and slices whose users are rich, or have their *)
(* money available, on hold or both, or have no account.                      *)
EXTENDS Matching

Holds(available, frozen) == [known |-> TRUE, available |-> available, frozen |-> frozen]

Big == 20 * FeeDen * TickDen
Rich == [k \in Keys |-> Holds(Big, 0)]
\* One user has money available and on hold, the other only on hold; one has stock
\* available, the other has no account.
Mixed == CHOOSE f \in [Keys -> {Holds(Big, Big), Holds(Big, 0), Holds(0, Big), NoAccount}] :
            \E u, v \in Users :
               /\ f[<<u, "money">>] = Holds(Big, Big) /\ f[<<u, "stock">>] = Holds(Big, 0)
               /\ f[<<v, "money">>] = Holds(0, Big) /\ f[<<v, "stock">>] = NoAccount
MixedOnly == {Mixed}
RichOnly == {Rich}
=============================================================================
