----------------------------- MODULE MCDepthPush -----------------------------
(* The depth feed for TLC. *)
EXTENDS DepthPush, TLC

AllCallers == Workers \union {Poller}
AllBooks == [Prices -> 0 .. MaxAmount]
Of(n) == [p \in Prices |-> n]
(* One key, a late answer and a change of its book; two keys of which one  *)
(* gets the answers of the other.                                          *)
MCWorlds == {[messages |-> {m \in Messages : m.kind = "subscribe" => m.key = "k1"},
              books |-> [k \in Keys |-> Of(1)], timeouts |-> 1, changes |-> 1],
             [messages |-> {m \in Messages : m.kind = "subscribe"},
              books |-> ("k1" :> Of(1) @@ "k2" :> Of(2)), timeouts |-> 0, changes |-> 0]}
=============================================================================
