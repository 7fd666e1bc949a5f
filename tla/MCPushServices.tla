---- MODULE MCPushServices ----
(* The gateway for TLC: one kind of subscription at a time; the deals feed *)
(* has more steps of its own, so its clients ask less.                     *)
EXTENDS PushServices

MCDeals  == [id : 1 .. 3]
MCThemes == {{"deals"}, {"state"}, {"price"}, {"order"}, {"asset"}}
MCRequests == [t \in MCThemes |-> IF t = {"deals"} THEN 2 ELSE 3]
====
