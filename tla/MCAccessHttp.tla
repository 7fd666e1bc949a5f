---------------------------- MODULE MCAccessHttp ----------------------------
(* The gateway for TLC: a question about the first order, and one whose    *)
(* parameters the front ends refuse or replace.                            *)
EXTENDS AccessHttp

Ask(user, id, offset, limit) == [user |-> user, id |-> id, offset |-> offset, limit |-> limit]

(* marketprice is checked between the two and like them. *)
MCPools     == <<"matchengine", "readhistory">>
MCAsked     == {Ask(1, 1, 0, 2)}
MCQuestions == {Ask(1, 1, 0, 2), Ask(0, 2, 1, -1)}
=============================================================================
