------------------------------ MODULE MCRecovery ------------------------------
(* Databases a process may find: none yet, one without a slice, slices with and  *)
(* without a log to replay, and one whose replay fails.                          *)
EXTENDS Recovery

Row(u, t, b) == [user |-> u, t |-> t, balance |-> b]
Found(layout, end, rows, operlog, inFile) ==
    [layout |-> layout, end |-> end, rows |-> rows, operlog |-> operlog, file |-> inFile]

\* What is frozen comes before what is available, so the account is rich; or after.
RichRows(u) == <<Row(u, "frozen", 1), Row(u, "available", 2)>>
PoorRows(u) == <<Row(u, "available", 2), Row(u, "frozen", 0)>>
OrdersFile == {[id |-> 1, active |-> TRUE], [id |-> 2, active |-> FALSE]}

AllWorlds == UNION {{Found("none", -1, <<>>, -1, {}),
                     Found("legacy", -1, <<>>, -1, OrdersFile),
                     Found("legacy", 0, PoorRows(u), 1, {}),
                     Found("legacy", 1, RichRows(u), 0, OrdersFile),
                     Found("legacy", 1, RichRows(u), 1, OrdersFile)} : u \in Users}
=============================================================================
