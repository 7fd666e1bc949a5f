------------------------------ MODULE RpcClient ------------------------------
(***************************************************************************)
(* Client.Send (accessws/rpc/client.go): all goroutines of the gateway     *)
(* share one connection to the engine.  A lock covers the write; then      *)
(* every caller reads, and takes whatever has arrived: the answers carry   *)
(* the sequence number of their request and nobody compares it.  A read    *)
(* takes all the bytes there are, so two answers that have both arrived    *)
(* come as one body that is not JSON.  A call that times out leaves its    *)
(* answer in the connection, and a connection that ends is never replaced. *)
(* The peer is a server that understands the client's frames: it answers   *)
(* requests in any order, each with the book at that moment.               *)
(***************************************************************************)
EXTENDS Naturals, SequencesExt

CONSTANTS Callers,      \* the goroutines that call Send
          NoCaller,     \* the owner of an answer nobody waits for any more
          Keys,         \* what a request asks for
          Books,        \* what an answer can hold
          Garbage,      \* a body that is not JSON
          MaxTimeouts   \* bound of the model on the answers that come too late

ASSUME CallersAssumption == /\ NoCaller \notin Callers /\ Garbage \notin Books
                            /\ MaxTimeouts \in Nat

VARIABLES book,         \* the peer's book for each key
          open,         \* the connection is up
          waiting,      \* the callers in Send
          inflight,     \* requests the peer has not answered
          wire,         \* answers that have arrived and were not read
          shared,       \* some call began while the connection was in use
          timeouts      \* how many answers were given up
rpcVars == <<book, open, waiting, inflight, wire, shared, timeouts>>

Request == [caller : Callers \union {NoCaller}, key : Keys]
Reply == [caller : Callers \union {NoCaller}, body : Books]

\* The connection and the calls on it are well typed.
RpcTypeOK == /\ book \in [Keys -> Books]
             /\ open \in BOOLEAN /\ shared \in BOOLEAN
             /\ waiting \subseteq Callers
             /\ inflight \in Seq(Request) /\ wire \in Seq(Reply)
             /\ timeouts \in 0 .. MaxTimeouts

RpcInit(b, t) == /\ book = b
              /\ open = TRUE
              /\ waiting = {}
              /\ inflight = <<>> /\ wire = <<>>
              /\ shared = FALSE
              /\ timeouts = t

InUse == waiting # {} \/ inflight # <<>> \/ wire # <<>>

\* Nobody waits for the caller's answer any more.
Disown(q, c) == [i \in DOMAIN q |-> IF q[i].caller = c THEN [q[i] EXCEPT !.caller = NoCaller] ELSE q[i]]

\* Mutant: the request is written twice, as a retry would.
SendTwice(c, k) ==
    /\ c \notin waiting
    /\ waiting' = waiting \union {c}
    /\ inflight' = IF open THEN inflight \o [i \in 1 .. 2 |-> [caller |-> c, key |-> k]] ELSE inflight
    /\ shared' = (shared \/ InUse)
    /\ UNCHANGED <<book, open, wire, timeouts>>
\* Send up to the unlock; what is written to a connection that ended goes nowhere.
Send(c, k) ==
    /\ c \notin waiting
    /\ waiting' = waiting \union {c}
    /\ inflight' = IF open THEN Append(inflight, [caller |-> c, key |-> k]) ELSE inflight
    /\ shared' = (shared \/ InUse)
    /\ UNCHANGED <<book, open, wire, timeouts>>

\* The peer's side.
Answer(i) ==
    /\ wire' = Append(wire, [caller |-> inflight[i].caller, body |-> book[inflight[i].key]])
    /\ inflight' = RemoveAt(inflight, i)
    /\ UNCHANGED <<book, open, waiting, shared, timeouts>>
BookChanges(k, b) ==
    /\ book' = [book EXCEPT ![k] = b]
    /\ UNCHANGED <<open, waiting, inflight, wire, shared, timeouts>>
HangUp ==
    /\ open
    /\ open' = FALSE
    /\ inflight' = <<>>
    /\ UNCHANGED <<book, waiting, wire, shared, timeouts>>

\* The body of a read that takes the first n answers.
Received(n) == IF n = 1 THEN Head(wire).body ELSE Garbage

\* The rest of Send, for a caller that gets something.
Read(c, n) ==
    /\ c \in waiting
    /\ n \in 1 .. Len(wire)
    /\ waiting' = waiting \ {c}
    /\ wire' = Disown(SubSeq(wire, n + 1, Len(wire)), c)
    /\ inflight' = Disown(inflight, c)
    /\ UNCHANGED <<book, open, shared, timeouts>>

\* ... and for one that gets an error: the deadline passes, or the connection ended.
Expected(c) == \E q \in {inflight, wire} : \E i \in DOMAIN q : q[i].caller = c
GiveUp(c) ==
    /\ c \in waiting
    /\ timeouts' = IF Expected(c) THEN timeouts + 1 ELSE timeouts
    /\ timeouts' <= MaxTimeouts
    /\ waiting' = waiting \ {c}
    /\ inflight' = Disown(inflight, c)
    /\ wire' = Disown(wire, c)
    /\ UNCHANGED <<book, open, shared>>

\* An answer nobody waits for is on its way: the next read takes it.
Shifted == Expected(NoCaller)

\* As long as every call found the connection empty (client.go 39-62 compares no
\* sequence number), a read takes one answer, the one the caller asked for.
OwnAnswer ==
    [][\A c \in waiting \ waiting' :
           wire' # wire /\ ~shared => Len(wire) = 1 /\ Head(wire).caller = c]_rpcVars
=============================================================================
