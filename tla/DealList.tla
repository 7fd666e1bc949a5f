------------------------------ MODULE DealList ------------------------------
(***************************************************************************)
(* What the market-data service promises to those who poll it: a list of   *)
(* at most Cap deals, newest last, that grows one deal at a time.  While   *)
(* the service runs it leaves no deal out: the next one is the one after   *)
(* the newest it ever listed, or one that came before (the topic delivers  *)
(* again, and a restarted engine starts its ids again).  Only a restart of *)
(* the service may leave deals out - and kafka, when it goes back in the   *)
(* topic to before the first deal that this run of the service listed.     *)
(***************************************************************************)
EXTENDS Integers, SequencesExt

CONSTANTS Deals,   \* records with an id
          Cap      \* MaxDeals (100 in the code)

ASSUME CapAssumption == Cap \in Nat \ {0}

VARIABLES list,    \* the deals
          top,     \* the highest id listed since the service started
          fresh    \* nothing has been listed since it started, or kafka went back
dealListVars == <<list, top, fresh>>

Newest(s, n) == SubSeq(s, IF Len(s) > n THEN Len(s) - n + 1 ELSE 1, Len(s))

DealListInit == list = <<>> /\ top = 0 /\ fresh = TRUE

ListDeal(d) ==
  /\ fresh \/ d.id <= top + 1
  /\ list' = Newest(Append(list, d), Cap)
  /\ top' = IF d.id > top THEN d.id ELSE top
  /\ fresh' = FALSE

ServiceRestarts == list' = <<>> /\ top' = 0 /\ fresh' = TRUE

TopicRewinds == fresh' = TRUE /\ UNCHANGED <<list, top>>

DealListNext == (\E d \in Deals : ListDeal(d)) \/ ServiceRestarts \/ TopicRewinds

(* The list as its pollers may count on it.                               *)
DealListSpec == DealListInit /\ [][DealListNext]_dealListVars
=============================================================================
