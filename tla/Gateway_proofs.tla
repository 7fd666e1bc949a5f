--------------------------- MODULE Gateway_proofs ---------------------------
(***************************************************************************)
(* Proofs about the HTTP gateway and what stands behind it.                *)
(* The market-data service, for any number of messages, crashes,           *)
(* rebalances and faults of redis and kafka, any intervals and any length  *)
(* of the list.  The history of finished orders and its readers, for any   *)
(* users, orders, shards, restarts and statements that fail, any           *)
(* questions, and any pools of the three backends that go up and down.     *)
(***************************************************************************)
EXTENDS MarketPrice, AccessHttp, SequenceTheorems, FiniteSetTheorems, TLAPS

(***************************************************************************)
(* The market-data service                                                 *)
(***************************************************************************)

\* The messages of the topic that are deals, and those that need not come again.
Dealt(o) == topic[o + 1] # Junk
Covered(o) == o \in handled \/ o \in lost \/ ~Dealt(o)
Offsets == 0 .. Len(topic) - 1
Fields == {"interval", "open", "high", "low", "close", "volume", "deal", "timestamp"}

\* The message in hand is a deal of the topic.
HandInv ==
  \/ msg = NoMsg
  \/ /\ msg \in [offset : Offsets, done : {"read", "klines", "listed"}]
     /\ Dealt(msg.offset)
StoreInv ==
  /\ nextID <= Len(topic) + 1 /\ top \in Nat
  /\ \A i \in Intervals : klines[i] = None \/ DOMAIN klines[i] = Fields

\* What lies below any of the offsets need not come again, but for the message in hand.
OffsetsInv ==
  /\ msg # NoMsg => /\ position <= msg.offset + 1 /\ lastOffset = None
                    /\ \A o \in 0 .. msg.offset - 1 : Covered(o)
  /\ msg.done = "listed" => msg.offset \in handled
  /\ \A o \in 0 .. position - 1 : Covered(o) \/ o = msg.offset
  /\ \A o \in 0 .. committed - 1 : Covered(o) \/ o = msg.offset
  /\ saved # None => \A o \in 0 .. saved - 1 : Covered(o)
  /\ lastOffset # None => \A o \in 0 .. lastOffset - 1 : Covered(o)
  /\ ~up => msg = NoMsg /\ since = None

\* A deal's id is at most one more than that of some deal since any earlier one.
IdsInv ==
  /\ \A s, o \in Offsets : s < o /\ Dealt(s) /\ Dealt(o) =>
        \E a \in s .. o - 1 : Dealt(a) /\ topic[o + 1].id <= topic[a + 1].id + 1
  /\ \A s \in Offsets : Dealt(s) =>
        \E a \in s .. Len(topic) - 1 : Dealt(a) /\ nextID <= topic[a + 1].id + 1

\* What this run of the service has listed: all from since on that it has read, or
\* that comes before the message in hand.
RunInv ==
  /\ since = None => top = 0
  /\ since # None => lastOffset = None /\ since \in Offsets /\ Dealt(since)
  /\ msg.done \in {"klines", "listed"} => since # None /\ since <= msg.offset
  /\ msg.done = "listed" => InHand.id <= top
  /\ since # None => \A o \in since .. position - 1 :
                        Dealt(o) => topic[o + 1].id <= top \/ o = msg.offset
  /\ since # None /\ msg # NoMsg => \A o \in since .. msg.offset - 1 :
                                       Dealt(o) => topic[o + 1].id <= top

\* The inductive invariant.
Typed == MarketTypeOK /\ HandInv /\ StoreInv
MarketInv == Typed /\ OffsetsInv /\ IdsInv /\ RunInv

-----------------------------------------------------------------------------
\* The larger of two.
LEMMA MaxOfTwo ==
  ASSUME NEW a \in Int, NEW b \in Int
  PROVE  Max({a, b}) = IF b > a THEN b ELSE a
<1>1. \E x \in {a, b} : \A y \in {a, b} : x >= y
  OBVIOUS
<1>2. Max({a, b}) \in {a, b} /\ \A y \in {a, b} : Max({a, b}) >= y
  BY <1>1 DEF Max
<1>3. QED BY <1>2

\* A kline starts at a multiple of its interval.
LEMMA StampsAreMultiples ==
  ASSUME NEW i \in Nat \ {0}, NEW time \in Nat
  PROVE  ToTimestamp(i, time) % i = 0
<1> DEFINE q == time \div i
<1>1. q \in Int
  OBVIOUS
<1> HIDE DEF q
<1>2. (q * i) % i = 0
  BY <1>1
<1>3. QED BY <1>2 DEF ToTimestamp, q

\* Adding a deal to a kline, or starting another, leaves one that starts where it should.
LEMMA KlinesStayInPlace ==
  ASSUME NEW i \in Nat \ {0}, NEW k, NEW d \in Deal, StartTime \in Nat,
         k = None \/ (DOMAIN k = Fields /\ k.timestamp % i = 0)
  PROVE  /\ DOMAIN AddToKline(k, i, d) = Fields
         /\ AddToKline(k, i, d).timestamp % i = 0
<1>1. d.time \in Nat
  BY DEF Deal
<1>2. CASE k = None \/ k.timestamp # ToTimestamp(i, d.time)
  <2>1. AddToKline(k, i, d) = FirstKline(i, d)
    BY <1>2 DEF AddToKline
  <2>2. DOMAIN FirstKline(i, d) = Fields /\ FirstKline(i, d).timestamp = ToTimestamp(i, d.time)
    BY DEF FirstKline, Fields
  <2>3. QED BY <1>1, <2>1, <2>2, StampsAreMultiples
<1>3. CASE ~(k = None \/ k.timestamp # ToTimestamp(i, d.time))
  <2>1. /\ DOMAIN AddToKline(k, i, d) = DOMAIN k
        /\ AddToKline(k, i, d).timestamp = k.timestamp
    BY <1>3 DEF AddToKline, Fields
  <2>2. QED BY <1>3, <2>1
<1>4. QED BY <1>2, <1>3

\* The list keeps the newest deals, as the abstract one does.
LEMMA ListKeepsNewest ==
  ASSUME NEW d \in Deal, deals \in Seq(Deal), Len(deals) <= MaxDeals
  PROVE  /\ AddDeal(d) \in Seq(Deal) /\ Len(AddDeal(d)) <= MaxDeals
         /\ AddDeal(d) = DealList!Newest(Append(deals, d), MaxDeals)
<1> DEFINE longer == Append(deals, d)
           n == Len(longer)
<1>1. /\ longer \in Seq(Deal) /\ n \in Nat /\ MaxDeals \in Nat \ {0}
      /\ \A i \in 1 .. n : longer[i] \in Deal
  BY MarketAssumption
<1>2. SubSeq(longer, 1, n) = longer
  BY <1>1, SubSeqFull
<1>3. AddDeal(d) = IF n > MaxDeals THEN SubSeq(longer, n - MaxDeals + 1, n) ELSE longer
  BY DEF AddDeal
<1>4. DealList!Newest(longer, MaxDeals) =
        SubSeq(longer, IF n > MaxDeals THEN n - MaxDeals + 1 ELSE 1, n)
  BY DEF DealList!Newest
<1> HIDE DEF longer
<1>5. CASE n > MaxDeals
  <2> DEFINE m == n - MaxDeals + 1
  <2>1. m \in Int /\ n \in Int /\ m >= 1 /\ m <= n /\ \A i \in m .. n : longer[i] \in Deal
    <3> HIDE DEF n
    <3>1. QED BY <1>1, <1>5
  <2>2. /\ SubSeq(longer, m, n) \in Seq(Deal)
        /\ Len(SubSeq(longer, m, n)) = IF m <= n THEN n - m + 1 ELSE 0
    <3> HIDE DEF m, n
    <3>1. QED BY <2>1, SubSeqProperties
  <2>3. n - m + 1 = MaxDeals
    <3> HIDE DEF n
    <3>1. QED BY <1>1
  <2>4. AddDeal(d) = SubSeq(longer, m, n)
    BY <1>3, <1>5
  <2>5. Len(AddDeal(d)) = MaxDeals
    <3> HIDE DEF m, n
    <3>1. QED BY <2>1, <2>2, <2>3, <2>4
  <2>6. AddDeal(d) = DealList!Newest(longer, MaxDeals)
    BY <1>4, <1>5, <2>4
  <2>7. Len(AddDeal(d)) <= MaxDeals /\ AddDeal(d) \in Seq(Deal)
    BY <1>1, <2>2, <2>4, <2>5
  <2>8. QED BY <2>6, <2>7 DEF longer
<1>6. CASE ~(n > MaxDeals)
  <2>1. AddDeal(d) = longer /\ n <= MaxDeals
    <3>1. AddDeal(d) = longer
      BY <1>3, <1>6
    <3> HIDE DEF n
    <3>2. QED BY <1>1, <1>6, <3>1
  <2>2. QED BY <1>1, <1>2, <1>4, <1>6, <2>1 DEF longer
<1>7. QED BY <1>5, <1>6
-----------------------------------------------------------------------------
\* What a step does to the topic: a message more, which has the engine's next id if
\* it is a deal, or none.
LEMMA TopicGrows ==
  ASSUME Typed, [MarketNext]_marketVars
  PROVE  \/ /\ topic' = topic
            /\ nextID' = nextID \/ nextID' = 1
         \/ \E m \in Deal \union {Junk} : Publish(m) /\ (m # Junk => m.id = nextID)
<1>1. ASSUME NEW p \in Prices, NEW a \in Amounts, PublishDeal(p, a)
      PROVE  \E m \in Deal \union {Junk} : Publish(m) /\ (m # Junk => m.id = nextID)
  <2> DEFINE m == [id |-> nextID, time |-> now, price |-> p, amount |-> a]
  <2>1. Publish(m) /\ Len(topic) < MaxMessages
    BY <1>1 DEF PublishDeal, Publish
  <2>2. nextID \in 1 .. MaxMessages /\ now \in StartTime .. MaxTime
    <3>1. nextID \in Nat /\ nextID >= 1 /\ nextID <= Len(topic) + 1 /\ Len(topic) \in Nat
      BY DEF Typed, MarketTypeOK, StoreInv
    <3>2. now \in StartTime .. MaxTime
      BY DEF Typed, MarketTypeOK
    <3>3. QED BY <2>1, <3>1, <3>2, MarketAssumption
  <2>3. m \in Deal /\ m.id = nextID
    BY <2>2 DEF Deal
  <2> HIDE DEF m
  <2>4. QED BY <2>1, <2>3
<1>2. CASE Publish(Junk)
  BY <1>2
<1>3. CASE \/ EngineRestarts \/ Tick \/ GroupCommits \/ Consumer \/ ReadFails \/ SaveOffsetFails
           \/ Rebalance \/ Crash \/ Start \/ StartWithoutRedis \/ UNCHANGED marketVars
  BY <1>3 DEF EngineRestarts, Tick, GroupCommits, Consumer, ReadMessage, HandlerAddsToKlines,
              HandlerAddsToList, SaveOffset, ReadFails, SaveOffsetFails, Rebalance, Crash, Start,
              StartWithoutRedis, Restart, kafkaVars, marketVars
<1>4. QED BY <1>1, <1>2, <1>3 DEF MarketNext

\* The topic a message longer has the old ones where they were.
LEMMA Published ==
  ASSUME Typed, NEW m \in Deal \union {Junk}, Publish(m)
  PROVE  /\ topic' \in Seq(Deal \union {Junk}) /\ Len(topic') = Len(topic) + 1
         /\ Len(topic') <= MaxMessages /\ Len(topic) \in Nat
         /\ topic'[Len(topic) + 1] = m
         /\ \A i \in 1 .. Len(topic) : topic'[i] = topic[i]
<1>1. topic \in Seq(Deal \union {Junk}) /\ Len(topic) < MaxMessages /\ topic' = Append(topic, m)
  BY DEF Typed, MarketTypeOK, Publish
<1>2. Len(topic) \in Nat /\ MaxMessages \in Nat
  BY <1>1, MarketAssumption
<1>3. QED BY <1>1, <1>2

\* The message in hand is a deal.
LEMMA InHandIsDeal ==
  ASSUME Typed, msg # NoMsg
  PROVE  InHand \in Deal /\ InHand.id \in Nat \ {0} /\ msg.offset \in Offsets
<1>1. msg.offset \in Offsets /\ Dealt(msg.offset) /\ topic \in Seq(Deal \union {Junk})
  BY DEF Typed, HandInv, MarketTypeOK
<1>2. msg.offset + 1 \in 1 .. Len(topic)
  <2>1. Len(topic) \in Nat
    BY <1>1
  <2>2. QED BY <1>1, <2>1 DEF Offsets
<1>3. topic[msg.offset + 1] \in Deal
  BY <1>1, <1>2 DEF Dealt
<1>4. QED BY <1>1, <1>3, MarketAssumption DEF InHand, Deal

\* The two ways in which msg ends, and those in which it goes on.
LEMMA HandMoves ==
  ASSUME Typed
  PROVE  /\ NoMsg.done = "none" /\ NoMsg.offset = None
         /\ msg # NoMsg <=> msg.done \in {"read", "klines", "listed"}
         /\ msg # NoMsg => /\ msg.offset \in Nat /\ msg.offset < Len(topic)
                           /\ \A d : /\ [msg EXCEPT !.done = d].offset = msg.offset
                                     /\ [msg EXCEPT !.done = d].done = d
         /\ Len(topic) \in Nat
<1>1. Len(topic) \in Nat
  BY DEF Typed, MarketTypeOK
<1>2. QED BY <1>1 DEF Typed, HandInv, NoMsg, Offsets

\* Every step keeps the stores and the offsets well typed.
LEMMA NextKeepsTypes == Typed /\ RunInv /\ [MarketNext]_marketVars => Typed'
<1> SUFFICES ASSUME Typed, RunInv, [MarketNext]_marketVars PROVE Typed'
  OBVIOUS
<1>a. /\ topic \in Seq(Deal \union {Junk}) /\ Len(topic) <= MaxMessages /\ Len(topic) \in Nat
      /\ nextID \in 1 .. MaxMessages + 1 /\ now \in StartTime .. MaxTime
      /\ committed \in 0 .. Len(topic) /\ position \in 0 .. Len(topic)
      /\ saved \in {None} \union 1 .. Len(topic) /\ lastOffset \in {None} \union 1 .. Len(topic)
      /\ up \in BOOLEAN /\ again \in BOOLEAN
      /\ deals \in Seq(Deal) /\ Len(deals) <= MaxDeals
      /\ since \in {None} \union 0 .. Len(topic) - 1
      /\ handled \subseteq 0 .. Len(topic) - 1 /\ lost \subseteq 0 .. Len(topic) - 1
      /\ nextID <= Len(topic) + 1 /\ top \in Nat
  BY DEF Typed, MarketTypeOK, StoreInv
<1>b. \A i \in Intervals : klines[i] = None \/ (DOMAIN klines[i] = Fields /\ klines[i].timestamp % i = 0)
  BY DEF Typed, MarketTypeOK, StoreInv
<1>1. ASSUME NEW m \in Deal \union {Junk}, Publish(m), m # Junk => m.id = nextID PROVE Typed'
  <2>1. /\ topic' \in Seq(Deal \union {Junk}) /\ Len(topic') = Len(topic) + 1
        /\ Len(topic') <= MaxMessages /\ \A i \in 1 .. Len(topic) : topic'[i] = topic[i]
    BY <1>1, Published
  <2>2. /\ nextID' = IF m = Junk THEN nextID ELSE nextID + 1
        /\ UNCHANGED <<now, committed, saved, up, position, lastOffset, msg, klines, deals, top,
                       since, again, handled, lost>>
    BY <1>1 DEF Publish, memoryVars
  <2>3. nextID' \in 1 .. MaxMessages + 1 /\ nextID' <= Len(topic') + 1
    BY <1>a, <2>1, <2>2, MarketAssumption
  <2>4. HandInv'
    <3>1. CASE msg = NoMsg
      BY <2>2, <3>1 DEF HandInv, NoMsg
    <3>2. CASE msg # NoMsg
      <4>1. msg.offset \in Nat /\ msg.offset < Len(topic) /\ Dealt(msg.offset)
            /\ msg \in [offset : Offsets, done : {"read", "klines", "listed"}]
        BY <3>2, HandMoves DEF Typed, HandInv
      <4>2. topic'[msg.offset + 1] = topic[msg.offset + 1]
        <5> DEFINE o == msg.offset
        <5>1. o \in Nat /\ o < Len(topic) /\ Len(topic) \in Nat
          BY <1>a, <4>1
        <5> HIDE DEF o
        <5>2. o + 1 \in 1 .. Len(topic)
          BY <5>1
        <5>3. topic'[o + 1] = topic[o + 1]
          BY <2>1, <5>2
        <5>4. QED BY <5>3 DEF o
      <4>3. Offsets \subseteq Offsets'
        BY <1>a, <2>1 DEF Offsets
      <4>4. QED BY <2>2, <4>1, <4>2, <4>3 DEF HandInv, Dealt
    <3>3. QED BY <3>1, <3>2
  <2>5. MarketTypeOK'
    <3>1. /\ committed' \in 0 .. Len(topic') /\ position' \in 0 .. Len(topic')
          /\ saved' \in {None} \union 1 .. Len(topic') /\ lastOffset' \in {None} \union 1 .. Len(topic')
          /\ since' \in {None} \union 0 .. Len(topic') - 1
          /\ handled' \union lost' \subseteq 0 .. Len(topic') - 1
      <4>1. /\ 0 .. Len(topic) \subseteq 0 .. Len(topic') /\ 1 .. Len(topic) \subseteq 1 .. Len(topic')
            /\ 0 .. Len(topic) - 1 \subseteq 0 .. Len(topic') - 1
        BY <1>a, <2>1
      <4>2. QED BY <1>a, <2>2, <4>1, Zenon
    <3>2. msg' = NoMsg' \/ (msg'.offset < Len(topic') /\ msg'.done \in {"read", "klines", "listed"})
      BY <2>4, <2>1, <1>a DEF HandInv, Offsets
    <3>3. \A i \in Intervals : klines'[i] = None \/ klines'[i].timestamp % i = 0
      BY <1>b, <2>2
    <3>4. now' \in StartTime .. MaxTime /\ up' \in BOOLEAN /\ again' \in BOOLEAN
          /\ deals' \in Seq(Deal) /\ Len(deals') <= MaxDeals
      BY <1>a, <2>2
    <3>5. QED BY <2>1, <2>3, <3>1, <3>2, <3>3, <3>4 DEF MarketTypeOK
  <2>6. StoreInv'
    BY <1>a, <1>b, <2>2, <2>3 DEF StoreInv
  <2>7. QED BY <2>4, <2>5, <2>6 DEF Typed
<1>2. SUFFICES ASSUME topic' = topic, nextID' = nextID \/ nextID' = 1 PROVE Typed'
  BY <1>1, TopicGrows
<1>3. nextID' \in 1 .. MaxMessages + 1 /\ nextID' <= Len(topic') + 1
  BY <1>2, <1>a, MarketAssumption
\* Whatever leaves the klines and the list.
<1>4. ASSUME UNCHANGED <<klines, deals>>,
             now' \in StartTime .. MaxTime, committed' \in 0 .. Len(topic), position' \in 0 .. Len(topic),
             saved' \in {None} \union 1 .. Len(topic), lastOffset' \in {None} \union 1 .. Len(topic),
             up' \in BOOLEAN, again' \in BOOLEAN, since' \in {None} \union 0 .. Len(topic) - 1,
             handled' \union lost' \subseteq 0 .. Len(topic) - 1, top' \in Nat, HandInv'
      PROVE  Typed'
  <2>1. msg' = NoMsg' \/ (msg'.offset < Len(topic') /\ msg'.done \in {"read", "klines", "listed"})
    BY <1>2, <1>4, <1>a DEF HandInv, Offsets
  <2>2. MarketTypeOK'
    BY <1>2, <1>3, <1>4, <1>a, <1>b, <2>1 DEF MarketTypeOK
  <2>3. StoreInv'
    BY <1>3, <1>4, <1>a, <1>b DEF StoreInv
  <2>4. QED BY <1>4, <2>2, <2>3 DEF Typed
<1>5. HandInv /\ UNCHANGED msg => HandInv'
  BY <1>2 DEF HandInv, Offsets, Dealt, NoMsg
<1>6. msg' = NoMsg => HandInv'
  BY DEF HandInv, NoMsg
<1>7. HandInv
  BY DEF Typed
<1>8. CASE Tick \/ GroupCommits \/ ReadFails \/ Rebalance \/ Start \/ StartWithoutRedis
           \/ EngineRestarts \/ UNCHANGED marketVars
  <2>1. /\ UNCHANGED <<klines, deals, msg, saved, since, handled, lost, top>>
        /\ committed' \in {committed, position} /\ position' \in {position, committed}
        /\ lastOffset' \in {lastOffset, saved, None} /\ up' \in BOOLEAN /\ again' \in BOOLEAN
        /\ now' \in {now, now + 1} /\ (now' = now \/ now < MaxTime)
    BY <1>8, <1>a DEF Tick, GroupCommits, ReadFails, Rebalance, Start, StartWithoutRedis, Restart,
                EngineRestarts, marketVars, memoryVars, kafkaVars
  <2>2. now' \in StartTime .. MaxTime
    BY <1>a, <2>1, MarketAssumption
  <2>3. QED BY <1>4, <1>5, <1>7, <1>a, <2>1, <2>2
<1>9. CASE ReadMessage
  <2>1. /\ UNCHANGED <<klines, deals, saved, since, handled, lost, top, up, again, now, committed>>
        /\ position < Len(topic) /\ position' = position + 1
        /\ \/ UNCHANGED <<msg, lastOffset>>
           \/ /\ msg' = [offset |-> position, done |-> "read"] /\ lastOffset' = None
              /\ topic[position + 1] # Junk
    BY <1>9 DEF ReadMessage, memoryVars, kafkaVars
  <2>2. HandInv'
    <3>1. position \in Offsets' /\ topic'[position + 1] = topic[position + 1]
      BY <1>2, <1>a, <2>1 DEF Offsets
    <3>2. QED BY <1>5, <1>7, <2>1, <3>1 DEF HandInv, Dealt
  <2>3. position' \in 0 .. Len(topic) /\ lastOffset' \in {None} \union 1 .. Len(topic)
    BY <1>a, <2>1
  <2>4. QED BY <1>4, <1>a, <2>1, <2>2, <2>3
<1>10. CASE SaveOffset \/ SaveOffsetFails
  <2>1. /\ UNCHANGED <<klines, deals, since, handled, lost, top, up, again, now, committed, position, lastOffset>>
        /\ msg.done = "listed" /\ msg' = NoMsg /\ saved' \in {saved, msg.offset + 1}
    BY <1>10 DEF SaveOffset, SaveOffsetFails, memoryVars, kafkaVars
  <2>2. msg.offset \in Nat /\ msg.offset < Len(topic)
    BY <2>1, HandMoves
  <2>3. saved' \in {None} \union 1 .. Len(topic)
    BY <1>a, <2>1, <2>2
  <2>4. QED BY <1>4, <1>6, <1>a, <2>1, <2>3
<1>11. CASE HandlerAddsToKlines
  <2>1. /\ UNCHANGED <<deals, saved, handled, lost, top, up, again, now, committed, position, lastOffset>>
        /\ msg.done = "read" /\ msg' = [msg EXCEPT !.done = "klines"]
        /\ klines' = [i \in Intervals |-> AddToKline(klines[i], i, InHand)]
        /\ since' \in {since, msg.offset}
    BY <1>11 DEF HandlerAddsToKlines, kafkaVars
  <2>2. msg # NoMsg /\ msg.offset \in 0 .. Len(topic) - 1 /\ InHand \in Deal
    BY <2>1, HandMoves, InHandIsDeal DEF Offsets
  <2>3. HandInv'
    BY <1>2, <1>7, <2>1, <2>2 DEF HandInv, Offsets, Dealt
  <2>4. \A i \in Intervals : DOMAIN klines'[i] = Fields /\ klines'[i].timestamp % i = 0
    <3> SUFFICES ASSUME NEW i \in Intervals
                 PROVE  DOMAIN klines'[i] = Fields /\ klines'[i].timestamp % i = 0
      OBVIOUS
    <3>1. i \in Nat \ {0} /\ StartTime \in Nat
      BY MarketAssumption
    <3>2. klines[i] = None \/ (DOMAIN klines[i] = Fields /\ klines[i].timestamp % i = 0)
      BY <1>b
    <3>3. klines'[i] = AddToKline(klines[i], i, InHand)
      BY <2>1
    <3>4. QED BY <2>2, <3>1, <3>2, <3>3, KlinesStayInPlace
  <2>5. StoreInv'
    BY <1>3, <1>a, <2>1, <2>4 DEF StoreInv
  <2>6. msg' = NoMsg' \/ (msg'.offset < Len(topic') /\ msg'.done \in {"read", "klines", "listed"})
    BY <1>2, <1>a, <2>3 DEF HandInv, Offsets
  <2>7. MarketTypeOK'
    BY <1>2, <1>3, <1>a, <2>1, <2>2, <2>4, <2>6 DEF MarketTypeOK
  <2>8. QED BY <2>3, <2>5, <2>7 DEF Typed
<1>12. CASE HandlerAddsToList
  <2>1. /\ UNCHANGED <<klines, since, saved, lost, up, again, now, committed, position, lastOffset>>
        /\ msg.done = "klines" /\ msg' = [msg EXCEPT !.done = "listed"]
        /\ deals' = AddDeal(InHand) /\ top' = Max({top, InHand.id})
        /\ handled' = handled \union {msg.offset}
    BY <1>12 DEF HandlerAddsToList, kafkaVars
  <2>2. msg # NoMsg /\ msg.offset \in 0 .. Len(topic) - 1 /\ InHand \in Deal /\ InHand.id \in Nat
    BY <2>1, HandMoves, InHandIsDeal DEF Offsets
  <2>3. HandInv'
    BY <1>2, <1>7, <2>1, <2>2 DEF HandInv, Offsets, Dealt
  <2>4. deals' \in Seq(Deal) /\ Len(deals') <= MaxDeals
    BY <1>a, <2>1, <2>2, ListKeepsNewest
  <2>5. top' \in Nat
    <3> DEFINE id == InHand.id
    <3>1. id \in Nat /\ top \in Nat /\ top' = Max({top, id})
      BY <1>a, <2>1, <2>2
    <3> HIDE DEF id
    <3>2. QED BY <3>1, MaxOfTwo
  <2>6. StoreInv'
    BY <1>3, <1>b, <2>1, <2>5 DEF StoreInv
  <2>7. msg' = NoMsg' \/ (msg'.offset < Len(topic') /\ msg'.done \in {"read", "klines", "listed"})
    BY <1>2, <1>a, <2>3 DEF HandInv, Offsets
  <2>8. MarketTypeOK'
    BY <1>2, <1>3, <1>a, <1>b, <2>1, <2>2, <2>4, <2>7 DEF MarketTypeOK
  <2>9. QED BY <2>3, <2>6, <2>8 DEF Typed
<1>13. CASE Crash
  <2>1. /\ UNCHANGED <<saved, now, committed, position, lastOffset, handled>>
        /\ up' = FALSE /\ again' = FALSE /\ msg' = NoMsg /\ top' = 0 /\ since' = None
        /\ klines' = [i \in Intervals |-> None] /\ deals' = <<>>
        /\ lost' = lost \union (IF msg.done \in {"read", "klines"} THEN {msg.offset} ELSE {})
    BY <1>13 DEF Crash, kafkaVars
  <2>2. lost' \subseteq 0 .. Len(topic) - 1
    BY <1>a, <2>1, HandMoves
  <2>3. deals' \in Seq(Deal) /\ Len(deals') <= MaxDeals
    BY <2>1, MarketAssumption
  <2>4. MarketTypeOK'
    BY <1>2, <1>3, <1>a, <2>1, <2>2, <2>3 DEF MarketTypeOK
  <2>5. StoreInv'
    BY <1>3, <2>1 DEF StoreInv
  <2>6. QED BY <1>6, <2>1, <2>4, <2>5 DEF Typed
<1>14. CASE \E m \in Deal \union {Junk} : Publish(m)
  <2>1. PICK m \in Deal \union {Junk} : Publish(m)
    BY <1>14
  <2>2. Len(topic') = Len(topic) + 1
    BY <2>1, Published
  <2>3. QED BY <1>2, <1>a, <2>2
<1>15. ASSUME NEW p \in Prices, NEW a \in Amounts, PublishDeal(p, a) PROVE FALSE
  <2>1. topic' = Append(topic, [id |-> nextID, time |-> now, price |-> p, amount |-> a])
    BY <1>15 DEF PublishDeal, Publish
  <2>2. Len(topic') = Len(topic) + 1
    BY <1>a, <2>1
  <2>3. QED BY <1>2, <1>a, <2>2
<1>16. QED BY <1>8, <1>9, <1>10, <1>11, <1>12, <1>13, <1>14, <1>15 DEF MarketNext, Consumer
-----------------------------------------------------------------------------
\* What the topic holds it goes on to hold, and what was covered stays so.
LEMMA TopicStays ==
  ASSUME Typed, [MarketNext]_marketVars
  PROVE  /\ Len(topic) \in Nat /\ Len(topic') \in Nat /\ Len(topic) <= Len(topic')
         /\ \A o \in Offsets : o \in Offsets' /\ topic'[o + 1] = topic[o + 1]
<1>1. CASE topic' = topic
  BY <1>1 DEF Typed, MarketTypeOK, Offsets
<1>2. ASSUME NEW m \in Deal \union {Junk}, Publish(m)
      PROVE  /\ Len(topic) \in Nat /\ Len(topic') \in Nat /\ Len(topic) <= Len(topic')
             /\ \A o \in Offsets : o \in Offsets' /\ topic'[o + 1] = topic[o + 1]
  <2>1. /\ Len(topic') = Len(topic) + 1 /\ Len(topic) \in Nat
        /\ \A i \in 1 .. Len(topic) : topic'[i] = topic[i]
    BY <1>2, Published
  <2>2. ASSUME NEW o \in Offsets PROVE o \in Offsets' /\ topic'[o + 1] = topic[o + 1]
    <3>1. o + 1 \in 1 .. Len(topic) /\ o \in 0 .. Len(topic') - 1
      BY <2>1 DEF Offsets
    <3>2. QED BY <2>1, <3>1 DEF Offsets
  <2>3. QED BY <2>1, <2>2
<1>3. QED BY <1>1, <1>2, TopicGrows

\* Below an offset all stays covered, but for the message in hand until it is listed or lost.
LEMMA CoveredStays ==
  ASSUME Typed, [MarketNext]_marketVars, NEW n \in 0 .. Len(topic)
  PROVE  /\ (\A o \in 0 .. n - 1 : Covered(o)) => \A o \in 0 .. n - 1 : Covered(o)'
         /\ /\ \A o \in 0 .. n - 1 : Covered(o) \/ o = msg.offset
            /\ \/ msg'.offset = msg.offset \/ msg.offset = None
               \/ msg.offset \in handled' \/ msg.offset \in lost'
            => \A o \in 0 .. n - 1 : Covered(o)' \/ o = msg'.offset
<1>1. handled \subseteq handled' /\ lost \subseteq lost'
  BY DEF MarketNext, PublishDeal, Publish, EngineRestarts, Tick, GroupCommits, Consumer, ReadMessage,
         HandlerAddsToKlines, HandlerAddsToList, SaveOffset, ReadFails, SaveOffsetFails, Rebalance,
         Crash, Start, StartWithoutRedis, Restart, marketVars
<1>2. ASSUME NEW o \in 0 .. n - 1 PROVE (Covered(o) => Covered(o)') /\ o # None
  <2>1. o \in Offsets /\ o \in Nat
    BY TopicStays DEF Offsets
  <2>2. topic'[o + 1] = topic[o + 1]
    BY <2>1, TopicStays
  <2>3. QED BY <1>1, <2>1, <2>2, MarketAssumption DEF Covered, Dealt
<1>3. ASSUME NEW o \in 0 .. n - 1, o = msg.offset,
             \/ msg'.offset = msg.offset \/ msg.offset = None
             \/ msg.offset \in handled' \/ msg.offset \in lost'
      PROVE  Covered(o)' \/ o = msg'.offset
  BY <1>2, <1>3 DEF Covered
<1>4. QED BY <1>2, <1>3

\* Every step keeps what the offsets say.
LEMMA NextKeepsOffsets == Typed /\ OffsetsInv /\ [MarketNext]_marketVars => OffsetsInv'
<1> SUFFICES ASSUME Typed, OffsetsInv, [MarketNext]_marketVars PROVE OffsetsInv'
  OBVIOUS
<1>a. /\ Len(topic) \in Nat /\ committed \in 0 .. Len(topic) /\ position \in 0 .. Len(topic)
      /\ saved \in {None} \union 1 .. Len(topic) /\ lastOffset \in {None} \union 1 .. Len(topic)
      /\ up \in BOOLEAN
  BY DEF Typed, MarketTypeOK
<1>b. /\ msg # NoMsg => /\ position <= msg.offset + 1 /\ lastOffset = None
                        /\ \A o \in 0 .. msg.offset - 1 : Covered(o)
      /\ msg.done = "listed" => msg.offset \in handled
      /\ \A o \in 0 .. position - 1 : Covered(o) \/ o = msg.offset
      /\ \A o \in 0 .. committed - 1 : Covered(o) \/ o = msg.offset
      /\ saved # None => \A o \in 0 .. saved - 1 : Covered(o)
      /\ lastOffset # None => \A o \in 0 .. lastOffset - 1 : Covered(o)
      /\ ~up => msg = NoMsg /\ since = None
  BY DEF OffsetsInv
<1>c. /\ NoMsg.done = "none" /\ NoMsg.offset = None
      /\ msg # NoMsg => msg.offset \in 0 .. Len(topic) /\ msg.done \in {"read", "klines", "listed"}
      /\ None \notin Nat
  BY <1>a, HandMoves, MarketAssumption
\* What does not move stays covered.
<1>d. saved' = saved => (saved' # None => \A o \in 0 .. saved' - 1 : Covered(o)')
  BY <1>a, <1>b, CoveredStays
<1>e. lastOffset' \in {lastOffset, saved, None} =>
        (lastOffset' # None => \A o \in 0 .. lastOffset' - 1 : Covered(o)')
  BY <1>a, <1>b, CoveredStays
<1>f. ASSUME \/ msg'.offset = msg.offset \/ msg.offset = None
             \/ msg.offset \in handled' \/ msg.offset \in lost'
      PROVE  /\ \A o \in 0 .. position - 1 : Covered(o)' \/ o = msg'.offset
             /\ \A o \in 0 .. committed - 1 : Covered(o)' \/ o = msg'.offset
  BY <1>a, <1>b, <1>f, CoveredStays
<1>g. msg # NoMsg => \A o \in 0 .. msg.offset - 1 : Covered(o)'
  BY <1>b, <1>c, CoveredStays
<1>1. CASE UNCHANGED <<msg, saved, since, handled>> /\ (~up' => ~up)
           /\ committed' \in {committed, position} /\ position' \in {position, committed}
           /\ lastOffset' \in {lastOffset, saved, None}
           /\ (msg # NoMsg => position' <= position /\ lastOffset' = lastOffset)
  <2>1. /\ \A o \in 0 .. position' - 1 : Covered(o)' \/ o = msg'.offset
        /\ \A o \in 0 .. committed' - 1 : Covered(o)' \/ o = msg'.offset
    BY <1>1, <1>f
  <2>2. msg' # NoMsg' => /\ position' <= msg'.offset + 1 /\ lastOffset' = None
                         /\ \A o \in 0 .. msg'.offset - 1 : Covered(o)'
    <3>1. msg # NoMsg => position' <= msg.offset + 1 /\ lastOffset' = None
      BY <1>1, <1>a, <1>b, <1>c
    <3>2. NoMsg' = NoMsg
      BY DEF NoMsg
    <3>3. QED BY <1>1, <1>g, <3>1, <3>2
  <2>3. ~up' => msg' = NoMsg' /\ since' = None
    BY <1>1, <1>b DEF NoMsg
  <2>4. msg'.done = "listed" => msg'.offset \in handled'
    BY <1>1, <1>b
  <2>5. QED BY <1>1, <1>d, <1>e, <2>1, <2>2, <2>3, <2>4 DEF OffsetsInv
\* The message in hand is done with.
<1>2. CASE /\ msg' = NoMsg /\ position' = position /\ committed' = committed /\ lastOffset' = lastOffset
           /\ msg.offset = None \/ msg.offset \in handled' \/ msg.offset \in lost'
           /\ saved' = saved \/ (msg # NoMsg /\ saved' = msg.offset + 1 /\ msg.offset \in handled')
           /\ ~up' => since' = None
  <2>1. saved' # None => \A o \in 0 .. saved' - 1 : Covered(o)'
    <3>1. CASE msg # NoMsg /\ saved' = msg.offset + 1 /\ msg.offset \in handled'
      <4>1. ASSUME NEW o \in 0 .. saved' - 1 PROVE Covered(o)'
        <5>1. o = msg.offset \/ o \in 0 .. msg.offset - 1
          BY <1>c, <3>1
        <5>2. CASE o = msg.offset
          BY <3>1, <5>2 DEF Covered
        <5>3. QED BY <1>g, <3>1, <5>1, <5>2
      <4>2. QED BY <4>1
    <3>2. QED BY <1>2, <1>d, <3>1
  <2>2. msg' = NoMsg' /\ msg'.done # "listed"
    BY <1>2, <1>c DEF NoMsg
  <2>3. QED BY <1>2, <1>e, <1>f, <2>1, <2>2 DEF OffsetsInv
\* The message in hand goes on.
<1>3. CASE /\ msg # NoMsg /\ msg'.offset = msg.offset /\ msg' # NoMsg'
           /\ UNCHANGED <<position, committed, lastOffset, saved, up>>
           /\ msg'.done = "listed" => msg.offset \in handled'
  <2>1. up' = TRUE
    BY <1>3, <1>a, <1>b
  <2>2. \A o \in 0 .. msg'.offset - 1 : Covered(o)'
    BY <1>3, <1>g
  <2>3. QED BY <1>3, <1>b, <1>d, <1>e, <1>f, <2>1, <2>2 DEF OffsetsInv
<1>4. CASE ReadMessage
  <2>1. /\ UNCHANGED <<committed, saved, up, handled, lost, topic>> /\ up /\ msg = NoMsg
        /\ position < Len(topic) /\ position' = position + 1
    BY <1>4 DEF ReadMessage, kafkaVars
  <2>2. CASE UNCHANGED <<msg, lastOffset>> /\ ((lastOffset # None /\ position < lastOffset) \/ topic[position + 1] = Junk)
    <3>1. ASSUME NEW o \in Nat, o = position PROVE Covered(o)'
      <4>1. Covered(o)
        <5>1. CASE lastOffset # None /\ position < lastOffset
          <6>1. o \in 0 .. lastOffset - 1
            BY <1>a, <3>1, <5>1
          <6>2. QED BY <1>b, <5>1, <6>1
        <5>2. CASE topic[position + 1] = Junk
          BY <3>1, <5>2 DEF Covered, Dealt
        <5>3. QED BY <2>2, <5>1, <5>2
      <4>2. QED BY <2>1, <4>1 DEF Covered, Dealt
    <3>2. \A o \in 0 .. position' - 1 : Covered(o)' \/ o = msg'.offset
      <4>1. ASSUME NEW o \in 0 .. position' - 1 PROVE Covered(o)' \/ o = msg'.offset
        <5>1. o = position \/ o \in 0 .. position - 1
          BY <1>a, <2>1
        <5>2. CASE o = position
          BY <1>a, <3>1, <5>2
        <5>3. QED BY <1>c, <1>f, <2>1, <5>1, <5>2
      <4>2. QED BY <4>1
    <3>3. msg' = NoMsg' /\ up'
      BY <2>1, <2>2 DEF NoMsg
    <3>4. QED BY <1>c, <1>d, <1>e, <1>f, <2>1, <2>2, <3>2, <3>3 DEF OffsetsInv
  <2>3. CASE msg' = [offset |-> position, done |-> "read"] /\ lastOffset' = None
    <3>1. msg'.offset = position /\ msg'.done = "read"
      BY <2>3
    <3>2. \A o \in 0 .. position - 1 : Covered(o)'
      <4>1. \A o \in 0 .. position - 1 : Covered(o)
        BY <1>a, <1>b, <1>c, <2>1
      <4>2. QED BY <1>a, <4>1, CoveredStays
    <3>3. \A o \in 0 .. position' - 1 : Covered(o)' \/ o = msg'.offset
      <4>1. \A o \in 0 .. position' - 1 : o = position \/ o \in 0 .. position - 1
        BY <1>a, <2>1
      <4>2. QED BY <3>1, <3>2, <4>1
    <3>4. \A o \in 0 .. committed' - 1 : Covered(o)' \/ o = msg'.offset
      <4>1. \A o \in 0 .. committed - 1 : Covered(o)
        BY <1>a, <1>b, <1>c, <2>1
      <4>2. QED BY <1>a, <2>1, <4>1, CoveredStays
    <3>5. position' <= msg'.offset + 1
      BY <1>a, <2>1, <3>1
    <3>6. QED BY <1>d, <2>1, <2>3, <3>1, <3>2, <3>3, <3>4, <3>5 DEF OffsetsInv
  <2>4. QED BY <1>4, <2>2, <2>3 DEF ReadMessage
<1>5. CASE SaveOffset \/ SaveOffsetFails
  <2>1. /\ msg.done = "listed" /\ msg' = NoMsg /\ saved' \in {saved, msg.offset + 1}
        /\ UNCHANGED <<position, committed, lastOffset, handled, up, since>>
    BY <1>5 DEF SaveOffset, SaveOffsetFails, memoryVars, kafkaVars
  <2>2. msg # NoMsg /\ msg.offset \in handled'
    BY <1>b, <1>c, <2>1
  <2>3. QED BY <1>2, <1>b, <2>1, <2>2
<1>6. CASE Crash
  <2>1. /\ msg' = NoMsg /\ UNCHANGED <<position, committed, lastOffset, saved, handled>> /\ since' = None
        /\ lost' = lost \union (IF msg.done \in {"read", "klines"} THEN {msg.offset} ELSE {})
    BY <1>6 DEF Crash, kafkaVars
  <2>2. msg.offset = None \/ msg.offset \in handled' \/ msg.offset \in lost'
    BY <1>b, <1>c, <2>1
  <2>3. QED BY <1>2, <2>1, <2>2
<1>7. CASE HandlerAddsToKlines \/ HandlerAddsToList
  <2>1. /\ UNCHANGED <<position, committed, lastOffset, saved, up>>
        /\ \/ msg.done = "read" /\ msg' = [msg EXCEPT !.done = "klines"]
           \/ msg.done = "klines" /\ msg' = [msg EXCEPT !.done = "listed"] /\ msg.offset \in handled'
    BY <1>7 DEF HandlerAddsToKlines, HandlerAddsToList, kafkaVars
  <2>2. msg # NoMsg
    BY <1>c, <2>1
  <2>3. msg'.offset = msg.offset /\ (msg'.done = "klines" \/ (msg'.done = "listed" /\ msg.offset \in handled'))
    BY <2>1, <2>2, HandMoves
  <2>4. msg' # NoMsg'
    BY <2>3 DEF NoMsg
  <2>5. QED BY <1>3, <2>1, <2>2, <2>3, <2>4
<1>8. CASE Start \/ StartWithoutRedis
  <2>1. /\ UNCHANGED <<msg, saved, since, handled, committed>> /\ ~up /\ up' /\ position' = committed
        /\ lastOffset' \in {saved, None}
    BY <1>8 DEF Start, StartWithoutRedis, Restart, kafkaVars, memoryVars
  <2>2. QED BY <1>1, <1>b, <2>1
<1>9. CASE Rebalance
  <2>1. /\ UNCHANGED <<msg, saved, since, handled, committed, up, lastOffset>> /\ position' = committed
        /\ committed < position
    BY <1>9 DEF Rebalance, kafkaVars, memoryVars
  <2>2. QED BY <1>1, <1>a, <2>1
<1>10. CASE Tick \/ GroupCommits \/ ReadFails \/ EngineRestarts \/ Publish(Junk) \/ UNCHANGED marketVars
            \/ \E p \in Prices, a \in Amounts : PublishDeal(p, a)
  <2>1. /\ UNCHANGED <<msg, saved, since, handled, up, position>> /\ committed' \in {committed, position}
        /\ lastOffset' \in {lastOffset, None} /\ (msg # NoMsg => lastOffset' = lastOffset)
    BY <1>10 DEF Tick, GroupCommits, ReadFails, EngineRestarts, Publish, PublishDeal, marketVars,
                 memoryVars, kafkaVars
  <2>2. QED BY <1>1, <1>a, <2>1
<1>11. QED BY <1>4, <1>5, <1>6, <1>7, <1>8, <1>9, <1>10 DEF MarketNext, Consumer
\* Every step keeps the order of the ids.
LEMMA NextKeepsIds == Typed /\ IdsInv /\ [MarketNext]_marketVars => IdsInv'
<1> SUFFICES ASSUME Typed, IdsInv, [MarketNext]_marketVars PROVE IdsInv'
  OBVIOUS
<1> DEFINE L == Len(topic)
           Id(o) == topic[o + 1].id
<1>a. /\ topic \in Seq(Deal \union {Junk}) /\ L \in Nat /\ nextID \in Nat
      /\ \A o \in Offsets : Dealt(o) => Id(o) \in Nat \ {0}
  <2>1. topic \in Seq(Deal \union {Junk}) /\ L \in Nat /\ nextID \in Nat
    BY DEF Typed, MarketTypeOK
  <2>2. ASSUME NEW o \in Offsets, Dealt(o) PROVE Id(o) \in Nat \ {0}
    <3>1. o + 1 \in 1 .. L
      BY <2>1 DEF Offsets
    <3>2. topic[o + 1] \in Deal
      BY <2>1, <2>2, <3>1 DEF Dealt
    <3>3. QED BY <3>2, MarketAssumption DEF Deal
  <2>3. QED BY <2>1, <2>2
<1>b. /\ \A s, o \in Offsets : s < o /\ Dealt(s) /\ Dealt(o) =>
            \E a \in s .. o - 1 : Dealt(a) /\ Id(o) <= Id(a) + 1
      /\ \A s \in Offsets : Dealt(s) => \E a \in s .. L - 1 : Dealt(a) /\ nextID <= Id(a) + 1
  BY DEF IdsInv
<1>1. CASE topic' = topic /\ (nextID' = nextID \/ nextID' = 1)
  <2>1. ASSUME NEW s \in Offsets, Dealt(s)
        PROVE  \E a \in s .. L - 1 : Dealt(a) /\ nextID' <= Id(a) + 1
    <3>1. CASE nextID' = nextID
      BY <1>b, <2>1, <3>1
    <3>2. CASE nextID' = 1
      <4>1. s \in s .. L - 1 /\ Id(s) \in Nat
        BY <1>a, <2>1 DEF Offsets
      <4>2. nextID' <= Id(s) + 1
        <5> HIDE DEF Id
        <5>1. QED BY <3>2, <4>1
      <4>3. QED BY <2>1, <4>1, <4>2
    <3>3. QED BY <1>1, <3>1, <3>2
  <2>2. QED BY <1>1, <1>b, <2>1 DEF IdsInv, Offsets, Dealt
<1>2. ASSUME NEW m \in Deal \union {Junk}, Publish(m), m # Junk => m.id = nextID
      PROVE  IdsInv'
  <2>1. /\ Len(topic') = L + 1 /\ topic'[L + 1] = m
        /\ nextID' = IF m = Junk THEN nextID ELSE nextID + 1
    BY <1>2, Published DEF Publish
  <2>2. Offsets' = Offsets \union {L}
    BY <1>a, <2>1 DEF Offsets
  <2>3. ASSUME NEW o \in Offsets PROVE (Dealt(o)' <=> Dealt(o)) /\ topic'[o + 1].id = Id(o)
    BY TopicStays, <2>3 DEF Dealt
  <2>4. ASSUME NEW o, o = L PROVE (Dealt(o)' <=> m # Junk) /\ (m # Junk => topic'[o + 1].id = nextID)
    BY <1>2, <2>1, <2>4 DEF Dealt
  <2>5. ASSUME NEW s \in Offsets', NEW o \in Offsets', s < o, Dealt(s)', Dealt(o)'
        PROVE  \E a \in s .. o - 1 : Dealt(a)' /\ topic'[o + 1].id <= topic'[a + 1].id + 1
    <3>1. s \in Offsets
      BY <1>a, <2>2, <2>5 DEF Offsets
    <3>2. Dealt(s)
      BY <2>3, <2>5, <3>1
    <3>3. CASE o \in Offsets
      <4>1. Dealt(o)
        BY <2>3, <2>5, <3>3
      <4>2. PICK a \in s .. o - 1 : Dealt(a) /\ Id(o) <= Id(a) + 1
        BY <1>b, <2>5, <3>1, <3>2, <3>3, <4>1
      <4>3. a \in Offsets
        BY <1>a, <3>1, <3>3 DEF Offsets
      <4>4. Dealt(a)' /\ topic'[a + 1].id = Id(a) /\ topic'[o + 1].id = Id(o)
        BY <2>3, <3>3, <4>2, <4>3
      <4>5. QED BY <4>2, <4>4
    <3>4. CASE o = L
      <4>1. PICK a \in s .. L - 1 : Dealt(a) /\ nextID <= Id(a) + 1
        BY <1>b, <3>1, <3>2
      <4>2. a \in Offsets /\ a \in s .. o - 1
        BY <1>a, <3>1, <3>4 DEF Offsets
      <4>3. Dealt(a)' /\ topic'[a + 1].id = Id(a) /\ topic'[o + 1].id = nextID
        BY <2>3, <2>4, <2>5, <3>4, <4>1, <4>2
      <4>4. QED BY <4>1, <4>2, <4>3
    <3>5. QED BY <2>2, <3>3, <3>4
  <2>6. ASSUME NEW s \in Offsets', Dealt(s)'
        PROVE  \E a \in s .. Len(topic') - 1 : Dealt(a)' /\ nextID' <= topic'[a + 1].id + 1
    <3>1. CASE m = Junk
      <4>1. s \in Offsets /\ Dealt(s)
        BY <2>2, <2>3, <2>4, <2>6, <3>1
      <4>2. PICK a \in s .. L - 1 : Dealt(a) /\ nextID <= Id(a) + 1
        BY <1>b, <4>1
      <4>3. a \in Offsets /\ a \in s .. Len(topic') - 1
        BY <1>a, <2>1, <4>1 DEF Offsets
      <4>4. Dealt(a)' /\ topic'[a + 1].id = Id(a) /\ nextID' = nextID
        BY <2>1, <2>3, <3>1, <4>2, <4>3
      <4>5. QED BY <4>2, <4>3, <4>4
    <3>2. CASE m # Junk
      <4>1. L \in s .. Len(topic') - 1 /\ nextID' = nextID + 1
        BY <1>a, <2>1, <2>2, <3>2 DEF Offsets
      <4>2. \A a : a = L => Dealt(a)' /\ topic'[a + 1].id = nextID
        BY <2>4, <3>2
      <4>3. QED BY <1>a, <4>1, <4>2
    <3>3. QED BY <3>1, <3>2
  <2>7. QED BY <2>5, <2>6 DEF IdsInv
<1>3. QED BY <1>1, <1>2, TopicGrows

\* Every step keeps what this run has listed.
LEMMA NextKeepsRun == Typed /\ OffsetsInv /\ RunInv /\ [MarketNext]_marketVars => RunInv'
<1> SUFFICES ASSUME Typed, OffsetsInv, RunInv, [MarketNext]_marketVars PROVE RunInv'
  OBVIOUS
<1> DEFINE Id(o) == topic[o + 1].id
           Run(from, to) == \A o \in from .. to - 1 : Dealt(o) => Id(o) <= top
           RunOr(from, to, hand) == \A o \in from .. to - 1 : Dealt(o) => Id(o) <= top \/ o = hand
<1>a. /\ Len(topic) \in Nat /\ committed \in 0 .. Len(topic) /\ position \in 0 .. Len(topic)
      /\ since \in {None} \union 0 .. Len(topic) - 1 /\ top \in Nat
      /\ None \notin Nat /\ up \in BOOLEAN /\ Offsets = 0 .. Len(topic) - 1
  BY MarketAssumption DEF Typed, MarketTypeOK, StoreInv, Offsets
<1>b. /\ since = None => top = 0
      /\ since # None => lastOffset = None /\ since \in Offsets /\ Dealt(since)
      /\ msg.done \in {"klines", "listed"} => since # None /\ since <= msg.offset
      /\ msg.done = "listed" => InHand.id <= top
      /\ since # None => RunOr(since, position, msg.offset)
      /\ since # None /\ msg # NoMsg => Run(since, msg.offset)
  BY DEF RunInv
<1>c. /\ NoMsg.done = "none" /\ NoMsg.offset = None /\ NoMsg' = NoMsg
      /\ msg # NoMsg => msg.offset \in Offsets /\ msg.done \in {"read", "klines", "listed"}
                        /\ Dealt(msg.offset) /\ InHand \in Deal /\ InHand.id \in Nat
      /\ msg # NoMsg => position <= msg.offset + 1 /\ lastOffset = None
      /\ ~up => msg = NoMsg /\ since = None
  BY InHandIsDeal, HandMoves DEF NoMsg, Typed, HandInv, OffsetsInv
<1>d. \A o \in Offsets : o \in Offsets' /\ topic'[o + 1] = topic[o + 1] /\ (Dealt(o)' <=> Dealt(o))
  BY TopicStays DEF Dealt
<1>e. \A o \in Offsets : Dealt(o) => Id(o) \in Nat
  <2>1. ASSUME NEW o \in Offsets, Dealt(o) PROVE Id(o) \in Nat
    <3>1. o + 1 \in 1 .. Len(topic) /\ topic \in Seq(Deal \union {Junk})
      BY <1>a DEF Typed, MarketTypeOK
    <3>2. topic[o + 1] \in Deal
      BY <2>1, <3>1 DEF Dealt
    <3>3. QED BY <3>2, MarketAssumption DEF Deal
  <2>2. QED BY <2>1
\* No message comes or goes, and no more is read than there is.
<1>1. CASE UNCHANGED <<msg, since, top>> /\ position' \in {position, committed} /\ position' <= position
           /\ lastOffset' \in {lastOffset, None}
  <2>1. since' # None => lastOffset' = None /\ since' \in Offsets' /\ Dealt(since)'
    <3>1. since # None => lastOffset' = None /\ since \in Offsets
      BY <1>1, <1>b
    <3>2. since # None => since \in Offsets' /\ topic'[since + 1] # Junk
      BY <1>b, <1>d DEF Dealt
    <3>3. QED BY <1>1, <3>1, <3>2 DEF Dealt
  <2>2. since # None => \A o \in since .. position' - 1 :
                           o \in Offsets /\ (Dealt(o) => Id(o) <= top \/ o = msg.offset)
    <3>1. ASSUME since # None, NEW o \in since .. position' - 1
          PROVE  o \in Offsets /\ o \in since .. position - 1
      <4>1. since \in Nat /\ position' \in 0 .. Len(topic) /\ position' <= position
        BY <1>1, <1>a, <3>1
      <4> DEFINE q == position'
      <4>2. o \in since .. q - 1
        BY <3>1
      <4>3. q \in Int /\ q <= position
        BY <1>a, <4>1
      <4> HIDE DEF q
      <4>4. o \in since .. position - 1
        BY <1>a, <4>1, <4>2, <4>3
      <4>5. QED BY <1>a, <4>1, <4>4
    <3>2. QED BY <1>b, <3>1
  <2>3. msg'.done = "listed" => InHand'.id <= top'
    <3>1. msg # NoMsg => InHand' = InHand
      BY <1>1, <1>c, <1>d DEF InHand
    <3>2. QED BY <1>1, <1>b, <1>c, <3>1
  <2>4. since' # None => \A o \in since' .. position' - 1 :
                            Dealt(o)' => topic'[o + 1].id <= top' \/ o = msg'.offset
    <3>1. ASSUME since # None, NEW o \in since .. position' - 1, Dealt(o)'
          PROVE  topic'[o + 1].id <= top \/ o = msg.offset
      <4>1. o \in Offsets /\ (Dealt(o) => Id(o) <= top \/ o = msg.offset)
        BY <2>2, <3>1
      <4>2. QED BY <1>d, <3>1, <4>1
    <3>2. QED BY <1>1, <3>1
  <2>5. since' # None /\ msg' # NoMsg' => \A o \in since' .. msg'.offset - 1 :
                                             Dealt(o)' => topic'[o + 1].id <= top'
    <3>1. ASSUME since # None, msg # NoMsg, NEW o \in since .. msg.offset - 1, Dealt(o)'
          PROVE  topic'[o + 1].id <= top
      <4>1. o \in Offsets
        BY <1>a, <1>c, <3>1
      <4>2. QED BY <1>b, <1>d, <3>1, <4>1
    <3>2. QED BY <1>1, <1>c, <3>1
  <2>6. /\ since' = None => top' = 0
        /\ msg'.done \in {"klines", "listed"} => since' # None /\ since' <= msg'.offset
    BY <1>1, <1>b
  <2>7. QED BY <2>1, <2>3, <2>4, <2>5, <2>6 DEF RunInv
<1>2. CASE ReadMessage
  <2>1. /\ UNCHANGED <<topic, since, top>> /\ msg = NoMsg
        /\ position < Len(topic) /\ position' = position + 1
    BY <1>2 DEF ReadMessage, kafkaVars, memoryVars
  <2>2. since # None => \A o \in since .. position' - 1 : o \in since .. position - 1 \/ o = position
    BY <1>a, <2>1
  <2>3. since # None => Run(since, position)
    BY <1>a, <1>b, <1>c, <2>1
  <2>4. CASE UNCHANGED <<msg, lastOffset>> /\ ((lastOffset # None /\ position < lastOffset) \/ topic[position + 1] = Junk)
    <3>1. since # None => RunOr(since, position', msg.offset)
      <4>1. since # None => ~Dealt(position)
        BY <1>b, <2>4 DEF Dealt
      <4>2. QED BY <2>2, <2>3, <4>1
    <3>2. QED BY <1>b, <1>c, <2>1, <2>4, <3>1 DEF RunInv, Offsets, Dealt
  <2>5. CASE msg' = [offset |-> position, done |-> "read"] /\ lastOffset' = None
    <3>1. msg'.offset = position /\ msg'.done = "read"
      BY <2>5
    <3>2. since # None => RunOr(since, position', position)
      BY <2>2, <2>3
    <3>3. QED BY <1>b, <2>1, <2>3, <2>5, <3>1, <3>2 DEF RunInv, Offsets, Dealt
  <2>6. QED BY <1>2, <2>4, <2>5 DEF ReadMessage
<1>3. CASE HandlerAddsToKlines
  <2>1. /\ UNCHANGED <<topic, position, lastOffset, top>> /\ msg.done = "read"
        /\ msg' = [msg EXCEPT !.done = "klines"]
        /\ since' = IF since = None \/ msg.offset < since THEN msg.offset ELSE since
    BY <1>3 DEF HandlerAddsToKlines, kafkaVars
  <2>2. msg # NoMsg /\ msg'.offset = msg.offset /\ msg'.done = "klines"
    BY <1>c, <2>1, HandMoves
  <2>3. lastOffset = None /\ since' \in Offsets /\ since' <= msg.offset /\ since' # None
    BY <1>a, <1>b, <1>c, <2>1, <2>2
  <2>4. ASSUME NEW o, o = since' PROVE Dealt(o)
    BY <1>b, <1>c, <2>1, <2>2, <2>4
  <2>5. RunOr(since', position, msg.offset) /\ Run(since', msg.offset)
    <3>1. CASE since = None \/ msg.offset < since
      <4>1. since' = msg.offset /\ position - 1 <= msg.offset /\ msg.offset \in Nat /\ position \in Nat
        BY <1>a, <1>c, <2>1, <2>2, <3>1
      <4>2. \A o \in msg.offset .. position - 1 : o = msg.offset
        BY <4>1
      <4>3. \A o \in msg.offset .. msg.offset - 1 : FALSE
        BY <4>1
      <4>4. QED BY <4>1, <4>2, <4>3
    <3>2. CASE since # None /\ ~(msg.offset < since)
      BY <1>b, <2>1, <2>2, <3>2
    <3>3. QED BY <3>1, <3>2
  <2>6. \A o : Dealt(o)' <=> Dealt(o)
    BY <2>1 DEF Dealt
  <2>7. QED BY <2>1, <2>2, <2>3, <2>4, <2>5, <2>6 DEF RunInv, Offsets, Dealt
<1>4. CASE HandlerAddsToList
  <2>1. /\ UNCHANGED <<topic, position, lastOffset, since>> /\ msg.done = "klines"
        /\ msg' = [msg EXCEPT !.done = "listed"] /\ top' = Max({top, InHand.id})
    BY <1>4 DEF HandlerAddsToList, kafkaVars
  <2>2. msg # NoMsg /\ msg'.offset = msg.offset /\ msg'.done = "listed" /\ InHand' = InHand
    BY <1>c, <2>1, HandMoves DEF InHand
  <2>3. top' \in Nat /\ top <= top' /\ InHand.id <= top'
    <3> DEFINE id == InHand.id
    <3>1. id \in Nat /\ top' = Max({top, id})
      BY <1>c, <2>1, <2>2
    <3> HIDE DEF id
    <3>2. top' \in Nat /\ top <= top' /\ id <= top'
      BY <1>a, <3>1, MaxOfTwo
    <3>3. QED BY <3>2 DEF id
  <2>4. since # None /\ since <= msg.offset /\ since \in Nat
    BY <1>a, <1>b, <2>1
  <2>5. \A o \in since .. position - 1 : Dealt(o) => Id(o) <= top' \/ o = msg.offset
    <3>1. ASSUME NEW o \in since .. position - 1, Dealt(o), o # msg.offset PROVE Id(o) <= top'
      <4>1. o \in Offsets /\ Id(o) <= top
        BY <1>a, <1>b, <2>4, <3>1
      <4>2. Id(o) \in Nat
        BY <1>e, <3>1, <4>1
      <4> HIDE DEF Id
      <4>3. QED BY <1>a, <2>3, <4>1, <4>2
    <3>2. QED BY <3>1
  <2>6. \A o \in since .. msg.offset - 1 : Dealt(o) => Id(o) <= top'
    <3>1. ASSUME NEW o \in since .. msg.offset - 1, Dealt(o) PROVE Id(o) <= top'
      <4>1. o \in Offsets /\ Id(o) <= top
        BY <1>a, <1>b, <1>c, <2>2, <2>4, <3>1
      <4>2. Id(o) \in Nat
        BY <1>e, <3>1, <4>1
      <4> HIDE DEF Id
      <4>3. QED BY <1>a, <2>3, <4>1, <4>2
    <3>2. QED BY <3>1
  <2>7. QED BY <1>b, <2>1, <2>2, <2>3, <2>4, <2>5, <2>6 DEF RunInv, Offsets, Dealt
<1>5. CASE SaveOffset \/ SaveOffsetFails
  <2>1. /\ UNCHANGED <<topic, position, lastOffset, since, top>> /\ msg.done = "listed" /\ msg' = NoMsg
    BY <1>5 DEF SaveOffset, SaveOffsetFails, memoryVars, kafkaVars
  <2>2. msg'.done = "none" /\ msg' = NoMsg'
    BY <1>c, <2>1
  <2>3. since # None => Run(since, position)
    <3>1. \A o : o = msg.offset => Id(o) <= top
      BY <1>b, <2>1 DEF InHand
    <3>2. QED BY <1>b, <3>1
  <2>4. QED BY <1>b, <2>1, <2>2, <2>3 DEF RunInv, Offsets, Dealt
<1>6. CASE Crash
  BY <1>6, <1>c DEF Crash, RunInv
<1>7. CASE Start \/ StartWithoutRedis
  <2>1. UNCHANGED <<topic, msg, since, top>> /\ ~up
    BY <1>7 DEF Start, StartWithoutRedis, Restart, kafkaVars, memoryVars
  <2>2. QED BY <1>b, <1>c, <2>1 DEF RunInv
<1>8. CASE Rebalance
  BY <1>1, <1>8, <1>a DEF Rebalance, kafkaVars, memoryVars
<1>9. CASE Tick \/ GroupCommits \/ ReadFails \/ EngineRestarts \/ Publish(Junk) \/ UNCHANGED marketVars
           \/ \E p \in Prices, a \in Amounts : PublishDeal(p, a)
  <2>1. UNCHANGED <<msg, since, top, position>> /\ lastOffset' \in {lastOffset, None}
    BY <1>9 DEF Tick, GroupCommits, ReadFails, EngineRestarts, Publish, PublishDeal, marketVars,
                 memoryVars, kafkaVars
  <2>2. QED BY <1>1, <1>a, <2>1
<1>10. QED BY <1>2, <1>3, <1>4, <1>5, <1>6, <1>7, <1>8, <1>9 DEF MarketNext, Consumer
-----------------------------------------------------------------------------
\* The invariant holds at the start.
LEMMA StartsInOrder == MarketInit => MarketInv
<1> SUFFICES ASSUME MarketInit PROVE MarketInv
  OBVIOUS
<1>1. /\ topic = <<>> /\ nextID = 1 /\ now = StartTime /\ committed = 0 /\ saved = None
      /\ up = TRUE /\ position = 0 /\ lastOffset = None /\ msg = NoMsg
      /\ klines = [i \in Intervals |-> None] /\ deals = <<>>
      /\ top = 0 /\ since = None /\ again = FALSE /\ handled = {} /\ lost = {}
  BY DEF MarketInit
<1>2. Len(topic) = 0 /\ Offsets = {} /\ 0 .. position - 1 = {} /\ 0 .. committed - 1 = {}
  BY <1>1 DEF Offsets
<1>3. MarketTypeOK
  <2>1. topic \in Seq(Deal \union {Junk}) /\ deals \in Seq(Deal) /\ Len(topic) = 0 /\ Len(deals) = 0
    BY <1>1
  <2>2. \A i \in Intervals : klines[i] = None
    BY <1>1
  <2>3. /\ nextID \in 1 .. MaxMessages + 1 /\ now \in StartTime .. MaxTime
        /\ Len(topic) <= MaxMessages /\ Len(deals) <= MaxDeals
    BY <1>1, <2>1, MarketAssumption
  <2>4. committed \in 0 .. Len(topic) /\ position \in 0 .. Len(topic)
    BY <1>1, <1>2
  <2>5. /\ saved \in {None} \union 1 .. Len(topic) /\ lastOffset \in {None} \union 1 .. Len(topic)
        /\ since \in {None} \union 0 .. Len(topic) - 1
        /\ handled \union lost \subseteq 0 .. Len(topic) - 1
        /\ up \in BOOLEAN /\ again \in BOOLEAN
    BY <1>1, Zenon
  <2>6. QED BY <1>1, <2>1, <2>2, <2>3, <2>4, <2>5 DEF MarketTypeOK
<1>4. HandInv /\ StoreInv
  BY <1>1, <1>2 DEF HandInv, StoreInv
<1>5. OffsetsInv
  BY <1>1, <1>2 DEF OffsetsInv, NoMsg
<1>6. IdsInv
  BY <1>2 DEF IdsInv
<1>7. RunInv
  BY <1>1 DEF RunInv, NoMsg
<1>8. QED BY <1>3, <1>4, <1>5, <1>6, <1>7 DEF MarketInv, Typed

\* And always.
LEMMA MarketKeepsOrder == MarketSpec => []MarketInv
<1>1. MarketInv /\ [MarketNext]_marketVars => MarketInv'
  BY NextKeepsTypes, NextKeepsOffsets, NextKeepsIds, NextKeepsRun DEF MarketInv
<1>2. QED BY <1>1, StartsInOrder, PTL DEF MarketSpec

\* The topic, the offsets, the klines and the list stay well typed.
THEOREM MarketStaysTyped == MarketSpec => []MarketTypeOK
<1>1. MarketInv => MarketTypeOK
  BY DEF MarketInv, Typed
<1>2. QED BY <1>1, MarketKeepsOrder, PTL

\* Consumer.Start, ReadMessage and the saved offset: whatever crashes, rebalances and
\* errors of redis and kafka come, of what kafka will not deliver again only a deal that
\* was in the consumer's hands has never been handled.
THEOREM NothingIsLeftOut == MarketSpec => []NothingLeftOut
<1>1. MarketInv => NothingLeftOut
  BY DEF MarketInv, OffsetsInv, Covered, Dealt, NothingLeftOut
<1>2. QED BY <1>1, MarketKeepsOrder, PTL

\* addDeal and the handler before it: every step of the service is one of the list its
\* pollers count on.
LEMMA StepIsListStep ==
  MarketInv /\ [MarketNext]_marketVars => [DealList!DealListNext]_(DealList!dealListVars)
<1> SUFFICES ASSUME MarketInv, [MarketNext]_marketVars
             PROVE  [DealList!DealListNext]_(DealList!dealListVars)
  OBVIOUS
<1> DEFINE fresh == top = 0 \/ GoesBack
<1>1. Typed /\ OffsetsInv /\ IdsInv /\ RunInv
  BY DEF MarketInv
<1>2. CASE UNCHANGED <<deals, top, since>> /\ (UNCHANGED msg \/ ("klines" \notin {msg.done, msg'.done}))
  <2>1. fresh' = fresh
    BY <1>2 DEF GoesBack
  <2>2. QED BY <1>2, <2>1 DEF DealList!dealListVars
<1>3. CASE HandlerAddsToKlines
  <2>1. UNCHANGED <<deals, top>> /\ msg.done = "read"
    BY <1>3 DEF HandlerAddsToKlines
  <2>2. CASE fresh'
    BY <2>1, <2>2 DEF DealList!DealListNext, DealList!TopicRewinds
  <2>3. CASE ~fresh'
    <3>1. fresh' = FALSE /\ fresh = FALSE
      BY <2>1, <2>3 DEF GoesBack
    <3>2. QED BY <2>1, <3>1 DEF DealList!dealListVars
  <2>4. QED BY <2>2, <2>3
<1>4. CASE HandlerAddsToList
  <2> DEFINE d == InHand
             id == d.id
  <2>1. /\ deals' = AddDeal(d) /\ top' = Max({top, id}) /\ msg.done = "klines"
        /\ msg' = [msg EXCEPT !.done = "listed"]
    BY <1>4 DEF HandlerAddsToList
  <2>2. msg # NoMsg /\ d \in Deal /\ id \in Nat \ {0} /\ msg.offset \in Offsets /\ top \in Nat
    BY <1>1, <2>1, HandMoves, InHandIsDeal DEF Typed, StoreInv
  <2>3. fresh \/ id <= top + 1
    <3> SUFFICES ASSUME ~fresh PROVE id <= top + 1
      OBVIOUS
    <3>1. /\ since # None /\ since <= msg.offset /\ since # msg.offset
          /\ since \in Offsets /\ Dealt(since)
      BY <1>1, <2>1 DEF RunInv, GoesBack
    <3>2. since < msg.offset /\ Dealt(msg.offset)
      BY <1>1, <2>2, <3>1 DEF Typed, HandInv, Offsets
    <3>3. PICK a \in since .. msg.offset - 1 : Dealt(a) /\ id <= topic[a + 1].id + 1
      BY <1>1, <2>2, <3>1, <3>2 DEF IdsInv, InHand
    <3> DEFINE ida == topic[a + 1].id
    <3>4. ida <= top
      BY <1>1, <2>2, <3>1, <3>3 DEF RunInv
    <3>5. ida \in Nat
      <4>1. a + 1 \in 1 .. Len(topic) /\ topic \in Seq(Deal \union {Junk}) /\ Len(topic) \in Nat
        BY <1>1, <2>2, <3>1 DEF Typed, MarketTypeOK, Offsets
      <4>2. topic[a + 1] \in Deal
        BY <3>3, <4>1 DEF Dealt
      <4>3. QED BY <4>2, MarketAssumption DEF Deal
    <3>6. id <= ida + 1
      BY <3>3
    <3> HIDE DEF ida, id
    <3>7. QED BY <2>2, <3>4, <3>5, <3>6
  <2>4. deals' = DealList!Newest(Append(deals, d), MaxDeals)
    BY <1>1, <2>1, <2>2, ListKeepsNewest DEF Typed, MarketTypeOK
  <2>5. top' = (IF id > top THEN id ELSE top) /\ top' # 0
    <3> HIDE DEF id
    <3>1. QED BY <2>1, <2>2, MaxOfTwo
  <2>6. fresh' = FALSE
    <3>1. msg'.done = "listed"
      BY <1>1, <2>1, <2>2, HandMoves
    <3>2. QED BY <2>5, <3>1 DEF GoesBack
  <2>7. DealList!ListDeal(d)
    BY <2>3, <2>4, <2>5, <2>6 DEF DealList!ListDeal
  <2>8. QED BY <2>2, <2>7 DEF DealList!DealListNext
<1>5. CASE Crash
  <2>1. deals' = <<>> /\ top' = 0
    BY <1>5 DEF Crash
  <2>2. QED BY <2>1 DEF DealList!DealListNext, DealList!ServiceRestarts
<1>6. CASE ReadMessage \/ SaveOffset \/ SaveOffsetFails \/ ReadFails
  <2>1. UNCHANGED <<deals, top, since>>
    BY <1>6 DEF ReadMessage, SaveOffset, SaveOffsetFails, ReadFails, memoryVars
  <2>2. UNCHANGED msg \/ ("klines" \notin {msg.done, msg'.done})
    BY <1>6 DEF ReadMessage, SaveOffset, SaveOffsetFails, ReadFails, NoMsg
  <2>3. QED BY <1>2, <2>1, <2>2
<1>7. CASE \/ Tick \/ GroupCommits \/ Rebalance \/ EngineRestarts \/ Start \/ StartWithoutRedis
           \/ Publish(Junk) \/ UNCHANGED marketVars
           \/ \E p \in Prices, a \in Amounts : PublishDeal(p, a)
  <2>1. UNCHANGED <<deals, top, since, msg>>
    BY <1>7 DEF Tick, GroupCommits, Rebalance, EngineRestarts, Start, StartWithoutRedis, Restart,
                Publish, PublishDeal, marketVars, memoryVars, kafkaVars
  <2>2. QED BY <1>2, <2>1
<1>8. QED BY <1>3, <1>4, <1>5, <1>6, <1>7 DEF MarketNext, Consumer

\* The list of a market implements the one its pollers may count on: it leaves no deal
\* out but where the service restarts or kafka goes back to before the run's first deal.
THEOREM ListIsDealList == MarketSpec => DealListSpec
<1>1. MarketInit => DealList!DealListInit
  BY DEF MarketInit, DealList!DealListInit
<1>2. MarketSpec => [][DealList!DealListNext]_(DealList!dealListVars)
  BY StepIsListStep, MarketKeepsOrder, PTL DEF MarketSpec
<1>3. QED BY <1>1, <1>2, PTL DEF MarketSpec, DealListSpec, DealList!DealListSpec

(***************************************************************************)
(* The history writer                                                      *)
(***************************************************************************)

\* A queue holds orders of this process, each under its own key, in the order of their
\* ids, and behind those of this process that are in the table already.  An order on its
\* way into the details is newer than all of them.
QueueOK(q) ==
    \A k \in Keys : \A i \in DOMAIN q[k] :
        /\ q[k][i] \in finished /\ q[k][i].process = restarts /\ KeyOf(k[1], q[k][i]) = k
        /\ k[1] = "detail" /\ appending # NoOrder => q[k][i].id < appending.id
        /\ \A j \in DOMAIN q[k] : i < j => q[k][i].id < q[k][j].id
        /\ \A row \in tables[k] : row.process = restarts => row.id < q[k][i].id
\* What is executed was queued before what waits.
FlushOK == \A k \in Keys : \A i \in DOMAIN flushing[k], j \in DOMAIN pending[k] :
               flushing[k][i].id < pending[k][j].id
FinishedOK ==
    /\ \A o \in finished : o.process <= restarts /\ (o.process = restarts => o.id <= lastID)
    /\ appending # NoOrder => appending \in finished /\ appending.id = lastID /\ appending.process = restarts
TablesOK ==
    \A k \in Keys :
        /\ \A row \in tables[k] :
              /\ row.process <= restarts
              /\ row.process = restarts => /\ row.id <= lastID
                                           /\ k[1] = "detail" /\ appending # NoOrder => row.id < appending.id
        /\ \A row \in tables[k], other \in tables[k] : row.id = other.id => row = other
LinesOK == QueueOK(pending) /\ QueueOK(flushing) /\ FlushOK /\ FinishedOK /\ TablesOK

\* The inductive invariant of the writer.
HistoryInv == WriterTypeOK /\ LinesOK /\ LostInCompany

\* An order the property is about, and what excuses its loss.
Company(type, o) ==
    \/ \E other \in finished \ {o} : /\ other.process = o.process /\ KeyOf(type, other) = KeyOf(type, o)
                                     /\ Lost(type, other)
    \/ \E row \in tables[KeyOf(type, o)] : row.id = o.id /\ row.process < o.process

-----------------------------------------------------------------------------
\* An order has a table of each type, and the key says which.
LEMMA KeyOfOrder ==
  ASSUME NEW o \in Orders, NEW type \in {"order", "detail"}
  PROVE  KeyOf(type, o) \in {"order", "detail"} \X (0 .. WriterShards - 1) /\ KeyOf(type, o)[1] = type
         /\ KeyOf(type, o) \in Keys
<1>1. WriterShards \in Nat \ {0} /\ Shards \in Nat /\ WriterShards <= Shards
      /\ o.user \in Nat /\ o.id \in Nat
  <2>1. o.user \in Users /\ o.id \in Nat
    BY DEF Orders
  <2>2. QED BY <2>1, HistoryAssumption
<1>2. o.user % WriterShards \in 0 .. WriterShards - 1 /\ o.id % WriterShards \in 0 .. WriterShards - 1
  BY <1>1
<1>3. 0 .. WriterShards - 1 \subseteq 0 .. Shards - 1
  BY <1>1
<1>4. KeyOf(type, o) \in {"order", "detail"} \X (0 .. WriterShards - 1) /\ KeyOf(type, o)[1] = type
  BY <1>2 DEF KeyOf, UserShard, DetailShard
<1>5. QED BY <1>3, <1>4 DEF Keys, Types

\* Only the keys of orders have a queue, and these are fewer than the cap.
LEMMA CapIsFar ==
  ASSUME WriterTypeOK, QueueOK(pending), NEW k, NEW o
  PROVE  AppendSQL(pending, k, o) = [pending EXCEPT ![k] = Append(@, o)]
<1> DEFINE W == 0 .. WriterShards - 1
           used == {"order", "detail"} \X W
<1>1. Queued(pending) \subseteq used
  <2> SUFFICES ASSUME NEW j \in Keys, pending[j] # <<>> PROVE j \in used
    BY DEF Queued
  <2>1. pending[j] \in Seq(Orders) /\ 1 \in DOMAIN pending[j]
    BY DEF WriterTypeOK
  <2>2. pending[j][1] \in Orders /\ KeyOf(j[1], pending[j][1]) = j
    BY <2>1 DEF QueueOK
  <2>3. j[1] \in {"order", "detail"}
    BY <2>2 DEF KeyOf, UserShard, DetailShard
  <2>4. QED BY <2>2, <2>3, KeyOfOrder
<1>2. WriterShards \in Nat \ {0} /\ MaxPending \in Nat /\ 2 * WriterShards < MaxPending
  BY HistoryAssumption
<1>3. IsFiniteSet(W) /\ Cardinality(W) = WriterShards
  BY <1>2, FS_Interval
<1>4. IsFiniteSet({"order", "detail"}) /\ Cardinality({"order", "detail"}) = 2
  <2>1. IsFiniteSet({"order"}) /\ Cardinality({"order"}) = 1
    BY FS_Singleton
  <2>2. "detail" \notin {"order"} /\ {"order", "detail"} = {"order"} \union {"detail"}
    OBVIOUS
  <2>3. IsFiniteSet({"order"} \union {"detail"}) /\ Cardinality({"order"} \union {"detail"}) = Cardinality({"order"}) + 1
    BY <2>1, <2>2, FS_AddElement
  <2>4. QED BY <2>1, <2>2, <2>3
<1> DEFINE S == {"order", "detail"}
<1>5. IsFiniteSet(used) /\ Cardinality(used) = 2 * WriterShards
  <2>1. IsFiniteSet(S) /\ Cardinality(S) = 2
    BY <1>4
  <2> HIDE DEF S, W
  <2>2. IsFiniteSet(S \X W) /\ Cardinality(S \X W) = Cardinality(S) * Cardinality(W)
    BY <1>3, <2>1, FS_Product
  <2>3. IsFiniteSet(S \X W) /\ Cardinality(S \X W) = 2 * WriterShards
    BY <1>3, <2>1, <2>2
  <2>4. QED BY <2>3 DEF S
<1> HIDE DEF used
<1>6. Cardinality(Queued(pending)) <= 2 * WriterShards /\ Cardinality(Queued(pending)) \in Nat
  BY <1>1, <1>5, FS_Subset, FS_CardinalityType
<1>7. ~(Cardinality(Queued(pending)) >= MaxPending)
  BY <1>2, <1>6
<1>8. QED BY <1>7 DEF AppendSQL

\* The queues after an order has joined the one of its key.
LEMMA OneMoreStatement ==
  ASSUME WriterTypeOK, NEW k \in Keys, NEW o \in Orders, pending' = [pending EXCEPT ![k] = Append(@, o)]
  PROVE  /\ DOMAIN pending' = Keys /\ \A j \in Keys : pending'[j] \in Seq(Orders)
         /\ \A j \in Keys \ {k} : pending'[j] = pending[j]
         /\ DOMAIN pending'[k] = 1 .. Len(pending[k]) + 1 /\ DOMAIN pending[k] = 1 .. Len(pending[k])
         /\ Len(pending[k]) \in Nat
         /\ pending'[k][Len(pending[k]) + 1] = o
         /\ \A i \in DOMAIN pending[k] : pending'[k][i] = pending[k][i]
<1>1. DOMAIN pending = Keys /\ \A j \in Keys : pending[j] \in Seq(Orders)
  BY DEF WriterTypeOK
<1>2. pending'[k] = Append(pending[k], o) /\ DOMAIN pending' = Keys /\ \A j \in Keys \ {k} : pending'[j] = pending[j]
  BY <1>1
<1> DEFINE old == pending[k]
<1>3. old \in Seq(Orders)
  BY <1>1
<1> HIDE DEF old
<1>4. /\ Append(old, o) \in Seq(Orders) /\ DOMAIN Append(old, o) = 1 .. Len(old) + 1
      /\ DOMAIN old = 1 .. Len(old) /\ Len(old) \in Nat
      /\ Append(old, o)[Len(old) + 1] = o /\ \A i \in DOMAIN old : Append(old, o)[i] = old[i]
  BY <1>3
<1>5. QED BY <1>1, <1>2, <1>4 DEF old

\* What each step of the writer keeps, first of all the order of its lines.
LEMMA UserOrderKeeps ==
  ASSUME WriterTypeOK, LinesOK, NEW u \in Users, AppendUserOrder(u)
  PROVE  /\ (WriterTypeOK /\ LinesOK)'
         /\ pending' = [pending EXCEPT ![UserShard(appending')] = Append(@, appending')]
         /\ appending' \in Orders /\ appending' # NoOrder
<1> DEFINE o == [id |-> lastID + 1, user |-> u, process |-> restarts]
           k == UserShard(o)
           n == Len(pending[k]) + 1
<1>0. /\ appending = NoOrder /\ lastID' = lastID + 1 /\ appending' = o /\ finished' = finished \union {o}
      /\ pending' = AppendSQL(pending, k, o)
      /\ UNCHANGED <<flushing, tables, restarts, failures>>
  BY DEF AppendUserOrder
<1>1. o \in Orders /\ o # NoOrder /\ lastID' \in 0 .. MaxOrders /\ o.id = lastID + 1 /\ o.process = restarts
      /\ lastID \in Nat /\ restarts \in Nat
  BY HistoryAssumption DEF WriterTypeOK, Orders, NoOrder, AppendUserOrder
<1> HIDE DEF o
<1>2. k \in Keys /\ k[1] = "order" /\ KeyOf("order", o) = k
  BY <1>1, KeyOfOrder DEF KeyOf
<1> HIDE DEF k
<1>3. pending' = [pending EXCEPT ![k] = Append(@, o)]
  BY <1>0, CapIsFar DEF LinesOK
<1>4. /\ DOMAIN pending' = Keys /\ \A j \in Keys : pending'[j] \in Seq(Orders)
      /\ \A j \in Keys \ {k} : pending'[j] = pending[j]
      /\ DOMAIN pending'[k] = 1 .. n /\ DOMAIN pending[k] = 1 .. n - 1 /\ n \in Nat \ {0}
      /\ pending'[k][n] = o
      /\ \A i \in DOMAIN pending[k] : pending'[k][i] = pending[k][i]
  <2>1. /\ DOMAIN pending' = Keys /\ \A j \in Keys : pending'[j] \in Seq(Orders)
        /\ \A j \in Keys \ {k} : pending'[j] = pending[j]
        /\ DOMAIN pending'[k] = 1 .. Len(pending[k]) + 1 /\ DOMAIN pending[k] = 1 .. Len(pending[k])
        /\ Len(pending[k]) \in Nat
        /\ pending'[k][Len(pending[k]) + 1] = o
        /\ \A i \in DOMAIN pending[k] : pending'[k][i] = pending[k][i]
    BY <1>1, <1>2, <1>3, OneMoreStatement
  <2>2. QED BY <2>1
<1> HIDE DEF n
<1>5. WriterTypeOK'
  BY <1>0, <1>1, <1>4 DEF WriterTypeOK
<1>6. \A q : QueueOK(q) =>
        \A j \in Keys : \A i \in DOMAIN q[j] :
          /\ q[j][i] \in finished' /\ q[j][i].process = restarts' /\ KeyOf(j[1], q[j][i]) = j
          /\ q[j][i].id < o.id
          /\ \A l \in DOMAIN q[j] : i < l => q[j][i].id < q[j][l].id
          /\ \A row \in tables'[j] : row.process = restarts' => row.id < q[j][i].id
  <2> SUFFICES ASSUME NEW q, QueueOK(q), NEW j \in Keys, NEW i \in DOMAIN q[j]
               PROVE  q[j][i].id < o.id
    BY <1>0 DEF QueueOK
  <2>1. q[j][i] \in finished /\ q[j][i].process = restarts
    BY DEF QueueOK
  <2>2. q[j][i].id <= lastID /\ q[j][i].id \in Nat
    BY <2>1 DEF LinesOK, FinishedOK, WriterTypeOK, Orders
  <2>3. QED BY <1>1, <2>2
<1>7. QueueOK(flushing)'
  BY <1>0, <1>6 DEF LinesOK, QueueOK
<1>8. QueueOK(pending)'
  <2> SUFFICES ASSUME NEW j \in Keys, NEW i \in DOMAIN pending'[j]
      PROVE  /\ pending'[j][i] \in finished' /\ pending'[j][i].process = restarts' /\ KeyOf(j[1], pending'[j][i]) = j
             /\ j[1] = "detail" /\ appending' # NoOrder => pending'[j][i].id < appending'.id
             /\ \A l \in DOMAIN pending'[j] : i < l => pending'[j][i].id < pending'[j][l].id
             /\ \A row \in tables'[j] : row.process = restarts' => row.id < pending'[j][i].id
    BY DEF QueueOK
  <2>1. CASE j # k
    BY <1>0, <1>4, <1>6, <2>1 DEF LinesOK
  <2>2. CASE j = k /\ i # n
    <3>1. i \in DOMAIN pending[k] /\ pending'[j][i] = pending[k][i] /\ pending[k][i].id < o.id
      BY <1>2, <1>4, <1>6, <2>2 DEF LinesOK
    <3>2. \A l \in DOMAIN pending'[j] : i < l => pending'[j][i].id < pending'[j][l].id
      BY <1>2, <1>4, <1>6, <2>2, <3>1 DEF LinesOK
    <3>3. QED BY <1>0, <1>2, <1>6, <2>2, <3>1, <3>2 DEF LinesOK
  <2>3. CASE j = k /\ i = n
    <3>1. \A l \in DOMAIN pending'[j] : ~(i < l)
      BY <1>4, <2>3
    <3>2. \A row \in tables'[j] : row.process = restarts' => row.id < o.id
      <4> SUFFICES ASSUME NEW row \in tables[j], row.process = restarts PROVE row.id < o.id
        BY <1>0
      <4>1. row.id <= lastID /\ row.id \in Nat
        BY DEF LinesOK, TablesOK, WriterTypeOK, Orders
      <4>2. QED BY <1>1, <4>1
    <3>3. QED BY <1>0, <1>1, <1>2, <1>4, <2>3, <3>1, <3>2
  <2>4. QED BY <2>1, <2>2, <2>3
<1>9. FlushOK'
  <2> SUFFICES ASSUME NEW j \in Keys, NEW i \in DOMAIN flushing[j], NEW l \in DOMAIN pending'[j]
               PROVE  flushing[j][i].id < pending'[j][l].id
    BY <1>0 DEF FlushOK
  <2>1. flushing[j][i].id < o.id
    BY <1>6 DEF LinesOK
  <2>2. QED BY <1>4, <2>1 DEF LinesOK, FlushOK
<1>10. FinishedOK'
  <2>1. \A x \in finished : x.id \in Nat
    BY DEF WriterTypeOK, Orders
  <2>2. QED BY <1>0, <1>1, <2>1 DEF LinesOK, FinishedOK
<1>11. TablesOK'
  <2>1. \A j \in Keys : \A row \in tables[j] : row.id \in Nat /\ (row.process = restarts => row.id <= lastID)
    BY DEF WriterTypeOK, Orders, LinesOK, TablesOK
  <2>2. \A j \in Keys : \A row \in tables[j] : row.process = restarts => row.id <= lastID + 1 /\ row.id < lastID + 1
    BY <1>1, <2>1
  <2>3. QED BY <1>0, <1>1, <2>2 DEF LinesOK, TablesOK
<1>12. QED BY <1>0, <1>1, <1>3, <1>5, <1>7, <1>8, <1>9, <1>10, <1>11 DEF LinesOK, k

\* The append to the details: the order on its way is the newest of its process.
LEMMA OrderDetailKeeps ==
  ASSUME WriterTypeOK, LinesOK, AppendOrderDetail
  PROVE  /\ (WriterTypeOK /\ LinesOK)'
         /\ pending' = [pending EXCEPT ![DetailShard(appending)] = Append(@, appending)]
         /\ appending \in Orders
<1> DEFINE o == appending
           k == DetailShard(o)
           n == Len(pending[k]) + 1
<1>0. /\ o # NoOrder /\ appending' = NoOrder /\ pending' = AppendSQL(pending, k, o)
      /\ UNCHANGED <<lastID, flushing, tables, finished, restarts, failures>>
  BY DEF AppendOrderDetail
<1>1. o \in Orders /\ o \in finished /\ o.id = lastID /\ o.process = restarts
  BY <1>0 DEF WriterTypeOK, LinesOK, FinishedOK
<1>2. k \in Keys /\ k[1] = "detail" /\ KeyOf("detail", o) = k
  BY <1>1, KeyOfOrder DEF KeyOf
<1> HIDE DEF k
<1>3. pending' = [pending EXCEPT ![k] = Append(@, o)]
  BY <1>0, CapIsFar DEF LinesOK
<1>4. /\ DOMAIN pending' = Keys /\ \A j \in Keys : pending'[j] \in Seq(Orders)
      /\ \A j \in Keys \ {k} : pending'[j] = pending[j]
      /\ DOMAIN pending'[k] = 1 .. n /\ DOMAIN pending[k] = 1 .. n - 1 /\ n \in Nat \ {0}
      /\ pending'[k][n] = o
      /\ \A i \in DOMAIN pending[k] : pending'[k][i] = pending[k][i]
  <2>1. /\ DOMAIN pending' = Keys /\ \A j \in Keys : pending'[j] \in Seq(Orders)
        /\ \A j \in Keys \ {k} : pending'[j] = pending[j]
        /\ DOMAIN pending'[k] = 1 .. Len(pending[k]) + 1 /\ DOMAIN pending[k] = 1 .. Len(pending[k])
        /\ Len(pending[k]) \in Nat
        /\ pending'[k][Len(pending[k]) + 1] = o
        /\ \A i \in DOMAIN pending[k] : pending'[k][i] = pending[k][i]
    BY <1>1, <1>2, <1>3, OneMoreStatement
  <2>2. QED BY <2>1
<1> HIDE DEF n
<1>5. WriterTypeOK'
  BY <1>0, <1>4 DEF WriterTypeOK
<1>6. /\ \A i \in DOMAIN pending[k] : pending[k][i].id < o.id
      /\ \A i \in DOMAIN flushing[k] : flushing[k][i].id < o.id
      /\ \A row \in tables[k] : row.process = restarts => row.id < o.id
  BY <1>0, <1>2 DEF LinesOK, QueueOK, TablesOK
<1>7. QueueOK(flushing)'
  BY <1>0 DEF LinesOK, QueueOK
<1>8. QueueOK(pending)'
  <2> SUFFICES ASSUME NEW j \in Keys, NEW i \in DOMAIN pending'[j]
      PROVE  /\ pending'[j][i] \in finished' /\ pending'[j][i].process = restarts' /\ KeyOf(j[1], pending'[j][i]) = j
             /\ \A l \in DOMAIN pending'[j] : i < l => pending'[j][i].id < pending'[j][l].id
             /\ \A row \in tables'[j] : row.process = restarts' => row.id < pending'[j][i].id
    BY <1>0 DEF QueueOK
  <2>1. CASE j # k
    BY <1>0, <1>4, <2>1 DEF LinesOK, QueueOK
  <2>2. CASE j = k /\ i # n
    <3>1. i \in DOMAIN pending[k] /\ pending'[j][i] = pending[k][i]
      BY <1>4, <2>2
    <3>2. \A l \in DOMAIN pending'[j] : i < l => pending'[j][i].id < pending'[j][l].id
      BY <1>2, <1>4, <1>6, <2>2, <3>1 DEF LinesOK, QueueOK
    <3>3. QED BY <1>0, <2>2, <3>1, <3>2 DEF LinesOK, QueueOK
  <2>3. CASE j = k /\ i = n
    <3>1. \A l \in DOMAIN pending'[j] : ~(i < l)
      BY <1>4, <2>3
    <3>2. QED BY <1>0, <1>1, <1>2, <1>4, <1>6, <2>3, <3>1
  <2>4. QED BY <2>1, <2>2, <2>3
<1>9. FlushOK'
  BY <1>0, <1>4, <1>6 DEF LinesOK, FlushOK
<1>10. FinishedOK' /\ TablesOK'
  BY <1>0 DEF LinesOK, FinishedOK, TablesOK
<1>11. QED BY <1>1, <1>3, <1>5, <1>7, <1>8, <1>9, <1>10 DEF LinesOK, k

\* A flush moves what waits, and nothing of an earlier one is left.
LEMMA FlushKeeps ==
  ASSUME WriterTypeOK, LinesOK, FlushPending
  PROVE  (WriterTypeOK /\ LinesOK)'
<1>0. /\ \A k \in Keys : flushing[k] = <<>>
      /\ flushing' = pending /\ pending' = [k \in Keys |-> <<>>]
      /\ UNCHANGED <<lastID, appending, tables, finished, restarts, failures>>
  BY DEF FlushPending, Queued
<1>1. <<>> \in Seq(Orders) /\ DOMAIN <<>> = {}
  OBVIOUS
<1>2. WriterTypeOK'
  BY <1>0, <1>1 DEF WriterTypeOK
<1>3. (QueueOK(pending) /\ QueueOK(flushing) /\ FlushOK)'
  BY <1>0, <1>1 DEF LinesOK, QueueOK, FlushOK
<1>4. (FinishedOK /\ TablesOK)'
  BY <1>0 DEF LinesOK, FinishedOK, TablesOK
<1>5. QED BY <1>2, <1>3, <1>4 DEF LinesOK

\* What a statement adds to its table: nothing, or the one order it held, under a new id.
LEMMA InsertedRows ==
  ASSUME WriterTypeOK, NEW k \in Keys, flushing[k] # <<>>, NEW row \in Inserted(tables[k], flushing[k]),
         row \notin tables[k]
  PROVE  /\ 1 \in DOMAIN flushing[k] /\ row = flushing[k][1] /\ row \in Orders /\ Len(flushing[k]) = 1
         /\ Inserted(tables[k], flushing[k]) = tables[k] \union {row}
         /\ \A other \in tables[k] : other.id # row.id
<1> DEFINE q == flushing[k]
<1>1. q \in Seq(Orders) /\ q # <<>>
  BY DEF WriterTypeOK
<1> HIDE DEF q
<1>2. 1 \in DOMAIN q /\ Head(q) = q[1] /\ q[1] \in Orders /\ Len(q) \in Nat /\ Len(q) # 0
  BY <1>1
<1>3. /\ ~(Len(q) > 1) /\ ~(\E other \in tables[k] : other.id = Head(q).id)
      /\ Inserted(tables[k], q) = tables[k] \union {Head(q)} /\ row = Head(q)
  BY DEF Inserted, q
<1> DEFINE n == Len(q)
<1>4. n = 1
  <2>1. n \in Nat /\ n # 0 /\ ~(n > 1)
    BY <1>2, <1>3
  <2> HIDE DEF n
  <2>2. QED BY <2>1
<1>5. QED BY <1>2, <1>3, <1>4 DEF q

\* A row is new in its table, and older than all that waits for it.
LEMMA ExecKeeps ==
  ASSUME WriterTypeOK, LinesOK, NEW k \in Keys, ExecSQL(k)
  PROVE  (WriterTypeOK /\ LinesOK)'
<1>0. /\ flushing[k] # <<>> /\ flushing' = [flushing EXCEPT ![k] = <<>>]
      /\ UNCHANGED <<lastID, appending, pending, finished, restarts>>
      /\ failures' \in 0 .. MaxFailures
  <2>1. failures' = failures \/ (restarts + failures < MaxFailures /\ failures' = failures + 1)
    BY DEF ExecSQL
  <2>2. failures' \in 0 .. MaxFailures
    BY <2>1, HistoryAssumption DEF WriterTypeOK
  <2>3. QED BY <2>2 DEF ExecSQL
<1>1. <<>> \in Seq(Orders) /\ DOMAIN <<>> = {}
  OBVIOUS
<1>2. /\ DOMAIN flushing' = Keys /\ DOMAIN flushing'[k] = {} /\ flushing'[k] \in Seq(Orders)
      /\ \A j \in Keys \ {k} : flushing'[j] = flushing[j]
  BY <1>0, <1>1 DEF WriterTypeOK
<1>3. /\ DOMAIN tables' = Keys /\ \A j \in Keys \ {k} : tables'[j] = tables[j]
      /\ tables'[k] = tables[k] \/ tables'[k] = Inserted(tables[k], flushing[k])
  BY DEF ExecSQL, WriterTypeOK
<1>4. ASSUME NEW j \in Keys, NEW row \in tables'[j], row \notin tables[j]
      PROVE  /\ j = k /\ 1 \in DOMAIN flushing[k] /\ row = flushing[k][1] /\ row \in Orders
             /\ tables'[k] = tables[k] \union {row}
             /\ \A other \in tables[k] : other.id # row.id
  <2>1. j = k /\ tables'[k] = Inserted(tables[k], flushing[k])
    BY <1>3, <1>4
  <2>2. QED BY <1>0, <1>4, <2>1, InsertedRows
<1>5. tables'[k] \subseteq Orders
  <2> SUFFICES ASSUME NEW row \in tables'[k] PROVE row \in Orders
    OBVIOUS
  <2>1. CASE row \in tables[k]
    BY <2>1 DEF WriterTypeOK
  <2>2. CASE row \notin tables[k]
    BY <2>2, <1>4
  <2>3. QED BY <2>1, <2>2
<1>6. WriterTypeOK'
  BY <1>0, <1>2, <1>3, <1>5 DEF WriterTypeOK
<1>7. \A j \in Keys : \A row \in tables'[j], i \in DOMAIN pending[j] :
         row.process = restarts => row.id < pending[j][i].id
  BY <1>4 DEF LinesOK, QueueOK, FlushOK
<1>8. \A j \in Keys \ {k} : \A row \in tables'[j] : row \in tables[j]
  BY <1>3
<1>9. QueueOK(pending)'
  BY <1>0, <1>7 DEF LinesOK, QueueOK
<1>10. QueueOK(flushing)'
  BY <1>0, <1>2, <1>8 DEF LinesOK, QueueOK
<1>11. FlushOK' /\ FinishedOK'
  BY <1>0, <1>2 DEF LinesOK, FlushOK, FinishedOK
<1>12. TablesOK'
  <2> SUFFICES ASSUME NEW j \in Keys
      PROVE  /\ \A row \in tables'[j] :
                   /\ row.process <= restarts
                   /\ row.process = restarts => /\ row.id <= lastID
                                                /\ j[1] = "detail" /\ appending # NoOrder => row.id < appending.id
             /\ \A row \in tables'[j], other \in tables'[j] : row.id = other.id => row = other
    BY <1>0 DEF TablesOK
  <2>1. ASSUME NEW row \in tables'[j]
        PROVE  /\ row.process <= restarts
               /\ row.process = restarts => /\ row.id <= lastID
                                            /\ j[1] = "detail" /\ appending # NoOrder => row.id < appending.id
    <3>1. CASE row \in tables[j]
      BY <3>1 DEF LinesOK, TablesOK
    <3>2. CASE row \notin tables[j]
      <4>1. row \in finished /\ row.process = restarts /\ (j[1] = "detail" /\ appending # NoOrder => row.id < appending.id)
        BY <1>4, <3>2 DEF LinesOK, QueueOK
      <4>2. row.process <= restarts /\ row.id <= lastID
        BY <4>1 DEF LinesOK, FinishedOK
      <4>3. QED BY <4>1, <4>2
    <3>3. QED BY <3>1, <3>2
  <2>2. ASSUME NEW row \in tables'[j], NEW other \in tables'[j], row.id = other.id
        PROVE  row = other
    <3>1. CASE row \in tables[j] /\ other \in tables[j]
      BY <2>2, <3>1 DEF LinesOK, TablesOK
    <3>2. CASE row \notin tables[j]
      BY <1>4, <2>2, <3>2
    <3>3. CASE other \notin tables[j]
      BY <1>4, <2>2, <3>3
    <3>4. QED BY <3>1, <3>2, <3>3
  <2>3. QED BY <2>1, <2>2
<1>13. QED BY <1>6, <1>9, <1>10, <1>11, <1>12 DEF LinesOK

\* A new process has no orders yet.
LEMMA EngineRestartKeeps ==
  ASSUME WriterTypeOK, LinesOK, EngineRestart
  PROVE  (WriterTypeOK /\ LinesOK)'
<1>0. /\ restarts' = restarts + 1 /\ lastID' = 0 /\ appending' = NoOrder
      /\ pending' = [k \in Keys |-> <<>>] /\ flushing' = [k \in Keys |-> <<>>]
      /\ UNCHANGED <<tables, finished, failures>>
  BY DEF EngineRestart
<1>1. restarts \in Nat /\ restarts' \in 0 .. MaxFailures /\ lastID' \in 0 .. MaxOrders
  BY <1>0, HistoryAssumption DEF EngineRestart, WriterTypeOK
<1>2. <<>> \in Seq(Orders) /\ DOMAIN <<>> = {}
  OBVIOUS
<1>3. WriterTypeOK'
  BY <1>0, <1>1, <1>2 DEF WriterTypeOK
<1>4. (QueueOK(pending) /\ QueueOK(flushing) /\ FlushOK)'
  BY <1>0, <1>2 DEF QueueOK, FlushOK
<1>5. \A o \in finished : o.process <= restarts' /\ o.process # restarts'
  <2> SUFFICES ASSUME NEW o \in finished PROVE o.process <= restarts' /\ o.process # restarts'
    OBVIOUS
  <2>1. o.process \in Nat /\ o.process <= restarts
    BY DEF WriterTypeOK, Orders, LinesOK, FinishedOK
  <2>2. QED BY <1>0, <1>1, <2>1
<1>6. \A k \in Keys : \A row \in tables[k] : row.process <= restarts' /\ row.process # restarts'
  <2> SUFFICES ASSUME NEW k \in Keys, NEW row \in tables[k] PROVE row.process <= restarts' /\ row.process # restarts'
    OBVIOUS
  <2>1. row.process \in Nat /\ row.process <= restarts
    BY DEF WriterTypeOK, Orders, LinesOK, TablesOK
  <2>2. QED BY <1>0, <1>1, <2>1
<1>7. (FinishedOK /\ TablesOK)'
  BY <1>0, <1>5, <1>6 DEF LinesOK, FinishedOK, TablesOK
<1>8. QED BY <1>3, <1>4, <1>7 DEF LinesOK

\* Where an order waits for its table, in the words of the queues.
LEMMA WaitsInQueue ==
  ASSUME WriterTypeOK, LinesOK, NEW type \in {"order", "detail"}, NEW o \in Orders,
         NEW i \in DOMAIN flushing[KeyOf(type, o)], flushing[KeyOf(type, o)][i] = o
  PROVE  /\ o \in finished /\ o.process = restarts
         /\ ~(type = "detail" /\ appending = o)
         /\ \A j \in DOMAIN pending[KeyOf(type, o)] : pending[KeyOf(type, o)][j] # o
         /\ o \notin tables[KeyOf(type, o)]
         /\ \A row \in tables[KeyOf(type, o)] : row.id = o.id => row.process < o.process
<1> DEFINE k == KeyOf(type, o)
<1>1. k \in Keys /\ k[1] = type
  BY KeyOfOrder
<1>2. o.id \in Nat /\ ~(o.id < o.id) /\ o # NoOrder
  BY HistoryAssumption DEF Orders, NoOrder
<1> HIDE DEF k
<1>3. /\ o \in finished /\ o.process = restarts
      /\ type = "detail" /\ appending # NoOrder => o.id < appending.id
      /\ \A row \in tables[k] : row.process = restarts => row.id < o.id
  BY <1>1 DEF LinesOK, QueueOK, k
<1>4. \A j \in DOMAIN pending[k] : pending[k][j] # o
  BY <1>1, <1>2 DEF LinesOK, FlushOK, k
<1>5. \A row \in tables[k] : row.id = o.id => row.process < o.process
  <2> SUFFICES ASSUME NEW row \in tables[k], row.id = o.id PROVE row.process < o.process
    OBVIOUS
  <2>1. row.process <= restarts /\ row.process # restarts /\ row.process \in Nat /\ restarts \in Nat
    BY <1>1, <1>2, <1>3 DEF LinesOK, TablesOK, WriterTypeOK, Orders
  <2>2. QED BY <1>3, <2>1
<1>6. o \notin tables[k] /\ ~(type = "detail" /\ appending = o)
  BY <1>2, <1>3
<1>7. QED BY <1>3, <1>4, <1>5, <1>6 DEF k

\* Appending loses nothing, and finds nothing that was lost.
LEMMA UserOrderLoses ==
  ASSUME WriterTypeOK, LinesOK, NEW u \in Users, AppendUserOrder(u), NEW type \in {"order", "detail"}
  PROVE  \A x \in finished' : IF x \in finished THEN Lost(type, x)' <=> Lost(type, x) ELSE ~Lost(type, x)'
<1>p. PICK o : o = appending'
  OBVIOUS
<1> DEFINE k == UserShard(o)
<1>0. /\ appending = NoOrder /\ finished' = finished \union {o} /\ o.id = lastID + 1
      /\ o.process = restarts /\ UNCHANGED <<flushing, tables, restarts>>
  BY <1>p DEF AppendUserOrder
<1>1. /\ pending' = [pending EXCEPT ![k] = Append(@, o)] /\ o \in Orders /\ o # NoOrder
  BY <1>p, UserOrderKeeps
<1>2. k \in Keys /\ k[1] = "order" /\ KeyOf("order", o) = k
  BY <1>1, KeyOfOrder DEF KeyOf
<1> HIDE DEF k
<1>3. /\ \A j \in Keys \ {k} : pending'[j] = pending[j]
      /\ DOMAIN pending'[k] = 1 .. Len(pending[k]) + 1 /\ DOMAIN pending[k] = 1 .. Len(pending[k])
      /\ Len(pending[k]) \in Nat
      /\ pending'[k][Len(pending[k]) + 1] = o
      /\ \A i \in DOMAIN pending[k] : pending'[k][i] = pending[k][i]
  BY <1>1, <1>2, OneMoreStatement
<1>4. o \notin finished
  <2> SUFFICES ASSUME o \in finished PROVE FALSE
    OBVIOUS
  <2>1. o.id <= lastID /\ lastID \in Nat
    BY <1>0 DEF LinesOK, FinishedOK, WriterTypeOK
  <2>2. QED BY <1>0, <2>1
<1>5. ~Lost(type, o)'
  <2>1. CASE type = "order"
    <3>1. Len(pending[k]) + 1 \in DOMAIN pending'[k]
      BY <1>3
    <3>2. QED BY <1>2, <1>3, <2>1, <3>1 DEF Lost, Waiting
  <2>2. CASE type = "detail"
    BY <1>p, <2>2 DEF Lost, Waiting
  <2>3. QED BY <2>1, <2>2
<1>6. ASSUME NEW x \in finished, NEW j \in Keys
      PROVE  (\E i \in DOMAIN pending'[j] : pending'[j][i] = x) <=> (\E i \in DOMAIN pending[j] : pending[j][i] = x)
  <2>1. CASE j # k
    BY <1>3, <2>1
  <2>2. CASE j = k
    <3>1. \A i \in DOMAIN pending'[k] : i \in DOMAIN pending[k] \/ i = Len(pending[k]) + 1
      BY <1>3
    <3>2. \A i \in DOMAIN pending[k] : i \in DOMAIN pending'[k]
      BY <1>3
    <3>3. QED BY <1>3, <1>4, <2>2, <3>1, <3>2
  <2>3. QED BY <2>1, <2>2
<1>7. ASSUME NEW x \in finished
      PROVE  Lost(type, x)' <=> Lost(type, x)
  <2>1. x \in Orders /\ x # NoOrder /\ x # o
    BY <1>4, HistoryAssumption DEF WriterTypeOK, Orders, NoOrder
  <2>2. KeyOf(type, x) \in Keys
    BY <2>1, KeyOfOrder
  <2>3. appending' # x /\ appending # x
    BY <1>0, <1>p, <2>1
  <2>4. QED BY <1>0, <1>6, <2>2, <2>3 DEF Lost, Waiting
<1>8. QED BY <1>0, <1>5, <1>7

\* The order on its way into the details waits before and after.
LEMMA OrderDetailLoses ==
  ASSUME WriterTypeOK, LinesOK, AppendOrderDetail, NEW type \in {"order", "detail"}, NEW x \in finished
  PROVE  Lost(type, x)' <=> Lost(type, x)
<1> DEFINE o == appending
           k == DetailShard(o)
           old == pending[k]
           new == pending'[k]
<1>0. /\ appending' = NoOrder /\ UNCHANGED <<flushing, tables>>
  BY DEF AppendOrderDetail
<1>1. /\ pending' = [pending EXCEPT ![k] = Append(@, o)] /\ o \in Orders
  BY OrderDetailKeeps
<1>2. k \in Keys /\ k[1] = "detail" /\ KeyOf("detail", o) = k
  BY <1>1, KeyOfOrder DEF KeyOf
<1> HIDE DEF k
<1>3. /\ \A j \in Keys \ {k} : pending'[j] = pending[j]
      /\ DOMAIN new = 1 .. Len(old) + 1 /\ DOMAIN old = 1 .. Len(old)
      /\ Len(old) \in Nat
      /\ new[Len(old) + 1] = o
      /\ \A i \in DOMAIN old : new[i] = old[i]
  BY <1>1, <1>2, OneMoreStatement
<1>4. x \in Orders /\ x # NoOrder
  BY HistoryAssumption DEF WriterTypeOK, Orders, NoOrder
<1>5. KeyOf(type, x) \in Keys /\ KeyOf(type, x)[1] = type
  BY <1>4, KeyOfOrder
<1>6. (\E i \in DOMAIN new : new[i] = x) <=> (\E i \in DOMAIN old : old[i] = x) \/ x = o
  <2> HIDE DEF old, new, o
  <2>1. \A i \in DOMAIN new : i \in DOMAIN old \/ i = Len(old) + 1
    BY <1>3
  <2>2. (\A i \in DOMAIN old : i \in DOMAIN new) /\ Len(old) + 1 \in DOMAIN new
    BY <1>3
  <2>3. QED BY <1>3, <2>1, <2>2
<1>7. CASE KeyOf(type, x) = k
  <2>1. type = "detail"
    BY <1>2, <1>5, <1>7
  <2>2. QED BY <1>0, <1>4, <1>6, <1>7, <2>1 DEF Lost, Waiting
<1>8. CASE KeyOf(type, x) # k
  <2>1. ~(type = "detail" /\ x = o)
    BY <1>2, <1>8
  <2>2. QED BY <1>0, <1>3, <1>4, <1>5, <1>8, <2>1 DEF Lost, Waiting
<1>9. QED BY <1>7, <1>8

\* A flush changes the queue an order waits in, not that it waits.
LEMMA FlushLoses ==
  ASSUME WriterTypeOK, FlushPending, NEW type \in {"order", "detail"}, NEW x \in finished
  PROVE  Lost(type, x)' <=> Lost(type, x)
<1>1. /\ \A k \in Keys : flushing[k] = <<>>
      /\ flushing' = pending /\ pending' = [k \in Keys |-> <<>>]
      /\ UNCHANGED <<appending, tables>>
  BY DEF FlushPending, Queued
<1>2. KeyOf(type, x) \in Keys
  BY KeyOfOrder DEF WriterTypeOK
<1>3. DOMAIN <<>> = {}
  OBVIOUS
<1>4. QED BY <1>1, <1>2, <1>3 DEF Lost, Waiting
\* What an executed statement changes: its queue is empty, and its table has kept its rows.
LEMMA ExecChanges ==
  ASSUME WriterTypeOK, NEW k \in Keys, ExecSQL(k), failures' = 0, failures = 0
  PROVE  /\ flushing[k] # <<>> /\ DOMAIN flushing'[k] = {}
         /\ \A j \in Keys \ {k} : flushing'[j] = flushing[j] /\ tables'[j] = tables[j]
         /\ tables'[k] = Inserted(tables[k], flushing[k])
         /\ \A row \in tables[k] : row \in tables'[k]
         /\ UNCHANGED <<appending, pending, finished, restarts>>
<1>1. /\ flushing[k] # <<>> /\ flushing' = [flushing EXCEPT ![k] = <<>>]
      /\ UNCHANGED <<appending, pending, finished, restarts>>
  BY DEF ExecSQL
<1>2. failures' # failures + 1
  OBVIOUS
<1>3. tables' = [tables EXCEPT ![k] = Inserted(@, flushing[k])]
  BY <1>2 DEF ExecSQL
<1>4. DOMAIN <<>> = {}
  OBVIOUS
<1>5. /\ DOMAIN flushing'[k] = {} /\ tables'[k] = Inserted(tables[k], flushing[k])
      /\ \A j \in Keys \ {k} : flushing'[j] = flushing[j] /\ tables'[j] = tables[j]
  BY <1>1, <1>3, <1>4 DEF WriterTypeOK
<1>6. \A row \in tables[k] : row \in tables'[k]
  BY <1>5 DEF Inserted
<1>7. QED BY <1>1, <1>5, <1>6

\* An order that is lost stays lost: nothing queues it again.
LEMMA ExecFindsNone ==
  ASSUME WriterTypeOK, LinesOK, NEW k \in Keys, ExecSQL(k), failures' = 0, failures = 0,
         NEW type \in {"order", "detail"}, NEW x \in finished, Lost(type, x)
  PROVE  Lost(type, x)'
<1> DEFINE j == KeyOf(type, x)
<1>1. x \in Orders /\ j \in Keys
  BY KeyOfOrder DEF WriterTypeOK
<1>2. /\ ~(type = "detail" /\ appending = x) /\ x \notin tables[j]
      /\ ~\E i \in DOMAIN pending[j] : pending[j][i] = x
      /\ ~\E i \in DOMAIN flushing[j] : flushing[j][i] = x
  BY DEF Lost, Waiting
<1> HIDE DEF j
<1>3. /\ flushing[k] # <<>> /\ DOMAIN flushing'[k] = {}
      /\ \A l \in Keys \ {k} : flushing'[l] = flushing[l] /\ tables'[l] = tables[l]
      /\ tables'[k] = Inserted(tables[k], flushing[k])
      /\ UNCHANGED <<appending, pending>>
  BY ExecChanges
<1>4. ~\E i \in DOMAIN flushing'[j] : flushing'[j][i] = x
  BY <1>1, <1>2, <1>3
<1>5. x \notin tables'[j]
  <2>1. CASE j # k
    BY <1>1, <1>2, <1>3, <2>1
  <2>2. CASE j = k
    <3> SUFFICES ASSUME x \in tables'[k] PROVE FALSE
      BY <2>2
    <3>1. x \in Inserted(tables[k], flushing[k]) /\ x \notin tables[k]
      BY <1>2, <1>3, <2>2
    <3>2. 1 \in DOMAIN flushing[k] /\ x = flushing[k][1]
      BY <1>3, <3>1, InsertedRows
    <3>3. QED BY <1>2, <2>2, <3>2
  <2>3. QED BY <2>1, <2>2
<1>6. QED BY <1>2, <1>3, <1>4, <1>5 DEF Lost, Waiting, j

\* An order that gets lost was in the statement, which another order shared or whose id
\* the table had.
LEMMA ExecLoses ==
  ASSUME WriterTypeOK, LinesOK, NEW k \in Keys, ExecSQL(k), failures' = 0, failures = 0,
         NEW type \in {"order", "detail"}, NEW x \in finished, ~Lost(type, x), Lost(type, x)'
  PROVE  Company(type, x)'
<1> DEFINE j == KeyOf(type, x)
           q == flushing[k]
<1>1. x \in Orders /\ j \in Keys /\ j[1] = type
  BY KeyOfOrder DEF WriterTypeOK
<1>2. /\ ~(type = "detail" /\ appending' = x) /\ x \notin tables'[j]
      /\ ~\E i \in DOMAIN pending'[j] : pending'[j][i] = x
      /\ ~\E i \in DOMAIN flushing'[j] : flushing'[j][i] = x
  BY DEF Lost, Waiting
<1>3. /\ q # <<>> /\ DOMAIN flushing'[k] = {}
      /\ \A l \in Keys \ {k} : flushing'[l] = flushing[l] /\ tables'[l] = tables[l]
      /\ tables'[k] = Inserted(tables[k], q)
      /\ \A row \in tables[k] : row \in tables'[k]
      /\ UNCHANGED <<appending, pending, finished, restarts>>
  BY ExecChanges
<1>4. (type = "detail" /\ appending = x) \/ x \in tables[j]
      \/ (\E i \in DOMAIN pending[j] : pending[j][i] = x)
      \/ (\E i \in DOMAIN flushing[j] : flushing[j][i] = x)
  BY DEF Lost, Waiting
<1> HIDE DEF j
<1>5. j = k /\ \E i \in DOMAIN q : q[i] = x
  BY <1>1, <1>2, <1>3, <1>4
<1>6. PICK i \in DOMAIN q : q[i] = x
  BY <1>5
<1>7. q \in Seq(Orders)
  BY DEF WriterTypeOK
<1> HIDE DEF q
<1>8. DOMAIN q = 1 .. Len(q) /\ Len(q) \in Nat /\ Len(q) # 0 /\ Head(q) = q[1]
  BY <1>3, <1>7
<1>9. CASE Len(q) > 1
  <2>1. PICK l \in DOMAIN q : l # i
    <3> DEFINE n == Len(q)
    <3>1. n \in Nat /\ n > 1 /\ DOMAIN q = 1 .. n
      BY <1>8, <1>9
    <3> HIDE DEF n
    <3>2. 1 \in DOMAIN q /\ 2 \in DOMAIN q
      BY <3>1
    <3>3. QED BY <3>2
  <2>y. PICK y : y = q[l]
    OBVIOUS
  <2>2. y \in Orders /\ y \in finished /\ y.process = restarts /\ KeyOf(type, y) = k
        /\ x.process = restarts
    BY <1>1, <1>5, <1>6, <1>7, <2>y DEF LinesOK, QueueOK, q
  <2>3. x.id # y.id
    <3>1. i \in Nat /\ l \in Nat /\ (i < l \/ l < i)
      BY <1>8, <2>1
    <3>2. x.id < y.id \/ y.id < x.id
      BY <1>6, <2>y, <3>1 DEF LinesOK, QueueOK, q
    <3>3. x.id \in Nat /\ y.id \in Nat
      BY <1>1, <2>2 DEF Orders
    <3>4. QED BY <3>2, <3>3
  <2> DEFINE f == flushing[KeyOf(type, y)]
  <2>4. l \in DOMAIN f /\ f[l] = y
    BY <2>2, <2>y DEF q
  <2>5. /\ ~(type = "detail" /\ appending = y)
        /\ \A m \in DOMAIN pending[k] : pending[k][m] # y
        /\ y \notin tables[k]
    BY <2>2, <2>4, WaitsInQueue
  <2>6. tables'[k] = tables[k]
    BY <1>3, <1>9 DEF Inserted
  <2>7. Lost(type, y)'
    BY <1>3, <2>2, <2>5, <2>6 DEF Lost, Waiting
  <2>8. x # y /\ y \in finished' /\ y.process = x.process /\ KeyOf(type, y) = KeyOf(type, x)
    BY <1>3, <1>5, <2>2, <2>3 DEF j
  <2>9. QED BY <2>7, <2>8 DEF Company
<1>10. CASE ~(Len(q) > 1)
  <2>1. i = 1
    <3> DEFINE n == Len(q)
    <3>1. n \in Nat /\ ~(n > 1) /\ i \in 1 .. n
      BY <1>8, <1>10
    <3> HIDE DEF n
    <3>2. QED BY <3>1
  <2>2. Head(q) = x
    BY <1>6, <1>8, <2>1
  <2>3. \E row \in tables[k] : row.id = x.id
    <3> SUFFICES ASSUME ~\E row \in tables[k] : row.id = x.id PROVE FALSE
      OBVIOUS
    <3>1. tables'[k] = tables[k] \union {x}
      BY <1>3, <1>10, <2>2 DEF Inserted
    <3>2. QED BY <1>2, <1>5, <3>1
  <2>4. PICK row \in tables[k] : row.id = x.id
    BY <2>3
  <2> DEFINE f == flushing[KeyOf(type, x)]
  <2>5. i \in DOMAIN f /\ f[i] = x
    BY <1>5, <1>6 DEF q, j
  <2>6. row.process < x.process
    BY <1>1, <1>5, <2>4, <2>5, WaitsInQueue DEF j
  <2>7. row \in tables'[KeyOf(type, x)]
    BY <1>3, <1>5 DEF j
  <2>8. QED BY <2>4, <2>6, <2>7 DEF Company
<1>11. QED BY <1>9, <1>10

\* Company lasts while the process does: the other order stays lost and the row stays in its table.
LEMMA CompanyLasts ==
  ASSUME NEW type \in {"order", "detail"}, NEW o \in finished, Company(type, o), WriterTypeOK,
         \A x \in finished : x \in finished' /\ (Lost(type, x) => Lost(type, x)'),
         \A k \in Keys : \A row \in tables[k] : row \in tables'[k]
  PROVE  Company(type, o)'
<1>1. KeyOf(type, o) \in Keys
  BY KeyOfOrder DEF WriterTypeOK
<1>2. QED BY <1>1 DEF Company

\* The property in terms of Company, and the same of the next state.
LEMMA CompanyIsMeant ==
  LostInCompany <=> (failures = 0 => \A type \in {"order", "detail"} : \A o \in finished :
                                        Lost(type, o) /\ o.process = restarts => Company(type, o))
BY DEF LostInCompany, Company

LEMMA CompanyMeantNext ==
  (failures' = 0 => \A type \in {"order", "detail"} : \A o \in finished' :
                      Lost(type, o)' /\ o.process = restarts' => Company(type, o)')
    => LostInCompany'
BY DEF LostInCompany, Company

\* Only a statement that is executed loses an order, and then not alone.
LEMMA WriterKeepsCompany ==
  ASSUME HistoryInv, WriterNext
  PROVE  LostInCompany'
<1> SUFFICES ASSUME failures' = 0, NEW type \in {"order", "detail"}, NEW o \in finished',
                    Lost(type, o)', o.process = restarts'
             PROVE  Company(type, o)'
  BY CompanyMeantNext
<1> USE DEF HistoryInv
<1>1. failures = 0
  <2>1. failures \in Nat
    BY HistoryAssumption DEF WriterTypeOK
  <2>2. failures' = failures \/ failures' = failures + 1
    BY DEF WriterNext, AppendUserOrder, AppendOrderDetail, FlushPending, ExecSQL, EngineRestart
  <2>3. QED BY <2>1, <2>2
<1>2. \A x \in finished : Lost(type, x) /\ x.process = restarts => Company(type, x)
  BY <1>1, CompanyIsMeant
<1>3. ASSUME NEW u \in Users, AppendUserOrder(u)
      PROVE  Company(type, o)'
  <2>1. restarts' = restarts /\ tables' = tables /\ \A x \in finished : x \in finished'
    BY <1>3 DEF AppendUserOrder
  <2>2. o \in finished /\ Lost(type, o) /\ \A x \in finished : Lost(type, x) => Lost(type, x)'
    BY <1>3, <2>1, UserOrderLoses
  <2>3. QED BY <1>2, <2>1, <2>2, CompanyLasts
<1>4. CASE AppendOrderDetail
  <2>1. restarts' = restarts /\ tables' = tables /\ finished' = finished
    BY <1>4 DEF AppendOrderDetail
  <2>2. Lost(type, o) /\ \A x \in finished : Lost(type, x) => Lost(type, x)'
    BY <1>4, <2>1, OrderDetailLoses
  <2>3. QED BY <1>2, <2>1, <2>2, CompanyLasts
<1>5. CASE FlushPending
  <2>1. restarts' = restarts /\ tables' = tables /\ finished' = finished
    BY <1>5 DEF FlushPending
  <2>2. Lost(type, o) /\ \A x \in finished : Lost(type, x) => Lost(type, x)'
    BY <1>5, <2>1, FlushLoses
  <2>3. QED BY <1>2, <2>1, <2>2, CompanyLasts
<1>6. ASSUME NEW k \in Keys, ExecSQL(k)
      PROVE  Company(type, o)'
  <2>1. restarts' = restarts /\ finished' = finished /\ \A j \in Keys : \A row \in tables[j] : row \in tables'[j]
    BY <1>1, <1>6, ExecChanges
  <2>2. CASE Lost(type, o)
    <3>1. \A x \in finished : Lost(type, x) => Lost(type, x)'
      BY <1>1, <1>6, ExecFindsNone
    <3>2. QED BY <1>2, <2>1, <2>2, <3>1, CompanyLasts
  <2>3. CASE ~Lost(type, o)
    BY <1>1, <1>6, <2>1, <2>3, ExecLoses
  <2>4. QED BY <2>2, <2>3
<1>7. CASE EngineRestart
  <2>1. restarts' = restarts + 1 /\ finished' = finished
    BY <1>7 DEF EngineRestart
  <2>2. o.process <= restarts /\ o.process \in Nat /\ restarts \in Nat
    BY <2>1 DEF WriterTypeOK, Orders, LinesOK, FinishedOK
  <2>3. QED BY <2>1, <2>2
<1>8. QED BY <1>3, <1>4, <1>5, <1>6, <1>7 DEF WriterNext

\* The invariant of the writer is inductive.
LEMMA WriterKeepsHistory == HistoryInv /\ WriterNext => HistoryInv'
<1> SUFFICES ASSUME HistoryInv, WriterNext PROVE (WriterTypeOK /\ LinesOK)'
  BY WriterKeepsCompany DEF HistoryInv
<1> USE DEF HistoryInv
<1>1. ASSUME NEW u \in Users, AppendUserOrder(u) PROVE (WriterTypeOK /\ LinesOK)'
  BY <1>1, UserOrderKeeps
<1>2. CASE AppendOrderDetail
  BY <1>2, OrderDetailKeeps
<1>3. CASE FlushPending
  BY <1>3, FlushKeeps
<1>4. ASSUME NEW k \in Keys, ExecSQL(k) PROVE (WriterTypeOK /\ LinesOK)'
  BY <1>4, ExecKeeps
<1>5. CASE EngineRestart
  BY <1>5, EngineRestartKeeps
<1>6. QED BY <1>1, <1>2, <1>3, <1>4, <1>5 DEF WriterNext

LEMMA HistoryStands == HistoryInv /\ UNCHANGED writerVars => HistoryInv'
<1> SUFFICES ASSUME HistoryInv, UNCHANGED writerVars PROVE HistoryInv'
  OBVIOUS
<1>1. UNCHANGED <<lastID, appending, pending, flushing, tables, finished, restarts, failures>>
  BY DEF writerVars
<1>2. WriterTypeOK'
  BY <1>1 DEF HistoryInv, WriterTypeOK
<1>3. LinesOK'
  BY <1>1 DEF HistoryInv, LinesOK, QueueOK, FlushOK, FinishedOK, TablesOK
<1>4. LostInCompany'
  <2>1. ASSUME NEW type, NEW o PROVE Lost(type, o)' <=> Lost(type, o)
    BY <1>1 DEF Lost, Waiting
  <2>2. QED BY <1>1, <2>1 DEF HistoryInv, LostInCompany
<1>5. QED BY <1>2, <1>3, <1>4 DEF HistoryInv

LEMMA HistoryBegins == WriterInit => HistoryInv
<1> SUFFICES ASSUME WriterInit PROVE HistoryInv
  OBVIOUS
<1>1. <<>> \in Seq(Orders) /\ DOMAIN <<>> = {} /\ 0 \in 0 .. MaxOrders /\ 0 \in 0 .. MaxFailures
  BY HistoryAssumption
<1>2. WriterTypeOK
  BY <1>1 DEF WriterInit, WriterTypeOK
<1>3. LinesOK
  BY <1>1 DEF WriterInit, LinesOK, QueueOK, FlushOK, FinishedOK, TablesOK
<1>4. LostInCompany
  BY DEF WriterInit, LostInCompany
<1>5. QED BY <1>2, <1>3, <1>4 DEF HistoryInv
(***************************************************************************)
(* The readhistory service                                                 *)
(***************************************************************************)

\* What a table holds is finite: rows are inserted one by one.
TablesFinite == \A k \in Keys : IsFiniteSet(tables[k])

\* The front ends that answer a question agree when all their answers are one.
LEMMA OneAnswer ==
  ASSUME NEW front, NEW c, \A a \in front : a.kind \in {"result", "null"} => a = c,
         c.kind = "result" => Len(c.rows) <= MaxLimit
  PROVE  LET given == {a \in front : a.kind \in {"result", "null"}} IN
         /\ Cardinality(given) <= 1
         /\ \A a \in given : a.kind = "result" => Len(a.rows) <= MaxLimit
<1> DEFINE given == {a \in front : a.kind \in {"result", "null"}}
<1>1. given = {} \/ given = {c}
  OBVIOUS
<1>2. Cardinality(given) <= 1
  <2>1. Cardinality({}) = 0 /\ Cardinality({c}) = 1
    BY FS_EmptySet, FS_Singleton
  <2>2. Cardinality(given) = 0 \/ Cardinality(given) = 1
    BY <1>1, <2>1
  <2> HIDE DEF given
  <2>3. QED BY <2>2
<1>3. QED BY <1>2

\* A page has as many rows as its limit at most.
LEMMA PageIsShort ==
  ASSUME NEW rows, IsFiniteSet(rows), NEW offset \in Int, NEW limit \in Int, limit <= MaxLimit
  PROVE  /\ Page(rows, offset, limit).kind \in {"result", "error"}
         /\ Page(rows, offset, limit).kind = "result" =>
              Len(Page(rows, offset, limit).rows) <= MaxLimit
<1>1. CASE offset < 0 \/ limit < 0
  BY <1>1 DEF Page, InternalError, Failure
<1>2. CASE ~(offset < 0 \/ limit < 0)
  <2> DEFINE count == Cardinality(rows)
             last == IF offset + limit > count THEN count ELSE offset + limit
             page == SubSeq(Newest(rows), offset + 1, last)
  <2>1. count \in Nat /\ MaxLimit \in Nat
    BY FS_CardinalityType, ReadHistoryAssumption
  <2>2. Page(rows, offset, limit) = Result(page, limit)
    BY <1>2 DEF Page
  <2> HIDE DEF count
  <2>3. last \in Int /\ last - offset <= limit
    BY <1>2, <2>1
  <2> HIDE DEF last
  <2>4. Len(page) = IF offset + 1 <= last THEN last - (offset + 1) + 1 ELSE 0
    BY <2>3, SubSeqProperties
  <2> HIDE DEF page
  <2>5. Len(page) <= MaxLimit
    BY <1>2, <2>1, <2>3, <2>4
  <2>6. QED BY <2>2, <2>5 DEF Result
<1>3. QED BY <1>1, <1>2

\* How the front ends turn the limit of a question into one of the database.
LEMMA LimitsAgree ==
  ASSUME NEW p \in Parameters
  PROVE  /\ HTTPLimit(p.limit) \in Int /\ HTTPLimit(p.limit) <= MaxLimit
         /\ ~RPCRefuses(p.limit) => p.limit = HTTPLimit(p.limit)
         /\ ~RESTRefuses(p) => RESTLimit(p) = HTTPLimit(p.limit)
<1>1. p.limit \in Int /\ p.offset \in Int /\ MaxLimit \in Nat \ {0}
  BY ReadHistoryAssumption DEF Parameters
<1> DEFINE limit == p.limit
<1>2. limit \in Int
  BY <1>1
<1>3. /\ HTTPLimit(limit) \in Int /\ HTTPLimit(limit) <= MaxLimit
      /\ ~RPCRefuses(limit) => limit = HTTPLimit(limit)
  <2> HIDE DEF limit
  <2>1. QED BY <1>1, <1>2 DEF HTTPLimit, RPCRefuses
<1>4. ~RESTRefuses(p) => RESTLimit(p) = HTTPLimit(p.limit)
  BY <1>1 DEF HTTPLimit, RESTRefuses, RESTLimit
<1>5. QED BY <1>3, <1>4

\* The tables a question is looked up in are there.
LEMMA TablesAreThere ==
  ASSUME NEW n \in Nat, NEW type \in Types
  PROVE  <<type, n % ReaderShards>> \in Keys
<1>1. ReaderShards \in Nat \ {0} /\ Shards \in Nat /\ ReaderShards <= Shards
  BY ReadHistoryAssumption, HistoryAssumption, GatewayAssumption
<1>2. n % ReaderShards \in 0 .. ReaderShards - 1
  BY <1>1
<1>3. n % ReaderShards \in 0 .. Shards - 1
  BY <1>1, <1>2
<1>4. QED BY <1>3 DEF Keys

\* What follows is the same for each of the four lists: the answer the database gives
\* under the limit of the HTTP handlers is the only one.
LEMMA ListsAgree ==
  ASSUME NEW rows, IsFiniteSet(rows), NEW p \in Parameters,
         NEW http, NEW route, NEW rpc, NEW rest,
         http \in {InvalidParams, Page(rows, p.offset, HTTPLimit(p.limit))},
         route = http \/ (http.kind = "error" /\ route = BareError),
         rpc = RPCError \/ (~RPCRefuses(p.limit) /\ rpc = RPCPage(Page(rows, p.offset, p.limit))),
         rest = InvalidParams \/ (~RESTRefuses(p) /\ rest = Page(rows, p.offset, RESTLimit(p)))
  PROVE  \A a \in {http, route, rpc, rest} :
            a.kind \in {"result", "null"} => a = Page(rows, p.offset, HTTPLimit(p.limit))
<1> DEFINE c == Page(rows, p.offset, HTTPLimit(p.limit))
<1>1. /\ ~RPCRefuses(p.limit) => Page(rows, p.offset, p.limit) = c
      /\ ~RESTRefuses(p) => Page(rows, p.offset, RESTLimit(p)) = c
  BY LimitsAgree
<1>2. http \in {InvalidParams, c} /\ (route = http \/ route = BareError)
  OBVIOUS
<1> HIDE DEF c
<1>3. InvalidParams.kind = "error" /\ BareError.kind = "bare_error" /\ RPCError.kind = "rpc_error"
  BY DEF InvalidParams, Failure, BareError, RPCError
<1>4. RPCPage(c) = RPCError \/ RPCPage(c) = c
  BY DEF RPCPage
<1>5. (rpc = RPCError \/ rpc = c) /\ (rest = InvalidParams \/ rest = c)
  BY <1>1, <1>4
<1>6. \A a \in {http, route, rpc, rest} : a.kind \in {"result", "null"} => a = c
  BY <1>2, <1>3, <1>5
<1>7. QED BY <1>6 DEF c

\* The detail of an order is one row.
LEMMA DetailIsOneRow ==
  ASSUME WriterTypeOK, TablesOK, NEW id \in Nat
  PROVE  LET c == GetFinishedOrderDetail(tables, id)
         IN  c.kind \in {"result", "null"} /\ (c.kind = "result" => Len(c.rows) <= MaxLimit)
<1> DEFINE c == GetFinishedOrderDetail(tables, id)
           found == {row \in tables[OrderDetailTable(id)] : row.id = id}
<1>1. OrderDetailTable(id) \in Keys
  BY TablesAreThere DEF OrderDetailTable, Types
<1>2. MaxLimit \in Nat \ {0}
  BY ReadHistoryAssumption
<1>3. CASE found = {}
  BY <1>3 DEF GetFinishedOrderDetail, Null
<1>4. CASE found # {}
  <2>1. PICK row \in found : TRUE
    BY <1>4
  <2>2. found = {row}
    BY <1>1, <2>1 DEF TablesOK
  <2>3. c = Result(SetToSeq(found), 1)
    BY <1>4 DEF GetFinishedOrderDetail
  <2> HIDE DEF found
  <2>4. Cardinality(found) = 1
    BY <2>2, FS_Singleton
  <2>5. SetToSeq(found) \in [1 .. 1 -> found]
    <3> DEFINE f == [i \in 1 .. 1 |-> row]
    <3>1. f \in [1 .. 1 -> found] /\ IsInjective(f)
      BY <2>2 DEF IsInjective
    <3> HIDE DEF f
    <3>2. \E g \in [1 .. Cardinality(found) -> found] : IsInjective(g)
      BY <2>4, <3>1
    <3>3. SetToSeq(found) \in [1 .. Cardinality(found) -> found]
      BY <3>2 DEF SetToSeq
    <3>4. QED BY <2>4, <3>3
  <2>6. Len(SetToSeq(found)) = 1
    BY <2>5, LenProperties
  <2> DEFINE seq == SetToSeq(found)
  <2>7. c.kind = "result" /\ c.rows = seq /\ Len(seq) = 1
    BY <2>3, <2>6 DEF Result
  <2> HIDE DEF c, seq
  <2>8. c.kind = "result" /\ Len(c.rows) <= MaxLimit
    BY <1>2, <2>7
  <2>9. QED BY <2>8 DEF c
<1>5. QED BY <1>3, <1>4
\* The front ends agree on every question: list by list, and on the detail.
LEMMA FrontEndsAlwaysAgree == WriterTypeOK /\ TablesOK /\ TablesFinite => FrontEndsAgree
<1> SUFFICES ASSUME WriterTypeOK, TablesOK, TablesFinite, NEW p \in Questions
             PROVE  AgreeOn(tables, p)
  BY DEF FrontEndsAgree
<1>1. p \in Parameters /\ p.user \in Nat /\ p.id \in Nat /\ p.offset \in Int
      /\ HTTPLimit(p.limit) \in Int /\ HTTPLimit(p.limit) <= MaxLimit
  BY GatewayAssumption, LimitsAgree DEF Parameters
<1> DEFINE Fine(front) == LET given == {a \in front : a.kind \in {"result", "null"}} IN
                          /\ Cardinality(given) <= 1
                          /\ \A a \in given : a.kind = "result" => Len(a.rows) <= MaxLimit
           Short(rows) == Page(rows, p.offset, HTTPLimit(p.limit))
<1>2. ASSUME NEW rows, IsFiniteSet(rows), NEW front,
             \A a \in front : a.kind \in {"result", "null"} => a = Short(rows)
      PROVE  Fine(front)
  <2>1. Short(rows).kind = "result" => Len(Short(rows).rows) <= MaxLimit
    BY <1>1, <1>2, PageIsShort
  <2> HIDE DEF Short
  <2>2. QED BY <1>2, <2>1, OneAnswer
<1>3. \A type \in Types, n \in Nat : IsFiniteSet(tables[<<type, n % ReaderShards>>])
  BY TablesAreThere DEF TablesFinite
<1>4. Fine({HTTPOrderFinished(tables, p), RouteOrderFinished(tables, p),
            HandleOrderHistory(tables, p), RESTFinishedOrders(tables, p)})
  <2> DEFINE rows == {row \in tables[OrderHistoryTable(p.user)] : row.user = p.user}
  <2>1. IsFiniteSet(rows)
    BY <1>1, <1>3, FS_Subset DEF OrderHistoryTable, Types
  <2>2. \A offset, limit : GetFinishedOrders(tables, p.user, offset, limit) = Page(rows, offset, limit)
    BY DEF GetFinishedOrders
  <2> HIDE DEF rows
  <2>3. /\ HTTPOrderFinished(tables, p) \in {InvalidParams, Short(rows)}
        /\ RouteOrderFinished(tables, p) = HTTPOrderFinished(tables, p)
        /\ \/ HandleOrderHistory(tables, p) = RPCError
           \/ /\ ~RPCRefuses(p.limit)
              /\ HandleOrderHistory(tables, p) = RPCPage(Page(rows, p.offset, p.limit))
        /\ \/ RESTFinishedOrders(tables, p) = InvalidParams
           \/ ~RESTRefuses(p) /\ RESTFinishedOrders(tables, p) = Page(rows, p.offset, RESTLimit(p))
    BY <2>2 DEF HTTPOrderFinished, RouteOrderFinished, HandleOrderHistory, RESTFinishedOrders
  <2>4. \A a \in {HTTPOrderFinished(tables, p), RouteOrderFinished(tables, p),
                  HandleOrderHistory(tables, p), RESTFinishedOrders(tables, p)} :
           a.kind \in {"result", "null"} => a = Short(rows)
    BY <1>1, <2>1, <2>3, ListsAgree
  <2> HIDE DEF Fine, Short
  <2>5. QED BY <1>2, <2>1, <2>4
<1>5. Fine({HTTPUserDeals(tables, p), HandleMarketUserDeals(tables, p), RESTUserMarketDeals(tables, p)})
  <2> DEFINE rows == {row \in tables[UserDealHistoryTable(p.user)] : row.user = p.user}
  <2>1. IsFiniteSet(rows)
    BY <1>1, <1>3, FS_Subset DEF UserDealHistoryTable, Types
  <2>2. \A offset, limit : GetUserMarketDeals(tables, p.user, offset, limit) = Page(rows, offset, limit)
    BY DEF GetUserMarketDeals
  <2> HIDE DEF rows
  <2>3. /\ HTTPUserDeals(tables, p) \in {InvalidParams, Short(rows)}
        /\ \/ HandleMarketUserDeals(tables, p) = RPCError
           \/ /\ ~RPCRefuses(p.limit)
              /\ HandleMarketUserDeals(tables, p) = RPCPage(Page(rows, p.offset, p.limit))
        /\ \/ RESTUserMarketDeals(tables, p) = InvalidParams
           \/ ~RESTRefuses(p) /\ RESTUserMarketDeals(tables, p) = Page(rows, p.offset, RESTLimit(p))
    BY <2>2 DEF HTTPUserDeals, HandleMarketUserDeals, RESTUserMarketDeals
  <2>4. \A a \in {HTTPUserDeals(tables, p), HTTPUserDeals(tables, p),
                  HandleMarketUserDeals(tables, p), RESTUserMarketDeals(tables, p)} :
           a.kind \in {"result", "null"} => a = Short(rows)
    BY <1>1, <2>1, <2>3, ListsAgree
  <2> HIDE DEF Fine, Short
  <2>5. QED BY <1>2, <2>1, <2>4
<1>6. Fine({HTTPBalanceHistory(tables, p), RouteBalanceHistory(tables, p),
            HandleBalanceHistory(tables, p), RESTBalanceHistory(tables, p)})
  <2> DEFINE rows == {row \in tables[BalanceHistoryTable(p.user)] : row.user = p.user}
  <2>1. IsFiniteSet(rows)
    BY <1>1, <1>3, FS_Subset DEF BalanceHistoryTable, Types
  <2>2. \A offset, limit : GetBalanceHistory(tables, p.user, offset, limit) = Page(rows, offset, limit)
    BY DEF GetBalanceHistory
  <2> HIDE DEF rows
  <2>3. /\ HTTPBalanceHistory(tables, p) \in {InvalidParams, Short(rows)}
        /\ \/ RouteBalanceHistory(tables, p) = HTTPBalanceHistory(tables, p)
           \/ HTTPBalanceHistory(tables, p).kind = "error" /\ RouteBalanceHistory(tables, p) = BareError
        /\ \/ HandleBalanceHistory(tables, p) = RPCError
           \/ /\ ~RPCRefuses(p.limit)
              /\ HandleBalanceHistory(tables, p) = RPCPage(Page(rows, p.offset, p.limit))
        /\ \/ RESTBalanceHistory(tables, p) = InvalidParams
           \/ ~RESTRefuses(p) /\ RESTBalanceHistory(tables, p) = Page(rows, p.offset, RESTLimit(p))
    BY <2>2 DEF HTTPBalanceHistory, RouteBalanceHistory, HandleBalanceHistory, RESTBalanceHistory
  <2>4. \A a \in {HTTPBalanceHistory(tables, p), RouteBalanceHistory(tables, p),
                  HandleBalanceHistory(tables, p), RESTBalanceHistory(tables, p)} :
           a.kind \in {"result", "null"} => a = Short(rows)
    BY <1>1, <2>1, <2>3, ListsAgree
  <2> HIDE DEF Fine, Short
  <2>5. QED BY <1>2, <2>1, <2>4
<1>7. Fine({HTTPOrderDeals(tables, p), RouteOrderDeals(tables, p), HandleOrderDeals(tables, p)})
  <2> DEFINE rows == {row \in tables[DealHistoryTable(p.id)] : row.order = p.id}
  <2>1. IsFiniteSet(rows)
    BY <1>1, <1>3, FS_Subset DEF DealHistoryTable, Types
  <2>2. \A offset, limit : GetOrderDeals(tables, p.id, offset, limit) = Page(rows, offset, limit)
    BY DEF GetOrderDeals
  <2> HIDE DEF rows
  <2>3. /\ HTTPOrderDeals(tables, p) \in {InvalidParams, Short(rows)}
        /\ RouteOrderDeals(tables, p) = HTTPOrderDeals(tables, p)
        /\ \/ HandleOrderDeals(tables, p) = RPCError
           \/ /\ ~RPCRefuses(p.limit)
              /\ HandleOrderDeals(tables, p) = RPCPage(Page(rows, p.offset, p.limit))
    BY <2>2 DEF HTTPOrderDeals, RouteOrderDeals, HandleOrderDeals
  <2>4. \A a \in {HTTPOrderDeals(tables, p), RouteOrderDeals(tables, p),
                  HandleOrderDeals(tables, p), InvalidParams} :
           a.kind \in {"result", "null"} => a = Short(rows)
    BY <1>1, <2>1, <2>3, ListsAgree
  <2> HIDE DEF Fine, Short
  <2>5. QED BY <1>2, <2>1, <2>4
<1>8. Fine({HTTPOrderFinishedDetail(tables, p), RouteOrderFinishedDetail(tables, p),
            HandleOrderDetailFinished(tables, p), RESTFinishedOrderDetail(tables, p)})
  <2> DEFINE c == GetFinishedOrderDetail(tables, p.id)
             front == {HTTPOrderFinishedDetail(tables, p), RouteOrderFinishedDetail(tables, p),
                       HandleOrderDetailFinished(tables, p), RESTFinishedOrderDetail(tables, p)}
  <2>1. c.kind = "result" => Len(c.rows) <= MaxLimit
    BY <1>1, DetailIsOneRow
  <2> HIDE DEF c
  <2>2. \A a \in front : a = c \/ a = InvalidParams \/ a = RPCError
    BY DEF HTTPOrderFinishedDetail, RouteOrderFinishedDetail, HandleOrderDetailFinished,
           RESTFinishedOrderDetail, c
  <2> HIDE DEF front
  <2>3. \A a \in front : a.kind \in {"result", "null"} => a = c
    BY <2>2 DEF InvalidParams, Failure, RPCError
  <2>4. Fine(front)
    BY <2>1, <2>3, OneAnswer
  <2>5. QED BY <2>4 DEF front
<1> HIDE DEF Fine
<1>9. \A front \in
        {{HTTPOrderFinished(tables, p), RouteOrderFinished(tables, p),
          HandleOrderHistory(tables, p), RESTFinishedOrders(tables, p)},
         {HTTPUserDeals(tables, p), HandleMarketUserDeals(tables, p), RESTUserMarketDeals(tables, p)},
         {HTTPBalanceHistory(tables, p), RouteBalanceHistory(tables, p),
          HandleBalanceHistory(tables, p), RESTBalanceHistory(tables, p)},
         {HTTPOrderDeals(tables, p), RouteOrderDeals(tables, p), HandleOrderDeals(tables, p)},
         {HTTPOrderFinishedDetail(tables, p), RouteOrderFinishedDetail(tables, p),
          HandleOrderDetailFinished(tables, p), RESTFinishedOrderDetail(tables, p)}} : Fine(front)
  BY <1>4, <1>5, <1>6, <1>7, <1>8
<1>10. QED BY <1>9 DEF AgreeOn, Fine

(***************************************************************************)
(* The gateway                                                             *)
(***************************************************************************)

\* A request on its way is whole, and what was known of its order still is.
RequestOK ==
    /\ request = Idle \/ request \in [method : Routes, params : Asked, known : BOOLEAN, down : BOOLEAN]
    /\ request # Idle => (request.known => Known(request.params.id))
    /\ NothingMeansUnknown

\* The inductive invariant of the gateway and the history behind it.
GatewayInv == HistoryInv /\ TablesFinite /\ GatewayTypeOK /\ RequestOK

\* Rows join a table one at a time and never leave it.
LEMMA TablesGrow ==
  ASSUME WriterTypeOK, TablesFinite, WriterNext
  PROVE  TablesFinite' /\ \A k \in Keys : \A row \in tables[k] : row \in tables'[k]
<1>1. CASE UNCHANGED tables
  BY <1>1 DEF TablesFinite
<1>2. ASSUME NEW k \in Keys, tables' = [tables EXCEPT ![k] = Inserted(@, flushing[k])]
      PROVE  TablesFinite' /\ \A j \in Keys : \A row \in tables[j] : row \in tables'[j]
  <2>1. DOMAIN tables = Keys
    BY DEF WriterTypeOK
  <2>2. tables'[k] = Inserted(tables[k], flushing[k]) /\ \A j \in Keys \ {k} : tables'[j] = tables[j]
    BY <1>2, <2>1
  <2>3. tables'[k] = tables[k] \/ tables'[k] = tables[k] \union {Head(flushing[k])}
    BY <2>2 DEF Inserted
  <2>4. IsFiniteSet(tables'[k])
    BY <2>3, FS_AddElement DEF TablesFinite
  <2>5. QED BY <2>2, <2>3, <2>4 DEF TablesFinite
<1>3. UNCHANGED tables \/ \E k \in Keys : tables' = [tables EXCEPT ![k] = Inserted(@, flushing[k])]
  BY DEF WriterNext, AppendUserOrder, AppendOrderDetail, FlushPending, ExecSQL, EngineRestart
<1>4. QED BY <1>1, <1>2, <1>3
\* What a reader finds it will find later: no row leaves its table.
LEMMA KnownLasts ==
  ASSUME NEW id \in Nat, \A k \in Keys : \A row \in tables[k] : row \in tables'[k], Known(id)
  PROVE  Known(id)'
<1>1. WriterShards \in Nat \ {0} /\ Shards \in Nat /\ WriterShards <= Shards
  BY HistoryAssumption
<1>2. id % WriterShards \in 0 .. WriterShards - 1
  BY <1>1
<1>3. id % WriterShards \in 0 .. Shards - 1
  BY <1>1, <1>2
<1>4. <<"detail", id % WriterShards>> \in Keys
  BY <1>3 DEF Keys, Types
<1>5. QED BY <1>4 DEF Known

\* The pools are those of the three backends.
LEMMA PoolsOK ==
  /\ Backends \subseteq {"matchengine", "readhistory", "marketprice"}
  /\ Len(Pools) \in Nat \ {0} /\ \A i \in 1 .. Len(Pools) : Pools[i] \in Backends
<1>1. Pools \in Seq({"matchengine", "readhistory", "marketprice"}) /\ Pools # <<>>
  BY GatewayAssumption
<1>2. Len(Pools) \in Nat \ {0} /\ DOMAIN Pools = 1 .. Len(Pools)
      /\ \A i \in 1 .. Len(Pools) : Pools[i] \in {"matchengine", "readhistory", "marketprice"}
  BY <1>1
<1>3. QED BY <1>2 DEF Backends, Range

\* The question for an order's detail goes to readhistory, through its pool.
LEMMA DetailGoesToHistory ==
  ASSUME "order.finished_detail" \in Routes
  PROVE  Route("order.finished_detail") = Forward("readhistory")
<1> DEFINE method == "order.finished_detail"
<1>1. method \notin DOMAIN Own
  BY DEF Own
<1>2. \A b \in Backends : method \in Forwarded(b) => b = "readhistory"
  <2> SUFFICES ASSUME NEW b \in Backends, b # "readhistory", method \in Forwarded(b) PROVE FALSE
    OBVIOUS
  <2>1. b = "matchengine" \/ b = "marketprice"
    BY PoolsOK
  <2>2. QED BY <2>1 DEF Forwarded
<1>3. \E b \in Backends : method \in Forwarded(b)
  BY <1>1 DEF Routes
<1> HIDE DEF method
<1>4. (CHOOSE b \in Backends : method \in Forwarded(b)) = "readhistory"
  BY <1>2, <1>3
<1>5. QED BY <1>1, <1>4 DEF Route, method

\* A backend that has the detail of an order says so.
LEMMA KnownIsTold ==
  ASSUME NEW r \in [method : Routes, params : Asked, known : BOOLEAN, down : BOOLEAN],
         r.method = "order.finished_detail", Known(r.params.id)
  PROVE  Decoded(Body(r)).kind # "null"
<1> DEFINE p == r.params
<1>1. Route(r.method) = Forward("readhistory")
  BY DetailGoesToHistory
<1>2. Body(r) = HTTPJSONRPC(tables, r.method, p)
  BY <1>1 DEF Body, Served, Forward
<1>3. Body(r) = HTTPOrderFinishedDetail(tables, p)
  BY <1>2 DEF HTTPJSONRPC
<1>4. GetFinishedOrderDetail(tables, p.id).kind = "result"
  <2>1. {row \in tables[OrderDetailTable(p.id)] : row.id = p.id} # {}
    BY DEF Known, OrderDetailTable
  <2>2. QED BY <2>1 DEF GetFinishedOrderDetail, Result
<1>5. Body(r).kind \in {"result", "error"}
  BY <1>3, <1>4 DEF HTTPOrderFinishedDetail, InvalidParams, Failure
<1>6. QED BY <1>5 DEF Decoded

\* A request is known by what the tables hold when it is asked.
LEMMA RequestsStayWhole ==
  ASSUME WriterTypeOK, GatewayTypeOK, RequestOK, NEW m \in Methods, NEW p \in Asked, HandleJSONRPC(m, p)
  PROVE  (GatewayTypeOK /\ RequestOK)'
<1>1. PICK known \in BOOLEAN : known <=> Known(p.id)
  OBVIOUS
<1>2. Known(p.id) = known
  BY <1>1 DEF Known
<1> DEFINE r == [method |-> m, params |-> p, known |-> known, down |-> FALSE]
<1>3. /\ requests < MaxRequests /\ requests' = requests + 1 /\ request = Idle
      /\ UNCHANGED <<lastID, appending, pending, flushing, tables, finished, restarts, failures>>
      /\ UNCHANGED <<running, available, checking, outages>>
      /\ \/ reply' = Reply("error", r) /\ UNCHANGED request
         \/ /\ m \in Routes /\ request' = [r EXCEPT !.down = Route(m).backend \notin running]
            /\ reply' = NoReply
  BY <1>2 DEF HandleJSONRPC, writerVars
<1>4. requests' \in 0 .. MaxRequests
  BY <1>3, GatewayAssumption DEF GatewayTypeOK
<1>5. CASE reply' = Reply("error", r) /\ UNCHANGED request
  BY <1>3, <1>4, <1>5 DEF GatewayTypeOK, RequestOK, NothingMeansUnknown, Reply, Known
<1>6. CASE /\ m \in Routes /\ request' = [r EXCEPT !.down = Route(m).backend \notin running]
           /\ reply' = NoReply
  <2>1. PICK down \in BOOLEAN : request' = [method |-> m, params |-> p, known |-> known, down |-> down]
    BY <1>6
  <2>2. /\ request' \in [method : Routes, params : Asked, known : BOOLEAN, down : BOOLEAN]
        /\ request'.params.id = p.id /\ request'.known = known /\ request'.method \in Routes
    BY <1>6, <2>1
  <2>3. Known(p.id)' <=> Known(p.id)
    BY <1>3 DEF Known
  <2>4. (request # Idle => (request.known => Known(request.params.id)))'
    BY <1>1, <1>3, <2>2 DEF Known
  <2>5. GatewayTypeOK'
    BY <1>3, <1>4, <2>2 DEF GatewayTypeOK
  <2>6. NothingMeansUnknown'
    BY <1>6 DEF NothingMeansUnknown, NoReply
  <2>7. QED BY <2>2, <2>4, <2>5, <2>6 DEF RequestOK
<1>7. QED BY <1>3, <1>5, <1>6

\* An answer that the rows of an order are missing is owed no more than one that errs.
LEMMA AnswersStayTrue ==
  ASSUME GatewayTypeOK, RequestOK, request # Idle, NEW kind, Answers(kind),
         kind = "null" => ~request.known \/ request.down \/ request.method # "order.finished_detail"
  PROVE  (GatewayTypeOK /\ RequestOK)'
<1>1. /\ reply' = Reply(kind, request) /\ request' = Idle
      /\ UNCHANGED <<running, available, checking, requests, outages>>
  BY DEF Answers
<1>2. NothingMeansUnknown'
  BY <1>1 DEF NothingMeansUnknown, Reply
<1>3. QED BY <1>1, <1>2 DEF GatewayTypeOK, RequestOK

\* No step of the gateway, its pools, the backends or the history breaks a request.
LEMMA GatewayKeepsTypes ==
  ASSUME HistoryInv, TablesFinite, GatewayTypeOK, RequestOK, Next
  PROVE  (GatewayTypeOK /\ RequestOK)'
<1>1. CASE WriterNext /\ UNCHANGED gatewayVars
  <2>1. UNCHANGED <<running, available, checking, request, reply, requests, outages>>
    BY <1>1 DEF gatewayVars
  <2>2. request # Idle /\ request.known => Known(request.params.id)'
    <3> SUFFICES ASSUME request # Idle, request.known PROVE Known(request.params.id)'
      OBVIOUS
    <3>1. PICK id : id = request.params.id
      OBVIOUS
    <3>2. id \in Nat /\ Known(id)
      BY <3>1, GatewayAssumption DEF RequestOK, Parameters
    <3>3. Known(id)'
      BY <1>1, <3>2, KnownLasts, TablesGrow DEF HistoryInv
    <3>4. QED BY <2>1, <3>1, <3>3 DEF Known
  <2>3. QED BY <2>1, <2>2 DEF GatewayTypeOK, RequestOK, NothingMeansUnknown, Known
<1>2. ASSUME NEW m \in Methods, NEW p \in Asked, HandleJSONRPC(m, p)
      PROVE  (GatewayTypeOK /\ RequestOK)'
  BY <1>2, RequestsStayWhole DEF HistoryInv
<1>3. CASE BackendAnswers
  <2>1. request # Idle /\ Answers(Decoded(Body(request)).kind)
    BY <1>3 DEF BackendAnswers
  <2>2. PICK kind : kind = Decoded(Body(request)).kind
    OBVIOUS
  <2>3. Answers(kind)
    BY <2>1, <2>2
  <2>4. ~(kind = "null" /\ request.known /\ ~request.down /\ request.method = "order.finished_detail")
    <3> SUFFICES ASSUME request.known, request.method = "order.finished_detail" PROVE kind # "null"
      OBVIOUS
    <3>1. PICK r : r = request
      OBVIOUS
    <3>2. r \in [method : Routes, params : Asked, known : BOOLEAN, down : BOOLEAN] /\ Known(r.params.id)
      BY <2>1, <3>1 DEF RequestOK
    <3>3. QED BY <2>2, <3>1, <3>2, KnownIsTold
  <2>5. QED BY <2>1, <2>3, <2>4, AnswersStayTrue
<1>4. CASE ConnectionFails
  BY <1>4, AnswersStayTrue DEF ConnectionFails
<1>5. CASE DeadlinePasses
  BY <1>5, AnswersStayTrue DEF DeadlinePasses
<1>6. CASE HealthCheck
  <2>1. UNCHANGED <<lastID, appending, pending, flushing, tables, finished, restarts, failures>>
        /\ UNCHANGED <<running, request, reply, requests, outages>>
    BY <1>6 DEF HealthCheck, CheckHealth, CheckTick, writerVars
  <2>2. checking' \in 0 .. Len(Pools)
    <3> DEFINE n == Len(Pools)
    <3>1. checking \in 0 .. n /\ n \in Nat \ {0}
      BY PoolsOK DEF GatewayTypeOK
    <3>2. checking' = (checking + 1) % (n + 1) \/ checking' = 1
      BY <1>6 DEF HealthCheck, CheckHealth, CheckTick
    <3> HIDE DEF n
    <3>3. (checking + 1) % (n + 1) \in 0 .. n
      BY <3>1
    <3>4. checking' \in 0 .. n
      BY <3>1, <3>2, <3>3
    <3>5. QED BY <3>4 DEF n
  <2>3. available' \subseteq Backends
    <3>1. CASE CheckHealth
      BY <3>1 DEF CheckHealth, GatewayTypeOK
    <3>2. CASE CheckTick
      BY <3>2 DEF CheckTick, GatewayTypeOK
    <3>3. QED BY <1>6, <3>1, <3>2 DEF HealthCheck
  <2>4. QED BY <2>1, <2>2, <2>3 DEF GatewayTypeOK, RequestOK, NothingMeansUnknown, Known
<1>7. ASSUME NEW b \in Backends, GoesDown(b)
      PROVE  (GatewayTypeOK /\ RequestOK)'
  <2>1. UNCHANGED <<lastID, appending, pending, flushing, tables, finished, restarts, failures>>
        /\ UNCHANGED <<available, checking, reply, requests>> /\ running' \subseteq Backends
    BY <1>7 DEF GoesDown, writerVars, GatewayTypeOK
  <2>2. outages' \in 0 .. MaxOutages
    BY <1>7, GatewayAssumption DEF GoesDown, GatewayTypeOK
  <2>3. CASE request' = request
    BY <2>1, <2>2, <2>3 DEF GatewayTypeOK, RequestOK, NothingMeansUnknown, Known
  <2>4. CASE request # Idle /\ request' = [request EXCEPT !.down = TRUE]
    <3>1. /\ request' \in [method : Routes, params : Asked, known : BOOLEAN, down : BOOLEAN]
          /\ request'.params = request.params /\ request'.known = request.known
          /\ request'.method \in Routes
      BY <2>4 DEF RequestOK
    <3>2. QED BY <2>1, <2>2, <2>4, <3>1 DEF GatewayTypeOK, RequestOK, NothingMeansUnknown, Known
  <2>5. QED BY <1>7, <2>3, <2>4 DEF GoesDown
<1>8. ASSUME NEW b \in Backends, ComesUp(b)
      PROVE  (GatewayTypeOK /\ RequestOK)'
  BY <1>8 DEF ComesUp, writerVars, GatewayTypeOK, RequestOK, NothingMeansUnknown, Known
<1>9. QED BY <1>1, <1>2, <1>3, <1>4, <1>5, <1>6, <1>7, <1>8 DEF Next

\* The invariant of the gateway is inductive.
LEMMA GatewayKeepsInv == GatewayInv /\ [Next]_vars => GatewayInv'
<1> SUFFICES ASSUME GatewayInv, [Next]_vars PROVE GatewayInv'
  OBVIOUS
<1> USE DEF GatewayInv
<1>1. (WriterNext \/ UNCHANGED writerVars)
  BY DEF Next, vars, HandleJSONRPC, BackendAnswers, ConnectionFails, DeadlinePasses, Answers, HealthCheck,
         CheckHealth, CheckTick, GoesDown, ComesUp
<1>2. HistoryInv' /\ TablesFinite'
  <2>1. CASE WriterNext
    BY <2>1, WriterKeepsHistory, TablesGrow DEF HistoryInv
  <2>2. CASE UNCHANGED writerVars
    BY <2>2, HistoryStands DEF writerVars, TablesFinite
  <2>3. QED BY <1>1, <2>1, <2>2
<1>3. (GatewayTypeOK /\ RequestOK)'
  <2>1. CASE Next
    BY <2>1, GatewayKeepsTypes
  <2>2. CASE UNCHANGED vars
    BY <2>2 DEF vars, writerVars, gatewayVars, GatewayTypeOK, RequestOK, NothingMeansUnknown, Known
  <2>3. QED BY <2>1, <2>2
<1>4. QED BY <1>2, <1>3

LEMMA GatewayBegins == Init => GatewayInv
<1> SUFFICES ASSUME WriterInit, GatewayInit PROVE GatewayInv
  BY DEF Init
<1>1. HistoryInv
  BY HistoryBegins
<1>2. TablesFinite
  BY FS_EmptySet DEF WriterInit, TablesFinite
<1>3. GatewayTypeOK /\ RequestOK
  BY PoolsOK, GatewayAssumption DEF GatewayInit, GatewayTypeOK, RequestOK, NothingMeansUnknown, NoReply
<1>4. QED BY <1>1, <1>2, <1>3 DEF GatewayInv

LEMMA GatewayHolds == Spec => []GatewayInv
BY GatewayBegins, GatewayKeepsInv, PTL DEF Spec

\* The history writer, the tables, the gateway and its pools are well typed.
THEOREM HistoryStaysTyped == Spec => []TypeOK
<1>1. GatewayInv => TypeOK
  BY DEF GatewayInv, HistoryInv, TypeOK
<1>2. QED BY <1>1, GatewayHolds, PTL

\* While the database works, the record of an order is lost only with another of its
\* table, or because an earlier process has used its id: never by the cap on what
\* waits, and never for want of a flush.
THEOREM RecordsAreLostInCompany == Spec => []LostInCompany
<1>1. GatewayInv => LostInCompany
  BY DEF GatewayInv, HistoryInv
<1>2. QED BY <1>1, GatewayHolds, PTL

\* The front ends of readhistory agree on every question, and a client that a working
\* backend tells of no order asked before the order was in its table.
THEOREM AnswersAreTrue == Spec => []AnswersHold
<1>1. GatewayInv => AnswersHold
  BY FrontEndsAlwaysAgree DEF GatewayInv, HistoryInv, LinesOK, RequestOK, AnswersHold
<1>2. QED BY <1>1, GatewayHolds, PTL
=============================================================================
