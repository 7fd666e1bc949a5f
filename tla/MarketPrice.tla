---------------------------- MODULE MarketPrice ----------------------------
(***************************************************************************)
(* The market-data service: one consumer reads the deals topic, folds each *)
(* deal into the kline of every interval (kline.go), then appends it to    *)
(* the list of its market (market.go), then saves its offset in redis      *)
(* (consumer.go).  The group's own committed offset follows what was read, *)
(* not what was handled.  All but the two offsets is lost in a restart.    *)
(* The HTTP handlers (server.go) read the klines and the list.             *)
(*                                                                         *)
(* One market: deals of others differ in nothing but the keys of the maps. *)
(***************************************************************************)
EXTENDS Integers, SequencesExt, FiniteSetsExt

CONSTANTS Prices, Amounts,
          Junk,          \* a message that is no deal
          Intervals,     \* lengths of the klines kept
          Day,           \* the longest interval the week and month klines add up
          FirstMonday, Week,
          MonthStarts,   \* the times at which months start
          MaxDeals,      \* deals kept (100 in the code)
          Limit,         \* deals asked for at once
          StartTime,     \* now at the start
          None,          \* no offset, no kline
          MaxMessages,   \* bound: messages in the topic
          MaxTime,       \* bound: now
          MaxFaults      \* bound: crashes, rebalances, errors of kafka and redis, engine restarts

VARIABLES topic,                  \* kafka: the messages of the one partition
          nextID,                 \* the engine's next deal id
          now,
          committed,              \* kafka: where the group starts to read
          saved,                  \* redis: k:offset
          up,
          position,               \* what ReadMessage returns next, from 0
          lastOffset,             \* None, or the offset below which messages are skipped
          msg,                    \* the message in hand, and what was done of it
          klines,                 \* km.current: kline or None by interval
          deals,                  \* info.Deals
          \* History:
          top,                    \* the highest id listed in this run of the service
          since,                  \* the lowest offset of a deal handled in it
          again,                  \* kafka delivered again in it what had been read
          handled,                \* offsets handled in any run
          lost,                   \* offsets in hand, and not yet in the list, at a crash
          faults
marketVars == <<topic, nextID, now, committed, saved, up, position, lastOffset,
                msg, klines, deals, top, since, again, handled, lost, faults>>

Deal == [id : 1 .. MaxMessages, time : StartTime .. MaxTime, price : Prices, amount : Amounts]
NoMsg == [offset |-> None, done |-> "none"]

ASSUME MarketAssumption ==
  /\ Intervals \subseteq Nat \ {0} /\ Day \in Intervals
  /\ MaxDeals \in Nat \ {0} /\ StartTime \in Nat /\ StartTime >= Day
  /\ MaxMessages \in Nat /\ MaxTime \in Nat /\ MaxTime >= StartTime
  /\ None \notin Nat /\ Junk \notin Deal

\* The state of the consumer, its stores and its topic is well typed.
MarketTypeOK ==
  /\ topic \in Seq(Deal \union {Junk}) /\ Len(topic) <= MaxMessages
  /\ nextID \in 1 .. MaxMessages + 1 /\ now \in StartTime .. MaxTime
  /\ committed \in 0 .. Len(topic) /\ position \in 0 .. Len(topic)
  /\ saved \in {None} \union 1 .. Len(topic) /\ lastOffset \in {None} \union 1 .. Len(topic)
  /\ up \in BOOLEAN /\ again \in BOOLEAN
  /\ msg = NoMsg \/ (msg.offset < Len(topic) /\ msg.done \in {"read", "klines", "listed"})
  /\ \A i \in Intervals : klines[i] = None \/ klines[i].timestamp % i = 0
  /\ deals \in Seq(Deal) /\ Len(deals) <= MaxDeals
  /\ since \in {None} \union 0 .. Len(topic) - 1
  /\ handled \union lost \subseteq 0 .. Len(topic) - 1

-----------------------------------------------------------------------------
(* Klines. *)

\* Mutant: a kline is stamped with the time of its first deal.
ToTimestampRaw(interval, time) == time
ToTimestamp(interval, time) == (time \div interval) * interval

FirstKline(interval, d) ==
  [interval |-> interval, open |-> d.price, high |-> d.price, low |-> d.price, close |-> d.price,
   volume |-> d.amount, deal |-> d.price * d.amount, timestamp |-> ToTimestamp(interval, d.time)]

\* Mutant: the bucket of the kline is not looked at.
AddToAnyKline(k, interval, d) ==
  IF k = None THEN FirstKline(interval, d)
  ELSE [k EXCEPT !.high = Max({@, d.price}), !.low = Min({@, d.price}), !.close = d.price,
                 !.volume = @ + d.amount, !.deal = @ + d.price * d.amount]
(* A deal outside the bucket of the current kline, later or earlier,       *)
(* starts another in its place.                                            *)
AddToKline(k, interval, d) ==
  IF k = None \/ k.timestamp # ToTimestamp(interval, d.time) THEN FirstKline(interval, d)
  ELSE [k EXCEPT !.high = Max({@, d.price}), !.low = Min({@, d.price}), !.close = d.price,
                 !.volume = @ + d.amount, !.deal = @ + d.price * d.amount]

GetKline(interval) == klines[interval]

(* The klines of the day and less that start in the range, added up: a     *)
(* deal counts once for each.  Go walks over a map: which kline is first   *)
(* and which last is open.                                                 *)
AggregatedKlines(from, to, name) ==
  LET ks == {klines[i] : i \in {j \in Intervals : j <= Day /\ klines[j] # None
                                                  /\ klines[j].timestamp >= from /\ klines[j].timestamp <= to}}
      Total(f(_)) == FoldSet(LAMBDA k, sum : sum + f(k), 0, ks) IN
  {[interval |-> name, open |-> first.open, close |-> last.close,
    high |-> Max({k.high : k \in ks}), low |-> Min({k.low : k \in ks}),
    volume |-> Total(LAMBDA k : k.volume), deal |-> Total(LAMBDA k : k.deal),
    timestamp |-> from] : first \in ks, last \in ks}

GetWeekKlines(time) ==
  LET start == time - ((time - FirstMonday) % Week) IN AggregatedKlines(start, start + Week - 1, "1w")

GetMonthKlines(time) ==
  LET start == Max({t \in MonthStarts : t <= time})
      next  == Min({t \in MonthStarts : t > time}) IN
  AggregatedKlines(start, next - 1, "1M")

-----------------------------------------------------------------------------
(* The list of deals and what is computed from it. *)

\* Mutant: the deals that do not fit are the new ones.
AddDealKeepsOldest(d) == SubSeq(Append(deals, d), 1, Min({Len(deals) + 1, MaxDeals}))
AddDeal(d) ==
  LET longer == Append(deals, d) IN
  IF Len(longer) > MaxDeals THEN SubSeq(longer, Len(longer) - MaxDeals + 1, Len(longer)) ELSE longer

(* A market is there once it has had a deal; the price of the newest is    *)
(* its last.                                                               *)
Found == deals # <<>>
LastPrice == Last(deals).price

MarketStatus(period) ==
  LET of == SelectSeq(deals, LAMBDA d : d.time >= now - period)
      prices == {d.price : d \in Range(of)} IN
  IF of = <<>> THEN [last |-> LastPrice, open |-> LastPrice, close |-> LastPrice, high |-> LastPrice,
                     low |-> LastPrice, volume |-> 0, deal |-> 0]
  ELSE [last |-> LastPrice, open |-> Head(of).price, close |-> Last(of).price,
        high |-> Max(prices), low |-> Min(prices),
        volume |-> FoldSeq(LAMBDA d, sum : sum + d.amount, 0, of),
        deal |-> FoldSeq(LAMBDA d, sum : sum + d.price * d.amount, 0, of)]

(* The day's klines the volumes are added up from are never made.          *)
MarketSummary ==
  LET prices == {d.price : d \in Range(deals)} IN
  [open |-> Head(deals).price, close |-> LastPrice, high |-> Max(prices), low |-> Min(prices),
   volume |-> 0, deal |-> 0]

(* The newest deals after lastID, oldest first.                            *)
DealsAfterID(lastID, limit) ==
  LET after == SelectSeq(deals, LAMBDA d : d.id > lastID) IN
  SubSeq(after, IF Len(after) > limit THEN Len(after) - limit + 1 ELSE 1, Len(after))

-----------------------------------------------------------------------------
(* The handlers, behind their cache: what each answers on a miss. *)

NotFound == [status |-> 404]
OK(body) == [status |-> 200, body |-> body]
HandleMarketLast             == IF Found THEN OK(LastPrice) ELSE NotFound
HandleMarketStatus(period)   == IF Found THEN OK(MarketStatus(period)) ELSE NotFound
(* The length of the period is where today starts.                         *)
HandleMarketStatusToday      == HandleMarketStatus(ToTimestamp(Day, now))
HandleMarketSummary          == IF Found THEN OK(MarketSummary) ELSE NotFound
HandleMarketDeals(lastID)    == IF Found THEN OK(DealsAfterID(lastID, Limit)) ELSE NotFound
(* From the maps that are never filled, like the day's klines above.       *)
HandleMarketKline            == IF Found THEN OK({}) ELSE NotFound
(* Whatever the time asked for.                                            *)
HandleGetKline(interval)     == IF GetKline(interval) # None THEN OK(GetKline(interval)) ELSE NotFound
(* The possible answers. *)
HandleMarketWeekKline(time)  == IF Found /\ GetWeekKlines(time) # {} THEN {OK(k) : k \in GetWeekKlines(time)} ELSE {NotFound}
HandleMarketMonthKline(time) == IF Found /\ GetMonthKlines(time) # {} THEN {OK(k) : k \in GetMonthKlines(time)} ELSE {NotFound}
HandleMarketList             == OK(IF Found THEN {"market"} ELSE {})

-----------------------------------------------------------------------------
MarketInit ==
  /\ topic = <<>> /\ nextID = 1 /\ now = StartTime
  /\ committed = 0 /\ saved = None
  /\ up = TRUE /\ position = 0 /\ lastOffset = None /\ msg = NoMsg
  /\ klines = [i \in Intervals |-> None] /\ deals = <<>>
  /\ top = 0 /\ since = None /\ again = FALSE /\ handled = {} /\ lost = {}
  /\ faults = 0

Fault == faults < MaxFaults /\ faults' = faults + 1

kafkaVars   == <<topic, nextID, now, committed>>
memoryVars  == <<klines, deals, top, since>>

(* The engine, whose producer main never connects. *)
Publish(m) ==
  /\ Len(topic) < MaxMessages /\ topic' = Append(topic, m)
  /\ nextID' = IF m = Junk THEN nextID ELSE nextID + 1
  /\ UNCHANGED <<now, committed, saved, up, position, lastOffset, msg, memoryVars, again, handled, lost, faults>>
PublishDeal(p, a) == Publish([id |-> nextID, time |-> now, price |-> p, amount |-> a])

EngineRestarts ==
  /\ Fault /\ nextID > 1 /\ nextID' = 1
  /\ UNCHANGED <<topic, now, committed, saved, up, position, lastOffset, msg, memoryVars, again, handled, lost>>

Tick ==
  /\ now < MaxTime /\ now' = now + 1
  /\ UNCHANGED <<topic, nextID, committed, saved, up, position, lastOffset, msg, memoryVars, again, handled, lost, faults>>

(* Every second the reader commits what ReadMessage has returned. *)
GroupCommits ==
  /\ up /\ committed' = position
  /\ UNCHANGED <<topic, nextID, now, saved, up, position, lastOffset, msg, memoryVars, again, handled, lost, faults>>

\* Mutant: the message at the saved offset is skipped too.
ReadMessageOneLater ==
  /\ up /\ msg = NoMsg /\ position < Len(topic)
  /\ position' = position + 1
  /\ IF (lastOffset # None /\ position <= lastOffset) \/ topic[position + 1] = Junk
     THEN UNCHANGED <<msg, lastOffset>>
     ELSE msg' = [offset |-> position, done |-> "read"] /\ lastOffset' = None
  /\ UNCHANGED <<kafkaVars, saved, up, memoryVars, again, handled, lost, faults>>
(* The skip loop drops what lies below the saved offset, and ends with the *)
(* first message it hands on.                                              *)
ReadMessage ==
  /\ up /\ msg = NoMsg /\ position < Len(topic)
  /\ position' = position + 1
  /\ IF (lastOffset # None /\ position < lastOffset) \/ topic[position + 1] = Junk
     THEN UNCHANGED <<msg, lastOffset>>
     ELSE msg' = [offset |-> position, done |-> "read"] /\ lastOffset' = None
  /\ UNCHANGED <<kafkaVars, saved, up, memoryVars, again, handled, lost, faults>>

(* An error ends the skip loop; the main loop reads on. *)
ReadFails ==
  /\ Fault /\ up /\ msg = NoMsg /\ lastOffset # None /\ lastOffset' = None
  /\ UNCHANGED <<kafkaVars, saved, up, position, msg, memoryVars, again, handled, lost>>

InHand == topic[msg.offset + 1]

HandlerAddsToKlines ==
  /\ msg.done = "read"
  /\ klines' = [i \in Intervals |-> AddToKline(klines[i], i, InHand)]
  /\ since' = IF since = None \/ msg.offset < since THEN msg.offset ELSE since
  /\ msg' = [msg EXCEPT !.done = "klines"]
  /\ UNCHANGED <<kafkaVars, saved, up, position, lastOffset, deals, top, again, handled, lost, faults>>

HandlerAddsToList ==
  /\ msg.done = "klines"
  /\ deals' = AddDeal(InHand)
  /\ top' = Max({top, InHand.id}) /\ handled' = handled \union {msg.offset}
  /\ msg' = [msg EXCEPT !.done = "listed"]
  /\ UNCHANGED <<kafkaVars, saved, up, position, lastOffset, klines, since, again, lost, faults>>

SaveOffset ==
  /\ msg.done = "listed"
  /\ saved' = msg.offset + 1 /\ msg' = NoMsg
  /\ UNCHANGED <<kafkaVars, up, position, lastOffset, memoryVars, again, handled, lost, faults>>

SaveOffsetFails ==
  /\ Fault /\ msg.done = "listed" /\ msg' = NoMsg
  /\ UNCHANGED <<kafkaVars, saved, up, position, lastOffset, memoryVars, again, handled, lost>>

(* A rebalance gives the group's reader its committed offset back. *)
Rebalance ==
  /\ Fault /\ up /\ committed < position
  /\ position' = committed /\ again' = TRUE
  /\ UNCHANGED <<kafkaVars, saved, up, lastOffset, msg, memoryVars, handled, lost>>

Crash ==
  /\ Fault /\ up /\ up' = FALSE
  /\ lost' = lost \union (IF msg.done \in {"read", "klines"} THEN {msg.offset} ELSE {})
  /\ msg' = NoMsg /\ klines' = [i \in Intervals |-> None] /\ deals' = <<>>
  /\ top' = 0 /\ since' = None /\ again' = FALSE
  /\ UNCHANGED <<kafkaVars, saved, position, lastOffset, handled>>

(* Start; when redis does not answer nothing is skipped. *)
Restart(offset) ==
  /\ ~up /\ up' = TRUE
  /\ position' = committed /\ lastOffset' = offset
  /\ UNCHANGED <<kafkaVars, saved, msg, memoryVars, again, handled, lost>>
Start            == Restart(saved) /\ UNCHANGED faults
StartWithoutRedis == Restart(None) /\ saved # None /\ Fault

Consumer == ReadMessage \/ HandlerAddsToKlines \/ HandlerAddsToList \/ SaveOffset

MarketNext ==
  \/ \E p \in Prices, a \in Amounts : PublishDeal(p, a)
  \/ Publish(Junk)
  \/ EngineRestarts \/ Tick \/ GroupCommits
  \/ Consumer
  \/ ReadFails \/ SaveOffsetFails \/ Rebalance
  \/ Crash \/ Start \/ StartWithoutRedis

MarketSpec == MarketInit /\ [][MarketNext]_marketVars

-----------------------------------------------------------------------------
(* The deals of the topic from one offset to before another. *)
DealsOfTopic(from, to) == SelectSeq(SubSeq(topic, from + 1, to), LAMBDA m : m # Junk)

(* What the kline of an interval is about: the deals of the newest bucket. *)
KlineOf(interval, ds) ==
  LET bucket == ToTimestamp(interval, Last(ds).time)
      of     == SelectSeq(ds, LAMBDA d : ToTimestamp(interval, d.time) = bucket)
      prices == {d.price : d \in Range(of)} IN
  [interval |-> interval, open |-> Head(of).price, high |-> Max(prices), low |-> Min(prices),
   close |-> Last(of).price, volume |-> FoldSeq(LAMBDA d, sum : sum + d.amount, 0, of),
   deal |-> FoldSeq(LAMBDA d, sum : sum + d.price * d.amount, 0, of), timestamp |-> bucket]

(* Consumer.Start and the deal handler of StartConsumer: whatever was      *)
(* skipped, lost or saved before, a run of the service holds an unbroken   *)
(* stretch of the topic, from the first deal it handled: the list its      *)
(* newest deals, each kline those of its newest bucket, each deal once.    *)
(* (Unless kafka delivers again within the run: nothing looks for that.)   *)
MemoryFollowsTopic ==
  up /\ since # None /\ ~again =>
    LET newest(ds) == SubSeq(ds, Max({Len(ds) - MaxDeals + 1, 1}), Len(ds)) IN
    /\ msg.done # "klines" => deals = newest(DealsOfTopic(since, IF msg.done = "read" THEN msg.offset ELSE position))
    /\ \A i \in Intervals :
         klines[i] = KlineOf(i, DealsOfTopic(since, IF msg.done = "read" THEN msg.offset ELSE position))

(* The two offsets of the consumer: of the messages that kafka will not    *)
(* deliver again, only one that was in the consumer's hands when it died   *)
(* has never been handled - one the restart skips always has.              *)
NothingLeftOut ==
  \A o \in 0 .. position - 1 :
    o \in handled \/ o \in lost \/ topic[o + 1] = Junk \/ o = msg.offset

(* The handlers of server.go compute their answers from two stores that    *)
(* are written one after the other.  Between two deals they agree: on the  *)
(* last price; a status over the time of a kline says what the kline says, *)
(* as long as the list is not full and time has not gone back in it;       *)
(* today's covers all the list; the week's and the month's extremes enclose *)
(* the last price, and the week and month it belongs to are found.         *)
QueriesAgree ==
  up /\ Found /\ msg.done # "klines" =>
    LET last == Last(deals) IN
    /\ HandleMarketLast.body = last.price /\ HandleMarketSummary.body.close = last.price
    /\ \A i \in Intervals : HandleGetKline(i).status = 200 /\ HandleGetKline(i).body.close = last.price
    /\ \A a \in HandleMarketWeekKline(last.time) \union HandleMarketMonthKline(last.time) :
         a.status = 200 /\ a.body.low <= last.price /\ last.price <= a.body.high
    /\ (Len(deals) < MaxDeals /\ ~again) =>
         \A i \in Intervals :
           LET k == GetKline(i)
               s == HandleMarketStatus(now - k.timestamp).body IN
           /\ <<s.open, s.high, s.low, s.close>> = <<k.open, k.high, k.low, k.close>>
           /\ <<s.volume, s.deal>> = <<k.volume, k.deal>>
    /\ HandleMarketStatusToday = HandleMarketStatus(now)
    /\ HandleMarketDeals(0).body = SubSeq(deals, Max({1, Len(deals) - Limit + 1}), Len(deals))
    /\ HandleMarketKline.body = {} /\ HandleMarketList.body # {}

(* What the service holds is the topic's, and what it answers is what it   *)
(* holds.                                                                  *)
AnswersFollowTopic == MemoryFollowsTopic /\ QueriesAgree

(* What the pollers may count on (getDealsAfterID reads this list).        *)
GoesBack == msg.done = "klines" /\ msg.offset = since
DealList == INSTANCE DealList WITH Deals <- Deal, Cap <- MaxDeals, list <- deals,
                                   fresh <- (top = 0 \/ GoesBack)
DealListSpec == DealList!DealListSpec
=============================================================================
