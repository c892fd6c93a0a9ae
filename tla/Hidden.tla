------------------------------- MODULE Hidden -------------------------------
(***************************************************************************)
(* The hidden liquidity engine (hidden.rs): icebergs, replenishments and   *)
(* pulls of large displayed quantities, read off trades and deltas; stop   *)
(* pools around touched prices; impulse and crowding; who leads and lags.  *)
(*                                                                         *)
(* Displayed quantities are kept by price alone: bids and asks, and the    *)
(* books of all exchanges, share one entry per price.                      *)
(***************************************************************************)
EXTENDS MarketEvents

CONSTANTS
  HiddenWindow,     \* WINDOW_MS
  RecentEvents,     \* RECENT_EVENTS
  StopPoolHistory,  \* STOP_POOL_HISTORY
  IcebergMultiple,  \* ICEBERG_TRADE_MULTIPLE
  LargePull,        \* LARGE_PULL_QTY
  RoundNumber,      \* ROUND_NUMBER_SIZE
  PriceUnit         \* ticks in a whole price

ASSUME HiddenAssumption ==
  /\ HiddenWindow \in Nat /\ RecentEvents \in Nat \ {0}
  /\ StopPoolHistory \in Nat \ {0} /\ IcebergMultiple \in Nat
  /\ LargePull \in Nat \ {0} /\ PriceUnit \in Nat \ {0}
  /\ RoundNumber \in Nat \ {0} /\ RoundNumber % 2 = 0

VARIABLES
  displayed,     \* levels: the displayed quantity, by price
  hiddenTrades,  \* trades: positions in the log
  stopPools,     \* stop_pool_touches
  exchangeTs,    \* exchange_last_ts (its keys are exchanges_seen)
  funding,       \* funding_rate
  icebergs, spoofPulls,
  crowding,      \* crowded_positioning_score
  hiddenEvents   \* recent_events

hiddenVars == <<displayed, hiddenTrades, stopPools, exchangeTs, funding, icebergs,
                spoofPulls, crowding, hiddenEvents>>

HiddenInit ==
  /\ displayed = NoEntries
  /\ hiddenTrades = {}
  /\ stopPools = NoEntries
  /\ exchangeTs = NoEntries
  /\ funding = {}
  /\ icebergs = 0
  /\ spoofPulls = 0
  /\ crowding = 0
  /\ hiddenEvents = <<>>

HiddenEvent(kind, price, ts) == [kind |-> kind, price |-> price, ts |-> ts]
Push(events, new) == Recent(events \o new, RecentEvents)
ObserveExchange(e) == exchangeTs' = Put(exchangeTs, e.exchange, e.ts)

-----------------------------------------------------------------------------
\* Mutant: a trade at any price excuses the pull.
TradedAnywhere(price, ts) == \E p \in hiddenTrades : log[p].ts >= ts - HiddenWindow

\* A trade of this price within the window
TradedNear(price, ts) ==
  \E p \in hiddenTrades : log[p].ts >= ts - HiddenWindow /\ log[p].price = price

\* observe_level on the record of what it changes
ObserveLevel(h, level, ts) ==
  LET previous == At(h.displayed, level.price)
      spoof == previous - level.qty >= LargePull /\ ~TradedNear(level.price, ts)
      replenished == level.qty > previous /\ previous > 0
  IN [displayed |-> Put(h.displayed, level.price, level.qty),
      spoofPulls |-> h.spoofPulls + (IF spoof THEN 1 ELSE 0),
      events |-> CASE spoof -> Push(h.events, <<HiddenEvent("SpoofPull", level.price, ts)>>)
                   [] replenished -> Push(h.events,
                                       <<HiddenEvent("Replenishment", level.price, ts)>>)
                   [] OTHER -> h.events]

\* observe_depth_delta: all bids, then all asks.
ObserveLevels(h, levels, ts) ==
  LET after[n \in 0..Len(levels)] ==
        IF n = 0 THEN h ELSE ObserveLevel(after[n - 1], levels[n], ts)
  IN after[Len(levels)]

ObserveDepthDelta(e) ==
  LET before == [displayed |-> displayed, spoofPulls |-> spoofPulls, events |-> hiddenEvents]
      h == ObserveLevels(before, e.bids \o e.asks, e.ts)
  IN /\ ObserveExchange(e)
     /\ displayed' = h.displayed
     /\ spoofPulls' = h.spoofPulls
     /\ hiddenEvents' = h.events
     /\ UNCHANGED <<hiddenTrades, stopPools, funding, icebergs, crowding>>

-----------------------------------------------------------------------------
\* detect_iceberg: the trades of this price in the window, the new one included.
IsIceberg(deque, e) ==
  LET traded == MapThenSumSet(LAMBDA p : log'[p].qty,
                  {p \in deque : /\ log'[p].price = e.price
                                 /\ log'[p].ts >= e.ts - HiddenWindow})
  IN /\ At(displayed, e.price) > 0
     /\ traded >= At(displayed, e.price) * IcebergMultiple

(***************************************************************************)
(* refresh_impulse_and_crowding: over the window that ends with the last   *)
(* trade, nothing when there is none.  A sum of zero has the signum 1.     *)
(***************************************************************************)
HiddenWindowOf(l, deque) == {p \in deque : l[p].ts >= l[Max(deque)].ts - HiddenWindow}
Direction(n) == IF n < 0 THEN -1 ELSE 1
SignedSum(l, ps) == MapThenSumSet(LAMBDA p : SignedNotional(l[p]), ps)

\* score >= 1, times the denominators: the least move that counts is a whole
\* price, and the least volume a whole price of one unit.
Impulse(l, deque) ==
  IF deque = {} THEN <<>>
  ELSE LET ps == HiddenWindowOf(l, deque)
           signed == SignedSum(l, ps)
           total == MapThenSumSet(LAMBDA p : l[p].price * l[p].qty, ps)
           change == l[Max(ps)].price - l[Min(ps)].price
           align == IF Direction(signed) = Direction(change) THEN 2 ELSE 1
           moved == Max({Absolute(change), PriceUnit})
       IN IF Absolute(signed) * moved * align >= 2 * PriceUnit * Max({total, PriceUnit})
          THEN <<HiddenEvent("LiquidationImpulse", l[Max(ps)].price, l[Max(deque)].ts)>>
          ELSE <<>>

Crowding(l, deque, rate) ==
  IF deque = {} THEN crowding
  ELSE LET signed == SignedSum(l, HiddenWindowOf(l, deque))
       IN IF rate = {} THEN 0 ELSE (CHOOSE r \in rate : TRUE) * Direction(signed)

(***************************************************************************)
(* update_stop_pools: the round number, the whole price below and the one  *)
(* above are touched one after the other (the same one again when they     *)
(* coincide); the pools touched longest ago are dropped.                   *)
(***************************************************************************)
PoolPrices(price) == <<FloorTo(price + RoundNumber \div 2, RoundNumber),
                       FloorTo(price, PriceUnit),
                       FloorTo(price + PriceUnit - 1, PriceUnit)>>

\* Mutant: stop pools are never dropped.
DropNothing(pools) == pools

DropOldest(pools) ==
  IF Cardinality(DOMAIN pools) <= StopPoolHistory THEN pools
  ELSE LET oldest == CHOOSE p \in DOMAIN pools : \A q \in DOMAIN pools :
                       \/ pools[p].last < pools[q].last
                       \/ pools[p].last = pools[q].last /\ p <= q
       IN [p \in DOMAIN pools \ {oldest} |-> pools[p]]

\* Each of the three prices is touched, as often as it is among them.
Touch(pools, price, ts) ==
  LET hits(p) == Cardinality({n \in 1..3 : PoolPrices(price)[n] = p})
  IN [p \in DOMAIN pools \cup {PoolPrices(price)[n] : n \in 1..3} |->
        LET old == IF p \in DOMAIN pools THEN pools[p] ELSE [touches |-> 0, last |-> ts]
        IN IF hits(p) = 0 THEN old ELSE [touches |-> old.touches + hits(p), last |-> ts]]

ObserveHiddenTrade(e) ==
  LET deque == PopFront(log', hiddenTrades \cup {Len(log')}, e.ts - HiddenWindow)
      iceberg == IsIceberg(deque, e)
  IN /\ ObserveExchange(e)
     /\ stopPools' = DropOldest(DropOldest(DropOldest(Touch(stopPools, e.price, e.ts))))
     /\ hiddenTrades' = deque
     /\ icebergs' = icebergs + (IF iceberg THEN 1 ELSE 0)
     /\ crowding' = Crowding(log', deque, funding)
     /\ hiddenEvents' =
          Push(Push(hiddenEvents, IF iceberg THEN <<HiddenEvent("Iceberg", e.price, e.ts)>>
                                  ELSE <<>>),
               Impulse(log', deque))
     /\ UNCHANGED <<displayed, funding, spoofPulls>>

\* observe_ticker: the funding rate of the last ticker, of whatever exchange.
ObserveHiddenTicker(e) ==
  /\ ObserveExchange(e)
  /\ funding' = e.funding
  /\ crowding' = Crowding(log, hiddenTrades, e.funding)
  /\ hiddenEvents' = Push(hiddenEvents, Impulse(log, hiddenTrades))
  /\ UNCHANGED <<displayed, hiddenTrades, stopPools, icebergs, spoofPulls>>

HiddenReceives(e) ==
  CASE e.kind = "trade" -> ObserveHiddenTrade(e)
    [] e.kind = "delta" -> ObserveDepthDelta(e)
    [] e.kind = "ticker" -> ObserveHiddenTicker(e)
    [] OTHER -> UNCHANGED hiddenVars

-----------------------------------------------------------------------------
HiddenTypeOK ==
  /\ \A p \in DOMAIN displayed : displayed[p] \in Nat
  /\ hiddenTrades \subseteq DOMAIN log
  /\ Cardinality(DOMAIN stopPools) <= StopPoolHistory
  /\ \A x \in DOMAIN exchangeTs : exchangeTs[x] \in Nat
  /\ funding \subseteq Int /\ Cardinality(funding) <= 1
  /\ icebergs \in Nat /\ spoofPulls \in Nat /\ crowding \in Int
  /\ Len(hiddenEvents) <= RecentEvents

Deltas(l) == {p \in DOMAIN l : l[p].kind = "delta"}
AllLevels(e) == e.bids \o e.asks
Named(e) == {AllLevels(e)[n].price : n \in DOMAIN AllLevels(e)}
QtyIn(e, price) == LET n == CHOOSE m \in DOMAIN AllLevels(e) : AllLevels(e)[m].price = price
                   IN AllLevels(e)[n].qty

\* The deltas are those of one book: a single exchange, and no delta that
\* names a price on both sides.
OneBook(l) ==
  /\ \A p, q \in Deltas(l) : l[p].exchange = l[q].exchange
  /\ \A p \in Deltas(l) : Cardinality(Named(l[p])) = Len(AllLevels(l[p]))

\* The removals of a large quantity from a displayed level by delta p
Pulls(l) == {pull \in Deltas(l) \X UNION {Named(l[q]) : q \in Deltas(l)} :
               LET p == pull[1]
                   price == pull[2]
                   earlier == {q \in Deltas(l) : q < p /\ price \in Named(l[q])}
               IN /\ price \in Named(l[p])
                  /\ earlier # {}
                  /\ QtyIn(l[Max(earlier)], price) - QtyIn(l[p], price) >= LargePull}

\* Those without a trade at the price since the delta's time less the window
\* less the slack
UntradedPulls(l, slack) ==
  {pull \in Pulls(l) : \A q \in Trades(l) : q < pull[1] /\ l[q].price = pull[2]
                         => l[q].ts < l[pull[1]].ts - HiddenWindow + slack}

(***************************************************************************)
(* On one book, a spoof pull is counted for every removal of a large       *)
(* displayed quantity without a trade at its price within the window, and  *)
(* for no other, even though trades are pruned by the time of the last     *)
(* trade and looked up by the time of the delta; only the jitter blurs the *)
(* edge of the window.  (observe_level, prune_trades, documented as        *)
(* "detects spoof/pull events when large displayed liquidity vanishes      *)
(* without nearby trade")                                                  *)
(***************************************************************************)
SpoofPullsAreReal ==
  OneBook(log) =>
    /\ spoofPulls >= Cardinality(UntradedPulls(log, 0))
    /\ spoofPulls <= Cardinality(UntradedPulls(log, Jitter))
=============================================================================
