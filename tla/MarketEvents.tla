---------------------------- MODULE MarketEvents ----------------------------
(***************************************************************************)
(* What the signal engines share: the market events of events.rs they      *)
(* read, and log, the events received so far in the order of arrival.      *)
(*                                                                         *)
(* Every engine owns a channel that keeps the order of the raw channel,    *)
(* and no engine reads another's state, so one log stands for all of them. *)
(* Timestamps are the local ones.  Each stream stamps a message before it  *)
(* sends it, and several streams feed the raw channel, so an event may be  *)
(* older than one before it, by Jitter at most.                            *)
(*                                                                         *)
(* Prices, quantities and times are whole numbers of the smallest unit an  *)
(* instance needs.  An Option is a set of at most one element.             *)
(* A ticker's mark is the middle of bid and ask where the venue sends none.*)
(***************************************************************************)
EXTENDS Totals, Integers, Sequences, FiniteSets, FiniteSetsExt

CONSTANT Jitter  \* how much older than the newest event an event may be

VARIABLE log

Option(S) == {o \in SUBSET S : \A x, y \in o : x = y}

Trade == [kind : {"trade"}, exchange : STRING, ts : Nat, price : Nat,
          qty : Nat \ {0}, side : {"Buy", "Sell", "Unknown"}]
DepthLevel == [price : Nat, qty : Nat]
DepthDelta == [kind : {"delta"}, exchange : STRING, ts : Nat,
               bids : Seq(DepthLevel), asks : Seq(DepthLevel)]
OrderBookSnapshot == [kind : {"snapshot"}, exchange : STRING, ts : Nat,
                      bids : Seq(DepthLevel), asks : Seq(DepthLevel)]
Ticker == [kind : {"ticker"}, exchange : STRING, ts : Nat, mark : Nat,
           funding : Option(Int)]
Kline == [kind : {"kline"}, ts : Nat, close : Nat]
OptionGreek == [kind : {"greek"}, ts : Nat, expiry : Nat, strike : Nat,
                type : {"Call", "Put"}, gamma : Nat]
MarketEvent == Trade \cup DepthDelta \cup OrderBookSnapshot \cup Ticker
                 \cup Kline \cup OptionGreek

ASSUME JitterAssumption == Jitter \in Nat

-----------------------------------------------------------------------------
(***************************************************************************)
(* Helpers of several engines                                              *)
(***************************************************************************)
Absolute(n) == IF n >= 0 THEN n ELSE -n

\* n - n.rem_euclid(step)
FloorTo(n, step) == n - (n % step)

\* An empty BTreeMap.
NoEntries == [x \in {} |-> 0]

\* BTreeMap::entry(key).or_default() += amount
Add(map, key, amount) ==
  [k \in DOMAIN map \cup {key} |->
     (IF k \in DOMAIN map THEN map[k] ELSE 0) + (IF k = key THEN amount ELSE 0)]

\* BTreeMap::insert
Put(map, key, value) ==
  [k \in DOMAIN map \cup {key} |-> IF k = key THEN value ELSE map[k]]

\* BTreeMap::get(..).unwrap_or_default()
At(map, key) == IF key \in DOMAIN map THEN map[key] ELSE 0

\* The last n elements: push_back, then pop_front down to n.
Recent(s, n) == IF Len(s) > n THEN SubSeq(s, Len(s) - n + 1, Len(s)) ELSE s

\* The key of the greatest value, the least of them on a tie.
ArgMax(map) ==
  CHOOSE k \in DOMAIN map : \A j \in DOMAIN map :
    map[j] < map[k] \/ (map[j] = map[k] /\ k <= j)

(***************************************************************************)
(* A deque of trades is the set of their positions in the log.  pop_front  *)
(* stops at the first trade that is recent enough: one that arrived out of *)
(* order stays behind a newer one.                                         *)
(***************************************************************************)
PopFront(l, deque, cutoff) ==
  {p \in deque : \E q \in deque : q <= p /\ l[q].ts >= cutoff}

\* SignedTrade::from_trade
SignedNotional(e) ==
  e.price * e.qty * (CASE e.side = "Buy" -> 1
                       [] e.side = "Sell" -> -1
                       [] e.side = "Unknown" -> 0)

Trades(l) == {p \in DOMAIN l : l[p].kind = "trade"}
Newest(l) == IF l = <<>> THEN 0 ELSE Max({l[p].ts : p \in DOMAIN l})
InOrder(l) == \A p, q \in DOMAIN l : p <= q => l[p].ts <= l[q].ts

=============================================================================
