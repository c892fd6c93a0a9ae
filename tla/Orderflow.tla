----------------------------- MODULE Orderflow -----------------------------
(***************************************************************************)
(* The order flow engine (orderflow.rs): cumulative delta, the delta of    *)
(* each rolling window with its z-score, and the footprint of the current  *)
(* bucket.                                                                 *)
(***************************************************************************)
EXTENDS MarketEvents

CONSTANTS
  Windows,          \* WINDOWS_MS
  MaxWindow,        \* MAX_WINDOW_MS
  MaxSamples,       \* MAX_DELTA_SAMPLES
  FootprintBucket,  \* footprint_bucket_ms
  FootprintBin      \* footprint_price_bin_size

ASSUME OrderflowAssumption ==
  /\ MaxWindow \in Nat /\ Windows \subseteq 1..MaxWindow
  /\ MaxSamples \in Nat \ {0}
  /\ FootprintBucket \in Nat \ {0} /\ FootprintBin \in Nat \ {0}

VARIABLES
  flowTrades,  \* trades: positions in the log
  flow,        \* cvd_notional, buy_notional, sell_notional
  samples,     \* delta_samples, by window
  deltaZ,      \* delta_z of each window as published
  bucket,      \* footprint_bucket_start_ms
  footprint    \* footprint_levels: bid and ask quantity, by price bin

orderflowVars == <<flowTrades, flow, samples, deltaZ, bucket, footprint>>

OrderflowInit ==
  /\ flowTrades = {}
  /\ flow = [cvd |-> 0, buy |-> 0, sell |-> 0]
  /\ samples = [w \in Windows |-> <<>>]
  /\ deltaZ = [w \in Windows |-> {}]
  /\ bucket = {}
  /\ footprint = [bid |-> NoEntries, ask |-> NoEntries]

-----------------------------------------------------------------------------
\* Mutant: the window leaves out the trades at its edge.
OpenWindow(l, deque, w) ==
  {p \in deque : l[p].ts > l[Max(deque)].ts - w}

\* window_stats: the trades of the window that ends with the last trade.
Window(l, deque, w) == {p \in deque : l[p].ts >= l[Max(deque)].ts - w}

DeltaNotional(l, positions) == Total([p \in positions |-> SignedNotional(l[p])])

(***************************************************************************)
(* z_score, exactly: value is num / sqrt(var) standard deviations from the *)
(* mean.  There is none with fewer than two samples or without variance.   *)
(***************************************************************************)
ZScore(s, value) ==
  LET n == Len(s)
      sum == Total(s)
      var == n * MapThenSumSet(LAMBDA i : s[i] * s[i], DOMAIN s) - sum * sum
  IN IF n < 2 \/ var = 0 THEN {} ELSE {[num |-> n * value - sum, var |-> var]}

\* z >= k, and z <= -k, for k >= 0
ZAtLeast(z, k) == z.num >= 0 /\ z.num * z.num >= k * k * z.var
ZAtMostMinus(z, k) == z.num <= 0 /\ z.num * z.num >= k * k * z.var

\* update_footprint
UpdateFootprint(e) ==
  LET start == FloorTo(e.ts, FootprintBucket)
      old == IF bucket = {start} THEN footprint
             ELSE [bid |-> NoEntries, ask |-> NoEntries]
      bin == e.price \div FootprintBin
  IN /\ bucket' = {start}
     /\ footprint' = [ask |-> Add(old.ask, bin,
                                  IF SignedNotional(e) > 0 THEN e.qty ELSE 0),
                      bid |-> Add(old.bid, bin,
                                  IF SignedNotional(e) < 0 THEN e.qty ELSE 0)]

(***************************************************************************)
(* observe_trade: the z-scores compare with the samples of earlier trades, *)
(* the window's own delta is a sample from the next trade on.              *)
(***************************************************************************)
ObserveFlow(e) ==
  LET deque == PopFront(log', flowTrades \cup {Len(log')}, e.ts - MaxWindow)
      delta == [w \in Windows |-> DeltaNotional(log', Window(log', deque, w))]
      signed == SignedNotional(e)
  IN /\ flowTrades' = deque
     /\ flow' = [cvd |-> flow.cvd + signed,
                 buy |-> flow.buy + (IF signed > 0 THEN signed ELSE 0),
                 sell |-> flow.sell + (IF signed < 0 THEN -signed ELSE 0)]
     /\ UpdateFootprint(e)
     /\ deltaZ' = [w \in Windows |-> ZScore(samples[w], delta[w])]
     /\ samples' = [w \in Windows |->
                      Recent(Append(samples[w], delta[w]), MaxSamples)]

\* The task: trades are observed, every other event is dropped.
OrderflowReceives(e) ==
  IF e.kind = "trade" THEN ObserveFlow(e) ELSE UNCHANGED orderflowVars

-----------------------------------------------------------------------------
OrderflowTypeOK ==
  /\ flowTrades \subseteq DOMAIN log
  /\ flow \in [cvd : Int, buy : Nat, sell : Nat]
  /\ samples \in [Windows -> Seq(Int)]
  /\ \A w \in Windows : Len(samples[w]) <= MaxSamples
  /\ bucket \subseteq Nat /\ Cardinality(bucket) <= 1
  /\ \A side \in {"bid", "ask"} : \A b \in DOMAIN footprint[side] :
       footprint[side][b] \in Nat

\* The trades of the log among the first n that a window of length w holds
\* when trade n is the last one.
TrueWindow(n, w) == {p \in Trades(log) : p <= n /\ log[p].ts >= log[n].ts - w}

(***************************************************************************)
(* Neither the pruning of the deque nor an event that arrives late makes a *)
(* window lose a trade: the window and the samples behind the z-scores are *)
(* those of the whole history, for every window that leaves room for the   *)
(* jitter (all but the longest one, whose last trades a late event may     *)
(* miss).  (prune_old_trades, window_stats, WindowDeltaSamples::push)      *)
(***************************************************************************)
WindowsAreComplete ==
  Trades(log) # {} =>
    LET last == Max(Trades(log))
        order == {n \in Trades(log) :
                    Cardinality({m \in Trades(log) : m > n}) < MaxSamples}
    IN \A w \in {v \in Windows : v + Jitter <= MaxWindow} :
         /\ Window(log, flowTrades, w) = TrueWindow(last, w)
         /\ Len(samples[w]) = Cardinality(order)
         /\ \A n \in order :
              samples[w][Cardinality({m \in order : m <= n})] =
                DeltaNotional(log, TrueWindow(n, w))

\* The trades of a side and a price bin from a time on; a price of zero has
\* no signed notional and belongs to no side.
TradedIn(start, bin, side) ==
  {p \in Trades(log) : /\ log[p].ts >= start
                       /\ log[p].price \div FootprintBin = bin
                       /\ log[p].side = side /\ log[p].price > 0}

(***************************************************************************)
(* While events come in order, the footprint is the traded quantity per    *)
(* side and price bin of every trade of the current bucket, and of no      *)
(* other.  (update_footprint)                                              *)
(***************************************************************************)
FootprintIsTheBucket ==
  Trades(log) # {} /\ InOrder(log) =>
    LET last == log[Max(Trades(log))]
        start == FloorTo(last.ts, FootprintBucket)
        traded(bin, side) ==
          Total([p \in TradedIn(start, bin, side) |-> log[p].qty])
    IN /\ bucket = {start}
       /\ \A p \in Trades(log) :
            LET bin == log[p].price \div FootprintBin
            IN /\ At(footprint.ask, bin) = traded(bin, "Buy")
               /\ At(footprint.bid, bin) = traded(bin, "Sell")
=============================================================================
