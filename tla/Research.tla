------------------------------ MODULE Research ------------------------------
(***************************************************************************)
(* The research command (research_runner.rs, research.rs): it replays the  *)
(* events of a file through the order flow, profile and heatmap trackers   *)
(* and takes a snapshot of the features at each price, then labels the     *)
(* candidates of each snapshot with what the prices did next, chooses the  *)
(* best threshold, and validates the choice on walk-forward splits.        *)
(*                                                                         *)
(* A return is kept in price units: Risk of them are one R.  Thresholds    *)
(* are whole, and no comparison rounds.                                    *)
(***************************************************************************)
EXTENDS Orderflow, Profile, Heatmap, Selections, SequencesExt

CONSTANTS
  FlowWindow,        \* the window whose z-score is used: 1 s
  ObiLevels,         \* levels of the imbalance used: 20
  RollingWindow,     \* samples rolling_features looks back: 100
  RollingMin,        \* and needs: 5
  SnapshotInterval,  \* min_snapshot_interval_ms
  Risk,              \* the stop distance, max(price * 0.001, 1.0): one value
  Horizon,           \* 30 s, the outcome window and the return that counts
  EarlyReturns,      \* 5 s and 15 s
  SampleLag,         \* MAX_HORIZON_SAMPLE_LAG_MS
  Thresholds,        \* thresholds, a sequence
  TrainSize, TestSize,
  Scale,             \* moves are measured in parts of Scale: 1000
  TrendMove,         \* a trend moves more than this: 1
  LowVol, HighVol,   \* bounds of the volatility regimes: 1 and 3
  ScanWindow,        \* window_size of the regime scan, which raises it to 2
  ScanStep,          \* step_size, raised to 1
  Gates              \* the minima of data_quality

ASSUME ResearchAssumption ==
  /\ FlowWindow \in Windows
  /\ {Risk, Horizon, RollingMin, TrainSize, TestSize} \subseteq Nat \ {0}
  /\ EarlyReturns \subseteq 0..Horizon /\ SampleLag \in Nat
  /\ Thresholds \in Seq(Nat)
  /\ RollingWindow >= RollingMin
  /\ ScanWindow \in Nat \ {0, 1} /\ ScanStep \in Nat \ {0}

VARIABLES
  phase,         \* "idle", "replay", "label", "split", "validate", "done", "failed"
  input,         \* the events still to replay
  prices,        \* price_samples
  obi,           \* last_obi_20, a fraction
  lastSnapshot,  \* last_feature_ts_ms
  snapshots,     \* feature_snapshots
  labels,
  splits,        \* walk_forward_splits, each by its start
  results,       \* split_results, with the returns of each split
  report

researchVars == <<phase, input, prices, obi, lastSnapshot, snapshots, labels,
                  splits, results, report>>

NoReport == [best |-> {}, paper |-> {}, oos |-> {}, regimes |-> NoEntries,
             sufficient |-> FALSE, scan |-> <<>>]

ResearchInit ==
  /\ log = <<>> /\ OrderflowInit /\ ProfileInit /\ HeatmapInit
  /\ phase = "idle"
  /\ input = <<>> /\ prices = <<>>
  /\ obi = {} /\ lastSnapshot = {}
  /\ snapshots = <<>> /\ labels = <<>>
  /\ splits = <<>> /\ results = <<>>
  /\ report = NoReport

-----------------------------------------------------------------------------
(***************************************************************************)
(* Replay: features                                                        *)
(***************************************************************************)
\* obi: an empty book has none.
Imbalance(b) ==
  LET top(side) == MapThenSumSet(LAMBDA p : b[side][p], Best(b, side, ObiLevels))
  IN IF top("bid") + top("ask") = 0 THEN {}
     ELSE {[num |-> top("bid") - top("ask"), den |-> top("bid") + top("ask")]}

NoFeatures == [above |-> FALSE, below |-> FALSE, upper |-> FALSE,
               lower |-> FALSE, z |-> {}]

(***************************************************************************)
(* rolling_features of the samples before this one: the price against the  *)
(* range, against the mean plus and minus two deviations, and its move     *)
(* since the last sample in deviations.                                    *)
(***************************************************************************)
RollingFeatures(past, price) ==
  LET window == [i \in DOMAIN Recent(past, RollingWindow) |->
                   Recent(past, RollingWindow)[i].price]
      n == Len(window)
      dev == n * price - Total(window)
      var == n * MapThenSumSet(LAMBDA i : window[i] * window[i], DOMAIN window)
               - Total(window) * Total(window)
  IN IF n < RollingMin THEN NoFeatures
     ELSE [above |-> \A i \in 1..n : price > window[i],
           below |-> \A i \in 1..n : price < window[i],
           upper |-> dev > 0 /\ dev * dev > 4 * var,
           lower |-> dev < 0 /\ dev * dev > 4 * var,
           z |-> IF var = 0 THEN {}
                 ELSE {[num |-> n * (price - Last(window)), var |-> var]}]

\* A trade has features of its own; only the z-score may be missing.
TradeFeatures(e, past, counts, total, z) ==
  LET area == ValueArea(counts)
  IN [above |-> e.price > area.high * PriceBin,
      below |-> e.price < area.low * PriceBin,
      upper |-> AboveUpper2(total, e.price),
      lower |-> BelowLower2(total, e.price),
      z |-> IF z = {} THEN RollingFeatures(past, e.price).z ELSE z]

HasPrice(e) == e.kind \in {"trade", "ticker", "kline"}
PriceOf(e) == CASE e.kind = "trade" -> e.price
                [] e.kind = "ticker" -> e.mark
                [] e.kind = "kline" -> e.close

\* should_emit_feature_snapshot
IsDue(ts) == \A t \in lastSnapshot : ts - t >= SnapshotInterval

Observe(e, features) ==
  /\ prices' = Append(prices, [ts |-> e.ts, price |-> PriceOf(e)])
  /\ IF IsDue(e.ts)
     THEN /\ lastSnapshot' = {e.ts}
          /\ snapshots' = Append(snapshots,
               [ts |-> e.ts, price |-> PriceOf(e), f |-> features, obi |-> obi])
     ELSE UNCHANGED <<lastSnapshot, snapshots>>

\* One event of run_research's loop.
ReplayEvent ==
  /\ phase = "replay" /\ input # <<>>
  /\ LET e == Head(input) IN
       /\ log' = Append(log, e)
       /\ OrderflowReceives(e)
       /\ ProfileReceives(e)
       /\ HeatmapReceives(e)
       /\ obi' = IF e.kind \in {"delta", "snapshot"} THEN Imbalance(book') ELSE obi
       /\ CASE e.kind = "trade" ->
                 Observe(e, TradeFeatures(e, prices, tpoCounts', sums', deltaZ'[FlowWindow]))
            [] HasPrice(e) /\ e.kind # "trade" ->
                 Observe(e, RollingFeatures(prices, PriceOf(e)))
            [] OTHER -> UNCHANGED <<prices, lastSnapshot, snapshots>>
  /\ input' = Tail(input)
  /\ UNCHANGED <<phase, labels, splits, results, report>>

-----------------------------------------------------------------------------
(***************************************************************************)
(* Candidates (generate_candidates) and their scores                       *)
(***************************************************************************)
Kinds == <<"LongBreakout", "ShortBreakout", "MeanReversionShort", "MeanReversionLong">>
Long == {"LongBreakout", "MeanReversionLong"}

Delta(s) == IF s.f.z = {} THEN [num |-> 0, var |-> 1] ELSE CHOOSE z \in s.f.z : TRUE

Triggers(s, kind) ==
  CASE kind = "LongBreakout" -> s.f.above /\ ZAtLeast(Delta(s), 2)
    [] kind = "ShortBreakout" -> s.f.below /\ ZAtMostMinus(Delta(s), 2)
    [] kind = "MeanReversionShort" -> s.f.upper /\ ~ZAtLeast(Delta(s), 1)
    [] kind = "MeanReversionLong" -> s.f.lower /\ ~ZAtMostMinus(Delta(s), 1)

Candidates(s) ==
  LET kinds == Only(Kinds, {k \in Range(Kinds) : Triggers(s, k)})
  IN [i \in DOMAIN kinds |->
        [ts |-> s.ts, kind |-> kinds[i], entry |-> s.price, z |-> Delta(s), obi |-> s.obi]]

\* candidate.score >= t: a breakout scores |z| and the imbalance on its side,
\* a reversion 1 - z or 1 + z.
ScoreAtLeast(c, t) ==
  LET o == IF c.obi = {} THEN [num |-> 0, den |-> 1] ELSE CHOOSE x \in c.obi : TRUE
      support == Max({0, IF c.kind \in Long THEN o.num ELSE -o.num})
      rest == t * o.den - support
  IN CASE c.kind \in {"LongBreakout", "ShortBreakout"} ->
            rest <= 0 \/ c.z.num * c.z.num * o.den * o.den >= rest * rest * c.z.var
       [] c.kind = "MeanReversionShort" -> t = 0 \/ ZAtMostMinus(c.z, t - 1)
       [] c.kind = "MeanReversionLong" -> t = 0 \/ ZAtLeast(c.z, t - 1)

-----------------------------------------------------------------------------
(***************************************************************************)
(* Labels                                                                  *)
(***************************************************************************)
Pnl(c, price) == IF c.kind \in Long THEN price - c.entry ELSE c.entry - price

\* return_at: the first sample in the time allowed
ReturnAt(c, future, ts) ==
  LET hits == {i \in DOMAIN future : ts <= future[i].ts /\ future[i].ts <= ts + SampleLag}
  IN IF hits = {} THEN {} ELSE {Pnl(c, future[Min(hits)].price)}

\* The loop of label_candidate.
Seen(c, l, s) ==
  LET pnl == Pnl(c, s.price)
      target == l.toTarget = {} /\ pnl >= Risk
  IN [candidate |-> l.candidate, returns |-> l.returns,
      mfe |-> Max({l.mfe, pnl}),
      mae |-> Min({l.mae, pnl}),
      toTarget |-> IF target THEN {s.ts - c.ts} ELSE l.toTarget,
      toStop |-> IF l.toStop = {} /\ pnl <= -Risk THEN {s.ts - c.ts} ELSE l.toStop,
      hit1 |-> IF target THEN l.toStop = {} ELSE l.hit1,
      hit2 |-> l.hit2 \/ (pnl >= 2 * Risk /\ l.toStop = {})]

LabelCandidate(c, future) ==
  LET within == Only(future, {s \in Range(future) : s.ts <= c.ts + Horizon})
      after[n \in 0..Len(within)] ==
        IF n > 0 THEN LET l == after[n - 1] IN Seen(c, l, within[n])
        ELSE [candidate |-> c,
              returns |-> [h \in EarlyReturns \cup {Horizon} |-> ReturnAt(c, future, c.ts + h)],
              mfe |-> 0, mae |-> 0, toTarget |-> {}, toStop |-> {},
              hit1 |-> FALSE, hit2 |-> FALSE]
  IN after[Len(within)]

\* Mutant: the future begins with the samples of the snapshot's own time.
FutureWithEntry(ts) == Only(prices, {s \in Range(prices) : s.ts >= ts})

\* partition_point: the samples are in the order of their times.
Future(ts) == Only(prices, {s \in Range(prices) : s.ts > ts})

ReplayDone ==
  /\ phase = "replay" /\ input = <<>>
  /\ phase' = "label"
  /\ UNCHANGED <<log, orderflowVars, profileVars, heatmapVars, input, prices, obi,
                 lastSnapshot, snapshots, labels, splits, results, report>>

trackerVars == <<log, orderflowVars, profileVars, heatmapVars, input, prices, obi,
                 lastSnapshot>>

LabelSnapshot ==
  /\ phase = "label" /\ snapshots # <<>>
  /\ LET s == Head(snapshots)
         c == Candidates(s)
     IN labels' = labels \o [i \in DOMAIN c |-> LabelCandidate(c[i], Future(s.ts))]
  /\ snapshots' = Tail(snapshots)
  /\ UNCHANGED <<trackerVars, phase, splits, results, report>>

-----------------------------------------------------------------------------
(***************************************************************************)
(* Thresholds and walk-forward validation                                  *)
(***************************************************************************)
\* threshold_returns
Returns(ls, t) ==
  LET counted == Only(ls, {l \in Range(ls) : /\ ScoreAtLeast(l.candidate, t)
                                             /\ l.returns[Horizon] # {}})
  IN [i \in DOMAIN counted |-> CHOOSE r \in counted[i].returns[Horizon] : TRUE]

\* The expectancy of a is no more than that of b.
NoBetter(a, b) == Total(a) * Len(b) <= Total(b) * Len(a)

\* Mutant: the worst threshold that traded is chosen.
OptimizeToTheWorst(ls) ==
  LET traded == {i \in DOMAIN Thresholds : Returns(ls, Thresholds[i]) # <<>>}
      best == {i \in traded : \A j \in traded :
                 NoBetter(Returns(ls, Thresholds[i]), Returns(ls, Thresholds[j]))}
  IN IF traded = {} THEN {} ELSE {Thresholds[Max(best)]}

\* optimize_threshold: the last of the best (max_by).
OptimizeThreshold(ls) ==
  LET traded == {i \in DOMAIN Thresholds : Returns(ls, Thresholds[i]) # <<>>}
      best == {i \in traded : \A j \in traded :
                 NoBetter(Returns(ls, Thresholds[j]), Returns(ls, Thresholds[i]))}
  IN IF traded = {} THEN {} ELSE {Thresholds[Max(best)]}

\* The statistics of paper_validate and walk_forward_validate.
Statistics(returns) ==
  LET after[n \in 0..Len(returns)] ==
        IF n = 0 THEN [trades |-> 0, wins |-> 0, total |-> 0, peak |-> 0, drawdown |-> 0]
        ELSE LET s == after[n - 1]
                 equity == s.total + returns[n]
                 peak == Max({s.peak, equity})
             IN [trades |-> n, wins |-> s.wins + (IF returns[n] > 0 THEN 1 ELSE 0),
                 total |-> equity, peak |-> peak,
                 drawdown |-> Max({s.drawdown, peak - equity})]
  IN after[Len(returns)]

LabelsDone ==
  /\ phase = "label" /\ snapshots = <<>>
  /\ LET best == OptimizeThreshold(labels)
     IN report' = [report EXCEPT !.best = best,
                     !.paper = {Statistics(Returns(labels, t)) : t \in best}]
  /\ phase' = "split"
  /\ UNCHANGED <<trackerVars, snapshots, labels, splits, results>>

\* walk_forward_splits: start moves on by the test size.
NextSplit == IF splits = <<>> THEN 0 ELSE Last(splits) + TestSize

FitsAt(start) == start + TrainSize + TestSize <= Len(labels)

PushSplit ==
  /\ phase = "split" /\ FitsAt(NextSplit)
  /\ splits' = Append(splits, NextSplit)
  /\ UNCHANGED <<trackerVars, phase, snapshots, labels, results, report>>

SplitsDone ==
  /\ phase = "split" /\ ~FitsAt(NextSplit)
  /\ phase' = "validate"
  /\ UNCHANGED <<trackerVars, snapshots, labels, splits, results, report>>

Train(ls, start) == SubSeq(ls, start + 1, start + TrainSize)
Test(ls, start) == SubSeq(ls, start + TrainSize + 1, start + TrainSize + TestSize)

(***************************************************************************)
(* classify_prices: the move from the first price to the last, and the     *)
(* deviation of the returns between neighbours, brought to one             *)
(* denominator.                                                            *)
(***************************************************************************)
Lcm(a, b) == a * Min({k \in 1..b : (a * k) % b = 0})

Trend(s) ==
  LET move == Scale * (Last(s) - Head(s)) IN
  IF s = <<>> THEN "Range"
  ELSE CASE Absolute(move) <= TrendMove * Head(s) -> "Range"
         [] move > TrendMove * Head(s) -> "Uptrend"
         [] OTHER -> "Downtrend"

Volatility(s) ==
  LET n == Len(s) - 1
      den == FoldLeft(Lcm, 1, SubSeq(s, 1, n))
      r == [i \in 1..n |-> (s[i + 1] - s[i]) * (den \div s[i])]
      var == n * MapThenSumSet(LAMBDA i : r[i] * r[i], DOMAIN r) - Total(r) * Total(r)
      \* volatility > v / Scale
      above(v) == var > (n * n * den * den * v * v) \div (Scale * Scale)
      below(v) == var <= (n * n * den * den * v * v - 1) \div (Scale * Scale)
  IN CASE n <= 0 -> "Low"
       [] n > 0 /\ below(LowVol) -> "Low"
       [] n > 0 /\ above(HighVol) -> "High"
       [] OTHER -> "Normal"

\* classify_price_samples
Classify(ps) ==
  LET positive == SelectSeq(ps, LAMBDA s : s.price > 0)
      s == [i \in DOMAIN positive |-> positive[i].price]
  IN [trend |-> Trend(s), volatility |-> Volatility(s)]

\* classify_regime: the prices from the first label's time to the last one's.
Regime(ls) ==
  LET from == Head(ls).candidate.ts
      to == Max({from, Last(ls).candidate.ts})
  IN Classify(SelectSeq(prices, LAMBDA s : from <= s.ts /\ s.ts <= to))

\* scan_regimes: the windows that fit, a step apart.
Scan(ps) ==
  LET window(n) == SubSeq(ps, (n - 1) * ScanStep + 1, (n - 1) * ScanStep + ScanWindow)
  IN [n \in {m \in DOMAIN ps : (m - 1) * ScanStep + ScanWindow <= Len(ps)} |->
        [from |-> Head(window(n)).ts, to |-> Last(window(n)).ts,
         regime |-> Classify(window(n))]]

\* A split is left out when its training labels choose no threshold or its
\* test labels have no return for it.
EvaluateSplit(start) ==
  LET best == OptimizeThreshold(Train(labels, start))
  IN [start |-> start, threshold |-> best,
      returns |-> FlattenSeq([i \in 1..Cardinality(best) |->
                    Returns(Test(labels, start), CHOOSE t \in best : TRUE)]),
      regime |-> Regime(Test(labels, start))]

Positive(rs) == Len(SelectSeq(rs, LAMBDA r : Total(r.returns) > 0))
AllReturns(rs) == FlattenSeq([i \in DOMAIN rs |-> rs[i].returns])

\* regime_results: the splits of each regime that was seen.
RegimeResults(rs) ==
  [g \in {rs[i].regime : i \in DOMAIN rs} |->
     LET matching == Only(rs, {r \in Range(rs) : r.regime = g})
     IN [splits |-> Len(matching), positive |-> Positive(matching),
         trades |-> Len(AllReturns(matching)), total |-> Total(AllReturns(matching))]]

\* data_quality: every minimum is met; a rate or mean that is missing is not.
Sufficient(rs, paper, stats) ==
  LET seen(field) == Cardinality({rs[i].regime[field] : i \in DOMAIN rs})
  IN /\ Cardinality(Trades(log)) >= Gates.trades
     /\ \E p \in paper \cup {[trades |-> 0]} : p.trades >= Gates.paper
     /\ Len(splits) >= Gates.splits
     /\ \E s \in stats :
          /\ s.trades >= Gates.oos
          /\ s.total >= Gates.expectancy * s.trades
          /\ 100 * Positive(rs) >= Gates.positivePct * Len(rs)
     /\ seen("trend") >= Gates.trends
     /\ seen("volatility") >= Gates.volatilities

\* walk_forward_validate and data_quality; the report is printed.
Validate ==
  /\ phase = "validate"
  /\ LET all == [i \in DOMAIN splits |-> EvaluateSplit(splits[i])]
         rs == Only(all, {r \in Range(all) : r.returns # <<>>})
         stats == IF rs = <<>> THEN {} ELSE {Statistics(AllReturns(rs))}
     IN /\ results' = rs
        /\ report' = [report EXCEPT !.oos = stats, !.regimes = RegimeResults(rs),
                        !.sufficient = Sufficient(rs, report.paper, stats)]
  /\ phase' = "done"
  /\ UNCHANGED <<trackerVars, snapshots, labels, splits>>

ResearchStep ==
  ReplayEvent \/ ReplayDone \/ LabelSnapshot \/ LabelsDone \/ PushSplit \/ SplitsDone
    \/ Validate

-----------------------------------------------------------------------------
\* What a label says of the samples ps.
IsTrueLabel(l, ps) ==
  LET c == l.candidate
      after == {i \in DOMAIN ps : c.ts < ps[i].ts /\ ps[i].ts <= c.ts + Horizon}
      pnl(i) == Pnl(c, ps[i].price)
      first(S) == {ps[i].ts - c.ts : i \in {j \in S : \A k \in S : j <= k}}
      stops == {i \in after : pnl(i) <= -Risk}
      before(i) == \A j \in stops : j > i
  IN /\ \E i \in DOMAIN ps : ps[i] = [ts |-> c.ts, price |-> c.entry]
     /\ l.toTarget = first({i \in after : pnl(i) >= Risk})
     /\ l.toStop = first(stops)
     /\ l.hit1 = \E i \in after : pnl(i) >= Risk /\ before(i)
     /\ l.hit2 = \E i \in after : pnl(i) >= 2 * Risk /\ before(i)
     /\ l.mfe = Max({0} \cup {pnl(i) : i \in after})
     /\ l.mae = Min({0} \cup {pnl(i) : i \in after})
     /\ \A h \in DOMAIN l.returns : \A r \in l.returns[h] :
          \E i \in DOMAIN ps : /\ ps[i].ts > c.ts
                               /\ ps[i].ts \in c.ts + h..c.ts + h + SampleLag
                               /\ pnl(i) = r

(***************************************************************************)
(* A label is about the time after its candidate and no other: its target  *)
(* and stop are the first later samples within the horizon that reach one  *)
(* R either way, a hit means the target (or twice the target) came before  *)
(* the stop, the excursions are the best and the worst of these samples,   *)
(* and a return is read off a sample no earlier than its horizon.          *)
(* (label_candidate, return_at, and the cut of the samples before them;    *)
(* the test runs_research_without_lookahead)                               *)
(***************************************************************************)
LabelsLookOnlyAhead ==
  phase = "done" => \A n \in DOMAIN labels : IsTrueLabel(labels[n], prices)

\* The labels a split is judged by
Tested(start) == start + TrainSize + 1..start + TrainSize + TestSize

\* The splits ss of n labels judge by no label twice, and no further one fits.
SlicesAreApart(ss, n) ==
  /\ \A i, j \in DOMAIN ss : /\ Tested(ss[i]) \subseteq 1..n
                             /\ i # j => Tested(ss[i]) \cap Tested(ss[j]) = {}
  /\ Cardinality(UNION {Tested(ss[i]) : i \in DOMAIN ss}) + TrainSize + TestSize > n

\* The threshold of the result r is the best of its training slice of ls.
ChoosesTheBest(r, ls) ==
  \A t \in r.threshold : \A u \in Range(Thresholds) :
    NoBetter(Returns(Train(ls, r.start), u), Returns(Train(ls, r.start), t))

\* The deepest fall of the running total
DeepestFall(all) ==
  LET equity[n \in 0..Len(all)] == IF n = 0 THEN 0 ELSE equity[n - 1] + all[n]
  IN Max({equity[p[1]] - equity[p[2]] :
            p \in {q \in (0..Len(all)) \X (0..Len(all)) : q[1] <= q[2]}})

\* After window n of the scan there are fewer prices than further steps cover.
ReachesTheEnd(scan, ps) ==
  \A n \in DOMAIN scan :
    Cardinality({i \in DOMAIN ps : ps[i].ts > scan[n].to}) < ScanStep * (Len(scan) - n + 1)

(***************************************************************************)
(* A report is judged by no label twice and by as many as there is room    *)
(* for: the test slices lie apart, and no further split fits.  Each        *)
(* threshold is the best of its training slice, the slice before the test; *)
(* the drawdown is the deepest fall of the running total; and the regimes  *)
(* share out the trades.  A regime scan leaves out fewer prices at *)
(* the end than a step has.  (walk_forward_splits, walk_forward_validate,  *)
(* optimize_threshold, scan_regimes)                                       *)
(***************************************************************************)
ReportIsSound ==
  phase = "done" =>
    LET all == AllReturns(results)
        trades == [g \in DOMAIN report.regimes |-> report.regimes[g].trades]
    IN /\ SlicesAreApart(splits, Len(labels))
       /\ \A i \in DOMAIN results : ChoosesTheBest(results[i], labels)
       /\ report.oos = {} <=> all = <<>>
       /\ \A s \in report.oos : s.drawdown = DeepestFall(all)
       /\ Len(all) = Total(trades)
       /\ ReachesTheEnd(report.scan, prices)
=============================================================================
