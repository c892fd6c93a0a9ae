----------------------------- MODULE MCBacktest -----------------------------
(***************************************************************************)
(* Backtests of short price walks.  Thresholds, horizons and sizes are     *)
(* small enough that five prices give labels, splits and out-of-sample     *)
(* trades; page and file sizes split the history unevenly.                 *)
(***************************************************************************)
EXTENDS Backtest

Candle(n, close) ==
  [id |-> n, open |-> n, close |-> n,
   event |-> [kind |-> "kline", ts |-> n, close |-> close]]
AggTrade(n, ts, price, side, qty) ==
  [id |-> n, open |-> ts, close |-> ts,
   event |-> [kind |-> "trade", exchange |-> "binance", ts |-> ts, price |-> price,
              qty |-> qty, side |-> side]]

\* Candles that stay, break out upwards or downwards, return and run on
Motifs == {<<10, 10, 12>>, <<15, 15, 12>>, <<10, 8, 8>>}
Candles(walk) == [n \in DOMAIN walk |-> Candle(n - 1, walk[n])]
CandleHistories ==
  {Candles(m[1] \o m[2] \o m[3] \o m[4] \o m[2]) : m \in [1..4 -> Motifs]}
    \cup {Candles(m \o n \o m \o n \o m \o n \o m \o n) : m, n \in Motifs}

\* A first trade of some weight, then trades of one millisecond at the end
\* of a page, and across the end of one
Times == {<<0, 1, 1, 1, 3, 4, 5>>, <<0, 1, 1, 2, 3, 5, 6>>}
TradeHistories ==
  {[n \in 1..7 |-> AggTrade(n, t[n], CASE n < 3 -> 10 [] n = 7 -> 12 [] OTHER -> p[n],
                            IF n \in {2, 4} THEN "Sell" ELSE "Buy",
                            IF n = 1 THEN 9 ELSE 1)] :
     t \in Times, p \in [3..6 -> {8, 10, 12}]}
Walks == CandleHistories \cup TradeHistories

\* A live recording: prices and a book, in the order of arrival
Mark(ts, price) == [kind |-> "ticker", exchange |-> "binance", ts |-> ts, mark |-> price,
                    funding |-> {}]
BookDelta(ts, bid, ask) ==
  [kind |-> "delta", exchange |-> "binance", ts |-> ts,
   bids |-> <<[price |-> 9, qty |-> bid]>>, asks |-> <<[price |-> 13, qty |-> ask]>>]
Live == {<<BookDelta(1, b, 1), Mark(2, 10), Mark(1, 11), Mark(3, p[1]), BookDelta(3, 0, 2),
           Mark(4, p[2]), Mark(5, p[3])>> : b \in {0, 3}, p \in [1..3 -> {8, 11, 14}]}

Levels == <<0, 1, 2, 3>>
SmallGates == [trades |-> 0, paper |-> 1, splits |-> 1, oos |-> 1, expectancy |-> 0,
            positivePct |-> 60, trends |-> 1, volatilities |-> 1]
=============================================================================
