----------------------------- MODULE MCEngines -----------------------------
(***************************************************************************)
(* The engines on short histories.  Each feed is rich in the events one    *)
(* group of engines tells apart, so that histories can be long enough.     *)
(***************************************************************************)
EXTENDS Engines

Tick(ts, price, side, qty) ==
  [kind |-> "trade", exchange |-> "binance", ts |-> ts, price |-> price,
   qty |-> qty, side |-> side]
Delta(venue, ts, bids, asks) ==
  [kind |-> "delta", exchange |-> venue, ts |-> ts, bids |-> bids, asks |-> asks]
Lv(price, qty) == [price |-> price, qty |-> qty]

\* Trades that cross buckets, windows and sessions, also out of order
Tape == [length |-> 4, events |->
  {Tick(ts, x[1], x[2], 1) : ts \in 0..5, x \in {<<1, "Buy">>, <<3, "Sell">>, <<4, "Unknown">>}}]

\* Trades of one price range in two intervals: value areas of every shape
Auction == [length |-> 6, events |->
  {Tick(ts, price, "Buy", 1) : ts \in {0, 2}, price \in 1..3}]

\* A book of two venues, trades at its prices, and a funding rate
Depth == [length |-> 4, events |->
  {Delta("binance", ts, <<Lv(2, q)>>, <<>>) : ts \in 0..2, q \in {0, 3, 8}}
  \cup {Delta("binance", ts, <<Lv(3, q)>>, <<Lv(4, 8 - q)>>) : ts \in {0, 2}, q \in {0, 8}}
  \cup {Delta("mexc", 1, <<Lv(2, 1)>>, <<Lv(4, 9)>>)}
  \cup {Tick(ts, price, "Sell", 2) : ts \in 0..2, price \in {2, 4}}
  \cup {[kind |-> "snapshot", exchange |-> "binance", ts |-> 1,
         bids |-> <<Lv(2, 8)>>, asks |-> <<Lv(4, 8), Lv(3, 0)>>],
        [kind |-> "ticker", exchange |-> "mexc", ts |-> 2, mark |-> 3, funding |-> {1}]}]

\* Option chains that arrive piecemeal between spot prices
Greek(ts, strike, type, gamma) ==
  [kind |-> "greek", ts |-> ts, expiry |-> 9, strike |-> strike, type |-> type,
   gamma |-> gamma]
Options == [length |-> 4, events |->
  {Greek(ts, strike, type, gamma) : ts \in {0, 2, 4}, strike \in 1..2,
                                    type \in {"Call", "Put"}, gamma \in {0, 1}}
  \cup {Greek(3, 3, "Call", 2)}
  \cup {[kind |-> "ticker", exchange |-> "binance", ts |-> ts, mark |-> 1, funding |-> {}] :
          ts \in {1, 4}}
  \cup {Tick(3, 2, "Buy", 1)}]

MinusOne == -1
LiveFeeds == {Tape, Auction, Depth, Options}
=============================================================================
