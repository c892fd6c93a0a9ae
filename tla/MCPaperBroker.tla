--------------------------- MODULE MCPaperBroker ---------------------------
(***************************************************************************)
(* The paper broker with a handful of orders around a price of 10.         *)
(***************************************************************************)
EXTENDS PaperBroker

Order(side, stop, target, slippage, step) ==
  [side |-> side, entry |-> 10, stop |-> stop, target |-> target, usdtbrl |-> 2,
   slippage |-> slippage, feeRate |-> 1, exchangeMaxLeverage |-> 20,
   minQty |-> 1, stepSize |-> step]

\* Both sides, a tight stop, a stop on the wrong side, one that costs too much,
\* and one without a step.
Orders == {Order("Long", 6, 14, 0, 1), Order("Short", 14, 5, 0, 0),
           Order("Long", 8, 12, 0, 1), Order("Long", 12, 15, 0, 1),
           Order("Short", 11, 9, 1, 1)}

\* A stop, a jump past it, a small move, a target.
Prices == {[price |-> p, feeRate |-> 1] : p \in {3, 6, 9, 14}}

Third == [num |-> 1, den |-> 3]
Fifth == [num |-> 1, den |-> 5]
=============================================================================
