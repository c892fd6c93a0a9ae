----------------------------- MODULE MCPipeline -----------------------------
(***************************************************************************)
(* The process on small instances.  The streams of the adapter meet in the *)
(* raw channel; one source whose events are of either stream's kinds fills *)
(* it in the same orders, with fewer states.                               *)
(***************************************************************************)
EXTENDS Pipeline

OneStream == {"market"}
\* Deltas enough to fill the order book's channel, then one, or a trade
DeltasAndOthers ==
  [s \in OneStream |-> <<{"delta"}, {"delta"}, {"delta", "trade"}>>]
\* For the stalled disk
DepthAndTrades == [s \in OneStream |-> [n \in 1..4 |-> {"delta", "trade"}]]
=============================================================================
