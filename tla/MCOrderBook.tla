---------------------------- MODULE MCOrderBook ----------------------------
(***************************************************************************)
(* The order book on a small instance: two levels, quantity 1.             *)
(***************************************************************************)
EXTENDS OrderBook, TLC

\* The levels are interchangeable: no rule of the engine compares prices.
LevelSymmetry == Permutations(Levels)
=============================================================================
