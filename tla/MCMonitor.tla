----------------------------- MODULE MCMonitor -----------------------------
(***************************************************************************)
(* The monitor on a small instance: calls are model values.                *)
(***************************************************************************)
EXTENDS Monitor, TLC

CallSymmetry == Permutations(Calls)
=============================================================================
