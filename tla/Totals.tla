------------------------------- MODULE Totals -------------------------------
(***************************************************************************)
(* The sum of the values of a map, or of the elements of a sequence.       *)
(***************************************************************************)
EXTENDS Integers, FiniteSetsExt

\* f(x) summed over the keys of a map, or over the positions of a sequence
Total(map) == MapThenSumSet(LAMBDA k : map[k], DOMAIN map)
=============================================================================
