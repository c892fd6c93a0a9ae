----------------------------- MODULE Selections -----------------------------
(***************************************************************************)
(* Selection from a sequence by membership in a set: SelectSeq of the      *)
(* standard modules in a form that proofs can expand.                      *)
(***************************************************************************)
EXTENDS Naturals, Sequences

\* The elements of s that are in S, in their order in s
Only(s, S) ==
  LET upTo[n \in 0 .. Len(s)] ==
        IF n = 0 THEN <<>>
        ELSE upTo[n - 1] \o (IF s[n] \in S THEN <<s[n]>> ELSE <<>>)
  IN  upTo[Len(s)]
=============================================================================
