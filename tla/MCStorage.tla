----------------------------- MODULE MCStorage -----------------------------
(***************************************************************************)
(* The store on a small instance.  No symmetry: a liveness property is     *)
(* checked.                                                                *)
(***************************************************************************)
EXTENDS Storage
=============================================================================
