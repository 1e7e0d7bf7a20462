------------------------------- MODULE MCSlob -------------------------------
(***************************************************************************)
(* Module Slob on small instances, for TLC.                                *)
(***************************************************************************)
EXTENDS Slob, TLC

\* Which caller has a block does not matter to safety.
Symmetry == Permutations(Client)
=============================================================================
