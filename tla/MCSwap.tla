------------------------------- MODULE MCSwap -------------------------------
(***************************************************************************)
(* Instances of Swap for TLC.                                              *)
(***************************************************************************)
EXTENDS Swap, TLC

Symmetry == Permutations(Frame)
=============================================================================
