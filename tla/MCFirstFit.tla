----------------------------- MODULE MCFirstFit -----------------------------
(***************************************************************************)
(* Module FirstFit on small instances, for TLC.                            *)
(***************************************************************************)
EXTENDS FirstFit, TLC

CONSTANTS c1, c2, c3, c4

FourClients == {c1, c2, c3, c4}
ThreeClients == {c1, c2, c3}

\* Which caller has a block does not matter to safety.
Symmetry == Permutations(Client)
=============================================================================
