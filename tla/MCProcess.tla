----------------------------- MODULE MCProcess ------------------------------
(***************************************************************************)
(* Module Process on small instances, for TLC.                             *)
(***************************************************************************)
EXTENDS Process

CONSTANTS p2, p3, p4, p5

FourUsers == {p2, p3, p4, p5}
ThreeUsers == {p2, p3, p4}
TwoUsers == {p2, p3}

\* What kill is called with: every pid but idleproc's.
Anybody == User \cup {initproc}

\* The names of the processes forked after initproc do not matter to safety.
Symmetry == Permutations(User)
=============================================================================
