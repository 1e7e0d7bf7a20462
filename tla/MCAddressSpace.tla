--------------------------- MODULE MCAddressSpace ---------------------------
(***************************************************************************)
(* Module AddressSpace on small instances, for TLC.                        *)
(***************************************************************************)
EXTENDS AddressSpace, TLC

CONSTANTS p1, p2, X

TwoProcs == {p1, p2}
Values == {X, ZERO}

segment(start, end, image) == [vm_start |-> start, vm_end |-> end, image |-> image, bad |-> FALSE]
bad_segment == [vm_start |-> 0, vm_end |-> 1, image |-> ZERO, bad |-> TRUE]

\* Text and bss in page tables of their own, as in testbss; a program whose second segment
\* starts where one is already, and one whose second segment reaches into the first from below;
\* one whose segment goes on into the stack; one whose second segment is no good.
bss == <<segment(2, 3, ZERO), segment(0, 1, X)>>
clash == <<segment(0, 2, X), segment(1, 3, X)>>
under == <<segment(1, 2, X), segment(0, 2, ZERO)>>
tall == <<segment(5, 7, X)>>
broken == <<segment(1, 3, X), bad_segment>>

Programs == {bss, clash, under, tall, broken}

\* Which process is which does not matter to safety.
Symmetry == Permutations(Proc)
=============================================================================
