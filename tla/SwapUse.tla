------------------------------ MODULE SwapUse -------------------------------
(***************************************************************************)
(* Module Swap under the lru policy, with the history of the uses of pages *)
(* that the policy's name speaks of and that its code does not keep.       *)
(***************************************************************************)
EXTENDS Swap, TLC

VARIABLE used   \* the pages that have a frame, by their last use, the latest last

usedVars == <<vars, used>>

UseInit == Init /\ mm.sm = "lru" /\ used = <<>>

\* The page that is used now goes to the end; one that is swapped out leaves.
UseNext ==
  \E v \in Page :
    /\ Fault(v) \/ \E write \in BOOLEAN : Access(v, write)
    /\ used' = Append(SelectSeq(used, LAMBDA w : w # v /\ mm'.pte[w] \in Frame), v)

UseSpec == UseInit /\ [][UseNext]_usedVars

Symmetry == Permutations(Frame)

-----------------------------------------------------------------------------
\* The page that swap_out would take is the one not used for longest.  It is what the
\* self-test of lru counts on: 0x1000 and 0x2000 were used after 0x3000, so it is 0x3000 that
\* has gone when 0x5000 has come (swap_lru.c:111-134).
VictimLeastRecentlyUsed == mm.free = {} => victim(mm) = mm.pte[Head(used)]
=============================================================================
