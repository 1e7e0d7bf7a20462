-------------------------------- MODULE Heap --------------------------------
(***************************************************************************)
(* What kmalloc and kfree of lab5 promise: the bytes a caller was given    *)
(* are nobody else's until it frees them.  Large objects begin on a page.  *)
(***************************************************************************)
EXTENDS Integers

CONSTANTS
  Client,     \* the callers, each with one block at a time
  Block,      \* where a block can begin, in units
  Size,       \* how many bytes a caller asks for
  SLOB_UNIT,  \* bytes of a unit
  PGSIZE,     \* bytes of a page
  NULL        \* no block

VARIABLE
  got         \* the block of a caller

none == [block |-> NULL, size |-> 0]

bytes(g) == IF g = none THEN {} ELSE (g.block * SLOB_UNIT) .. (g.block * SLOB_UNIT + g.size - 1)

Init == got = [c \in Client |-> none]

\* A call that fails changes nothing.
Kmalloc(c, g) ==
  /\ got[c] = none
  /\ \A other \in Client : bytes(g) \cap bytes(got[other]) = {}
  /\ g.size >= PGSIZE => (g.block * SLOB_UNIT) % PGSIZE = 0
  /\ got' = [got EXCEPT ![c] = g]

Kfree(c) == got[c] # none /\ got' = [got EXCEPT ![c] = none]

Next == \E c \in Client : Kfree(c) \/ \E g \in [block : Block, size : Size] : Kmalloc(c, g)

Spec == Init /\ [][Next]_got
=============================================================================
