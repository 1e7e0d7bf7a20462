-------------------------------- MODULE Slob --------------------------------
(***************************************************************************)
(* kmalloc and kfree of lab5, kern/mm/kmalloc.c: a circular list of free   *)
(* blocks sorted by address, from which small objects are cut, and whole   *)
(* pages for large ones, with a record of each among the small objects.    *)
(*                                                                         *)
(* The kernel is not preempted and interrupt handlers do not allocate, so  *)
(* a call is one action, slob_alloc's stop to get a page included.  No     *)
(* caller asks for alignment.  Addresses count units of SLOB_UNIT bytes;   *)
(* the arena, in the kernel image, is below all pages and next to none.    *)
(***************************************************************************)
EXTENDS Integers, Sequences, FiniteSets, SequencesExt

CONSTANTS
  Client,     \* the callers, each with one block at a time
  Size,       \* how many bytes they ask for: a bound on the callers
  SLOB_UNIT,  \* bytes of a slob_t
  PGSIZE,     \* bytes of a page
  BIGBLOCK,   \* sizeof(bigblock_t)
  npage,      \* how many pages alloc_pages has for kmalloc
  NULL        \* no block, no page

ASSUME SlobAssumption ==
  /\ Size \subseteq Nat \ {0}
  /\ SLOB_UNIT \in Nat \ {0} /\ PGSIZE \in Nat \ {0} /\ BIGBLOCK \in Nat \ {0}
  /\ PGSIZE % SLOB_UNIT = 0 /\ BIGBLOCK + SLOB_UNIT < PGSIZE /\ SLOB_UNIT < BIGBLOCK
  /\ npage \in Nat \ {0}
  /\ NULL \notin Nat

VARIABLES
  heap,    \* units and next of the slob_t at each address, slobfree, bigblocks
  free,    \* the pages alloc_pages has
  got      \* the block of a caller

vars == <<heap, free, got>>

perpage == PGSIZE \div SLOB_UNIT
Page == 1..npage
unit_range(a, n) == a .. (a + n - 1)
on_page(p) == unit_range(p * perpage, perpage)
arena == 0
Addr == {arena} \cup UNION {on_page(p) : p \in Page}

none == [block |-> NULL, size |-> 0]

Init ==
  /\ heap = [units |-> [a \in Addr |-> IF a = arena THEN 1 ELSE 0],
             next |-> [a \in Addr |-> arena],
             slobfree |-> arena,
             bigblocks |-> <<>>]
  /\ free = Page
  /\ got = [c \in Client |-> none]

-----------------------------------------------------------------------------
(* The list.  units and next of a slob_t that is neither on the list nor the head of a   *)
(* block somebody has are never read: here they are 0, so that states that differ only   *)
(* in them are one.                                                                      *)

\* Mutant: rounds down.
units_down(size) == size \div SLOB_UNIT

SLOB_UNITS(size) == (size + SLOB_UNIT - 1) \div SLOB_UNIT

\* The blocks a loop from slobfree on comes by until it is there again.
circle(s) ==
  LET walk[i \in 1..Cardinality(Addr)] ==
        IF i = 1 THEN <<s.slobfree>>
        ELSE LET w == walk[i - 1]
             IN  IF s.next[Last(w)] = s.slobfree THEN w ELSE Append(w, s.next[Last(w)])
  IN  walk[Cardinality(Addr)]

\* The first block of the circle that has the property: prev of slob_alloc, cur of slob_free.
first(s, P(_)) ==
  LET c == circle(s)
      i == CHOOSE i \in DOMAIN c : P(c[i]) /\ \A j \in 1..(i - 1) : ~P(c[j])
  IN  c[i]

\* slob_alloc's loop finds n units in one of the blocks.
has_room(s, n) == \E a \in ToSet(circle(s)) : s.units[a] >= n

\* The first n units of the first block behind slobfree that has them, and what is left of
\* it.  (prev is another block: the arena is never given out.)
take(s, n) ==
  LET prev == first(s, LAMBDA a : s.units[s.next[a]] >= n)
      cur == s.next[prev]
      rest == cur + n
  IN  [block |-> cur,
       heap |->
         IF s.units[cur] = n
         THEN [s EXCEPT !.next = [@ EXCEPT ![prev] = s.next[cur], ![cur] = arena], !.slobfree = prev]
         ELSE [s EXCEPT !.units = [@ EXCEPT ![cur] = n, ![rest] = s.units[cur] - n],
                        !.next = [@ EXCEPT ![prev] = rest, ![rest] = s.next[cur], ![cur] = arena],
                        !.slobfree = prev]]

\* The block after which slob_free puts b.
place(s, b) ==
  first(s, LAMBDA a : \/ a < b /\ b < s.next[a]
                      \/ a >= s.next[a] /\ (b > a \/ b < s.next[a]))

\* Mutant: b is joined with the next block, which stays on the list.
join_next_linked(s, b, cur) ==
  LET next == s.next[cur]
  IN  IF b + s.units[b] = next
      THEN [s EXCEPT !.units = [@ EXCEPT ![b] = s.units[b] + s.units[next]], !.next[b] = next]
      ELSE [s EXCEPT !.next[b] = next]

\* b and the block after cur.
join_next(s, b, cur) ==
  LET next == s.next[cur]
  IN  IF b + s.units[b] = next
      THEN [s EXCEPT !.units = [@ EXCEPT ![b] = s.units[b] + s.units[next], ![next] = 0],
                     !.next = [@ EXCEPT ![b] = s.next[next], ![next] = arena]]
      ELSE [s EXCEPT !.next[b] = next]

\* cur and b.
join_cur(s, b, cur) ==
  IF cur + s.units[cur] = b
  THEN [s EXCEPT !.units = [@ EXCEPT ![cur] = s.units[cur] + s.units[b], ![b] = 0],
                 !.next = [@ EXCEPT ![cur] = s.next[b], ![b] = arena]]
  ELSE [s EXCEPT !.next[cur] = b]

\* slob_free: size 0 is for a block whose head says how long it is.
slob_free(s, b, size) ==
  LET cur == place(s, b)
      sized == IF size = 0 THEN s ELSE [s EXCEPT !.units[b] = SLOB_UNITS(size)]
  IN  [join_cur(join_next(sized, b, cur), b, cur) EXCEPT !.slobfree = cur]

\* The pages slob_alloc can take for size bytes: none if there is room.
pages_for(s, size) == IF has_room(s, SLOB_UNITS(size)) THEN {NULL} ELSE free

\* slob_alloc: the list afterwards and the block.  A page it takes goes onto the list, and
\* the search goes on behind slobfree, wherever that is now.
slob_alloc(s, size, page) ==
  take(IF page = NULL THEN s ELSE slob_free(s, page * perpage, PGSIZE), SLOB_UNITS(size))

-----------------------------------------------------------------------------
(* kmalloc and kfree. *)

\* How often size can be halved until it is a page at most.
find_order(size) ==
  CHOOSE k \in 0..size : size \div 2 ^ k <= PGSIZE /\ \A j \in 0..(k - 1) : size \div 2 ^ j > PGSIZE

\* Mutant: the length is taken from the record, whose first field is the order.
free_record_unsized(s, at) == slob_free(s, at, 0)

\* The record of a large object goes.
free_record(s, at) == slob_free(s, at, BIGBLOCK)

\* A small object: a unit that says how long it is, and then the object.  Without a free
\* page alloc_pages stops the kernel, as the assertion of slob_alloc does for some sizes.
Small(c, size) ==
  /\ got[c] = none
  /\ size < PGSIZE - SLOB_UNIT
  /\ size + SLOB_UNIT + SLOB_UNIT < PGSIZE
  /\ \E page \in pages_for(heap, size + SLOB_UNIT) :
       LET a == slob_alloc(heap, size + SLOB_UNIT, page)
       IN  /\ heap' = a.heap
           /\ free' = free \ {page}
           /\ got' = [got EXCEPT ![c] = [block |-> a.block + 1, size |-> size]]

\* The first pages of the runs of 2^order pages.
runs(pages, order) == {p \in pages : p .. (p + 2 ^ order - 1) \subseteq pages}

\* A large object: a record with its order and its pages, and then the pages.
Large(c, size) ==
  /\ got[c] = none
  /\ size >= PGSIZE - SLOB_UNIT
  /\ \E page \in pages_for(heap, BIGBLOCK) :
       LET bb == slob_alloc(heap, BIGBLOCK, page)
           left == free \ {page}
           order == find_order(size)
       IN  \E p \in runs(left, order) :
             /\ heap' = [bb.heap EXCEPT !.units[bb.block] = order,
                                        !.bigblocks = <<[at |-> bb.block, order |-> order, pages |-> p * perpage]>> \o @]
             /\ free' = left \ (p .. (p + 2 ^ order - 1))
             /\ got' = [got EXCEPT ![c] = [block |-> p * perpage, size |-> size]]

\* alloc_pages fails for more than one page: the record is given back, but not the page it
\* may have been put on.
LargeFails(c, size) ==
  /\ got[c] = none
  /\ size >= PGSIZE - SLOB_UNIT
  /\ \E page \in pages_for(heap, BIGBLOCK) :
       LET bb == slob_alloc(heap, BIGBLOCK, page)
           order == find_order(size)
       IN  /\ order > 0 /\ runs(free \ {page}, order) = {}
           /\ heap' = free_record([bb.heap EXCEPT !.units[bb.block] = order], bb.block)
           /\ free' = free \ {page}
           /\ UNCHANGED got

\* The large objects a block can be: only one that begins on a page is looked up.
records(block) == {bb \in ToSet(heap.bigblocks) : block % perpage = 0 /\ bb.pages = block}

KfreeSmall(c) ==
  /\ got[c] # none
  /\ records(got[c].block) = {}
  /\ heap' = slob_free(heap, got[c].block - 1, 0)
  /\ got' = [got EXCEPT ![c] = none]
  /\ UNCHANGED free

KfreeLarge(c) ==
  /\ got[c] # none
  /\ \E bb \in records(got[c].block) :
       /\ heap' = [free_record(heap, bb.at) EXCEPT !.bigblocks = RemoveFirst(@, bb)]
       /\ free' = free \cup {p \in Page : p * perpage \in unit_range(bb.pages, 2 ^ bb.order * perpage)}
  /\ got' = [got EXCEPT ![c] = none]

Next ==
  \E c \in Client :
    \/ \E size \in Size : Small(c, size) \/ Large(c, size) \/ LargeFails(c, size)
    \/ KfreeSmall(c)
    \/ KfreeLarge(c)

Spec == Init /\ [][Next]_vars

-----------------------------------------------------------------------------
\* From slobfree on the list comes round, through the arena, upwards but for one step, and
\* blocks that touch are one: what place and the loop of slob_alloc go by, and what every
\* allocation and every free, below, above or between the others, must leave so.
FreeCircle ==
  LET c == circle(heap)
      up == {i \in DOMAIN c : c[i] < heap.next[c[i]]}
  IN  /\ heap.next[Last(c)] = heap.slobfree
      /\ arena \in ToSet(c)
      /\ Cardinality(up) = Len(c) - 1
      /\ \A a \in ToSet(c) : heap.units[a] > 0 /\ a + heap.units[a] \notin ToSet(c)

\* Every unit of memory is in exactly one block of the list, object with its head, record,
\* or page: none is lost and none is given out twice, also when a large object fails half
\* way, and when an object happens to begin on a page.
UnitsConserved ==
  LET small == {c \in Client : got[c] # none /\ records(got[c].block) = {}}
      large == ToSet(heap.bigblocks)
      piece(of, begin, n) == [of |-> of, units |-> unit_range(begin, n)]
      pieces ==
        {piece(<<"list">>, a, heap.units[a]) : a \in ToSet(circle(heap))}
          \cup {piece(<<"object", c>>, got[c].block - 1, heap.units[got[c].block - 1]) : c \in small}
          \cup {piece(<<"record">>, bb.at, SLOB_UNITS(BIGBLOCK)) : bb \in large}
          \cup {piece(<<"pages", bb.at>>, bb.pages, 2 ^ bb.order * perpage) : bb \in large}
          \cup {piece(<<"free">>, p * perpage, perpage) : p \in free}
  IN  \A a \in Addr : Cardinality({x \in pieces : a \in x.units}) = 1

\* To the callers kmalloc is a heap: see module Heap.
HeapOf == INSTANCE Heap WITH Block <- Addr
ImplementsHeap == HeapOf!Spec
=============================================================================
