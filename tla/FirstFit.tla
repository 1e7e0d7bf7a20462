------------------------------ MODULE FirstFit ------------------------------
(***************************************************************************)
(* The first-fit manager of physical pages, kern/mm/default_pmm.c of lab5  *)
(* (the file of lab2, lab3 and lab4 has the same functions), and the       *)
(* best-fit one, kern/mm/best_fit_pmm.c of lab2, with the list operations  *)
(* of libs/list.h they are made of.  The two differ in the block they take *)
(* and in nothing else.                                                    *)
(*                                                                         *)
(* alloc_pages and free_pages of pmm.c call it with interrupts off, so a   *)
(* call is one action.  The free list is kept with its two pointers, as    *)
(* the order of the assignments to them matters.  A page is named by its   *)
(* index in pages[], so addresses compare as numbers.                      *)
(***************************************************************************)
EXTENDS Integers, FiniteSets

CONSTANTS
  npage,    \* how many pages page_init hands to init_memmap, from page 0 on
  Client,   \* the callers, each with one block at a time
  HEAD,     \* free_list itself, in the list
  NULL,     \* what alloc_pages returns when it fails
  Reserve   \* how many of the highest pages no call is given: a bound on the callers

Page == 0..(npage - 1)
Node == Page \cup {HEAD}

ASSUME FirstFitAssumption ==
  /\ npage \in Nat \ {0}
  /\ IsFiniteSet(Client)
  /\ HEAD \notin Page /\ NULL \notin Page
  /\ Reserve \in 0..npage

VARIABLES
  pmm_manager,  \* "default" or "best_fit": the same while the kernel runs
  list,         \* page_link.next and page_link.prev, of the pages and of free_list
  property,     \* page->property
  PG_property,  \* the pages with that flag: the first ones of free blocks
  nr_free,      \* the number of free pages
  got           \* the last call of a client: n pages from page on; n = 0 if it has none

vars == <<pmm_manager, list, property, PG_property, nr_free, got>>

Call == [page : Page \cup {NULL}, n : 0..npage]
none == [page |-> NULL, n |-> 0]

TypeOK ==
  /\ pmm_manager \in {"default", "best_fit"}
  /\ list \in [nxt : [Node -> Node], prv : [Node -> Node]]
  /\ property \in [Page -> 0..npage]
  /\ PG_property \subseteq Page
  /\ nr_free \in 0..npage
  /\ got \in [Client -> Call]

-----------------------------------------------------------------------------
(* list.h *)

\* __list_add: the two neighbours first, elm after them (one of them may be elm).
list_insert(l, elm, prev, next) ==
  [nxt |-> [l.nxt EXCEPT ![prev] = elm, ![elm] = next],
   prv |-> [l.prv EXCEPT ![next] = elm, ![elm] = prev]]

list_add(l, at, elm) == list_insert(l, elm, at, l.nxt[at])
list_add_before(l, at, elm) == list_insert(l, elm, l.prv[at], at)

\* list_del: elm keeps its own pointers.
list_del(l, elm) ==
  [nxt |-> [l.nxt EXCEPT ![l.prv[elm]] = l.nxt[elm]],
   prv |-> [l.prv EXCEPT ![l.nxt[elm]] = l.prv[elm]]]

\* The nodes a loop from free_list along next comes by; HEAD from its end on.
walk(l) ==
  LET next == [l.nxt EXCEPT ![HEAD] = HEAD]
      nth[i \in 0..npage] == IF i = 0 THEN l.nxt[HEAD] ELSE next[nth[i - 1]]
  IN  nth

\* The first node of the loop that is one of S.
first(l, S) ==
  LET w == walk(l)
      Hit(i) == w[i] \in S /\ \A j \in 0..(i - 1) : w[j] \notin S
  IN  IF \E i \in 0..npage : Hit(i) THEN w[CHOOSE i \in 0..npage : Hit(i)] ELSE NULL

\* The nodes a loop over l can come by, in either direction.
on_list(l) ==
  LET w == {walk(l)[i] : i \in 0..npage}
  IN  w \cup {l.prv[b] : b \in w} \cup {HEAD}

\* m is the state of the free area now.  A page that left the list keeps its pointers
\* and its property, but nothing reads them before they are set again: here they are
\* HEAD and 0, so that states that differ only in them are one.
store(m) ==
  LET on == on_list(m.list)
  IN  /\ list' = [nxt |-> [b \in Node |-> IF b \in on THEN m.list.nxt[b] ELSE HEAD],
                  prv |-> [b \in Node |-> IF b \in on THEN m.list.prv[b] ELSE HEAD]]
      /\ property' = [p \in Page |-> IF p \in on THEN m.property[p] ELSE 0]
      /\ PG_property' = m.flags

-----------------------------------------------------------------------------
(* default_pmm.c and best_fit_pmm.c *)

\* Mutant: a block goes to the head of the list.
put_at_head(l, base) == list_add(l, HEAD, base)

\* The block base comes on the list: before the first block above it, or after the
\* last one.  In the latter case the loop goes on, comes to base, and adds it after
\* itself.
put(l, base) ==
  LET above == first(l, {b \in Page : base < b})
      last == CHOOSE b \in Node : b # HEAD /\ l.nxt[b] = HEAD /\ \E i \in 0..npage : walk(l)[i] = b
  IN  IF l.nxt[HEAD] = HEAD THEN list_add(l, HEAD, base)
      ELSE IF above # NULL THEN list_add_before(l, above, base)
      ELSE list_add(list_add(l, last, base), base, base)

\* default_init, and default_init_memmap of all the pages.
Init ==
  /\ pmm_manager \in {"default", "best_fit"}
  /\ list = put([nxt |-> [p \in Node |-> HEAD], prv |-> [p \in Node |-> HEAD]], 0)
  /\ property = [p \in Page |-> IF p = 0 THEN npage ELSE 0]
  /\ PG_property = {0}
  /\ nr_free = npage
  /\ got = [c \in Client |-> none]

\* The blocks on the list that are as long as any of S at the most.
tightest(S) ==
  LET on == {b \in S : \E i \in 0..npage : walk(list)[i] = b}
  IN  {b \in on : \A other \in on : property[b] <= property[other]}

\* Mutant: best-fit takes the last of the tightest blocks (<= for < in its loop).
fit_last(n) ==
  LET enough == {b \in Page : property[b] >= n}
      last == {b \in tightest(enough) : \A other \in tightest(enough) : other <= b}
  IN  CASE n > nr_free -> NULL
        [] n <= nr_free /\ pmm_manager = "default" -> first(list, enough)
        [] n <= nr_free /\ pmm_manager = "best_fit" -> first(list, last)

\* The first block of n pages or more; best-fit takes the first with the smallest gap.
fit(n) ==
  LET enough == {b \in Page : property[b] >= n}
  IN  CASE n > nr_free -> NULL
        [] n <= nr_free /\ pmm_manager = "default" -> first(list, enough)
        [] n <= nr_free /\ pmm_manager = "best_fit" -> first(list, tightest(enough))

\* Mutant: the rest of the block is as long as the block.
split_whole(page, n) ==
  LET rest == property[page] > n
      l == list_del(list, page)
  IN  [list |-> IF rest THEN list_add(l, list.prv[page], page + n) ELSE l,
       property |-> [p \in Page |-> IF rest /\ p = page + n THEN property[page] ELSE property[p]],
       flags |-> (PG_property \cup {p \in {page + n} : rest}) \ {page}]

\* Mutant: the flag of the page stays.
split_flagged(page, n) ==
  LET rest == property[page] > n
      l == list_del(list, page)
  IN  [list |-> IF rest THEN list_add(l, list.prv[page], page + n) ELSE l,
       property |-> [p \in Page |-> IF rest /\ p = page + n THEN property[page] - n ELSE property[p]],
       flags |-> PG_property \cup {p \in {page + n} : rest}]

\* n pages are cut from the block page; what is left takes its place on the list.
split(page, n) ==
  LET rest == property[page] > n
      l == list_del(list, page)
  IN  [list |-> IF rest THEN list_add(l, list.prv[page], page + n) ELSE l,
       property |-> [p \in Page |-> IF rest /\ p = page + n THEN property[page] - n ELSE property[p]],
       flags |-> (PG_property \cup {p \in {page + n} : rest}) \ {page}]

\* alloc_pages(n) by c.
Alloc(c, n) ==
  LET page == fit(n)
  IN  /\ got[c] = none
      /\ page # NULL /\ page + n <= npage - Reserve
      /\ store(split(page, n))
      /\ nr_free' = nr_free - n
      /\ UNCHANGED pmm_manager
      /\ got' = [got EXCEPT ![c] = [page |-> page, n |-> n]]

AllocFails(c, n) ==
  /\ got[c] = none
  /\ fit(n) = NULL
  /\ got' = [got EXCEPT ![c] = [page |-> NULL, n |-> n]]
  /\ UNCHANGED <<pmm_manager, list, property, PG_property, nr_free>>

\* The caller goes on without the memory.
GiveUp(c) ==
  /\ got[c].n > 0 /\ got[c].page = NULL
  /\ got' = [got EXCEPT ![c] = none]
  /\ UNCHANGED <<pmm_manager, list, property, PG_property, nr_free>>

block(c) == IF got[c].page = NULL THEN {} ELSE got[c].page .. (got[c].page + got[c].n - 1)

\* Mutant: a block is never merged with the one after it.
merge_low_only(m) == m

\* A block m.base on the list of m is merged with the next one if that is adjacent.
merge_high(m) ==
  LET p == m.list.nxt[m.base]
  IN  IF p # HEAD /\ m.base + m.property[m.base] = p
      THEN [base |-> m.base,
            list |-> list_del(m.list, p),
            property |-> [m.property EXCEPT ![m.base] = @ + m.property[p]],
            flags |-> m.flags \ {p}]
      ELSE m

\* Likewise with the one before it.
merge_low(m) ==
  LET p == m.list.prv[m.base]
  IN  IF p # HEAD /\ p + m.property[p] = m.base
      THEN [base |-> p,
            list |-> list_del(m.list, m.base),
            property |-> [m.property EXCEPT ![p] = @ + m.property[m.base]],
            flags |-> m.flags \ {m.base}]
      ELSE m

\* free_pages by c of its block; it asserts that none of the pages is a free block.
Free(c) ==
  LET base == got[c].page
      m == merge_high(merge_low([base |-> base,
                                 list |-> put(list, base),
                                 property |-> [property EXCEPT ![base] = got[c].n],
                                 flags |-> PG_property \cup {base}]))
  IN  /\ base # NULL
      /\ block(c) \cap PG_property = {}
      /\ store(m)
      /\ nr_free' = nr_free + got[c].n
      /\ UNCHANGED pmm_manager
      /\ got' = [got EXCEPT ![c] = none]

Next ==
  \E c \in Client :
    \/ \E n \in 1..npage : Alloc(c, n) \/ AllocFails(c, n)
    \/ GiveUp(c)
    \/ Free(c)

Spec == Init /\ [][Next]_vars

-----------------------------------------------------------------------------
\* The pages of the free block b.
free_block(b) == b .. (b + property[b] - 1)

\* The list holds the free blocks, in the order of their addresses, and can be walked
\* both ways: what every insertion and deletion, in whatever order, must keep up.
FreeList ==
  LET w == walk(list)
      at == {i \in 0..npage : w[i] # HEAD}
  IN  /\ {w[i] : i \in at} = PG_property
      /\ \A i, j \in at : i < j => w[i] < w[j]
      /\ \A b \in PG_property \cup {HEAD} : list.prv[list.nxt[b]] = b /\ list.nxt[list.prv[b]] = b

\* No page is lost and none is given out twice: each is in exactly one free block or
\* in the block of one caller, and nr_free counts the free ones.
PagesConserved ==
  /\ \A p \in Page :
       Cardinality({b \in PG_property : p \in free_block(b)})
         + Cardinality({c \in Client : p \in block(c)}) = 1
  /\ \A b \in PG_property : free_block(b) \subseteq Page
  /\ nr_free = npage - Cardinality(UNION {block(c) : c \in Client})

\* Neighbouring free blocks are merged (step 5.3 of the head comment): two free blocks
\* never touch, whichever of three neighbours was freed last.
Coalesced == \A b \in PG_property : b + property[b] \notin PG_property

\* The assertion of default_free_pages, on every block a caller holds: freeing each
\* block once never finds a page that is a free block already.
FreeAsserts == \A c \in Client : block(c) \cap PG_property = {}

-----------------------------------------------------------------------------
\* Seen through the calls alone the managers give out the start of a free area: the lowest
\* one that is long enough, or the tightest, and refuse only if there is none;
\* fragmentation is never their own doing.
Runs == INSTANCE PageRuns
BestRun == Runs!Spec
=============================================================================
