------------------------------ MODULE PageRuns ------------------------------
(***************************************************************************)
(* What a manager of pages promises its callers, with no list.             *)
(* alloc_pages(n) takes n pages from the beginning of a free area, which   *)
(* is as long as the pages nobody has reach: the lowest area that has n    *)
(* pages or, from a best-fit manager, the shortest.  It fails only if      *)
(* there is none.                                                          *)
(***************************************************************************)
EXTENDS Integers

CONSTANTS
  npage,   \* the pages are 0..npage-1
  Client,  \* the callers
  NULL     \* the result of a call that fails

VARIABLES
  pmm_manager,  \* "default" or "best_fit"
  got           \* the last call of a client: n pages from page on; n = 0 if it has none

vars == <<pmm_manager, got>>

none == [page |-> NULL, n |-> 0]

run(page, n) == page .. (page + n - 1)

used == UNION {IF got[c].page = NULL THEN {} ELSE run(got[c].page, got[c].n) : c \in Client}
unused == (0..(npage - 1)) \ used

\* The free areas of n pages or more.
areas(n) ==
  LET free == unused
      begins == {p \in free : p - 1 \notin free}
      ends == {p \in free : p + 1 \notin free}
      end(p) == CHOOSE q \in ends : p <= q /\ \A r \in ends : p <= r => q <= r
  IN  {a \in {[page |-> p, length |-> end(p) - p + 1] : p \in begins} : n <= a.length}

better(a, b) ==
  IF pmm_manager = "default" \/ a.length = b.length THEN a.page < b.page ELSE a.length < b.length

Init ==
  /\ pmm_manager \in {"default", "best_fit"}
  /\ got = [c \in Client |-> none]

Alloc(c, n) ==
  LET enough == areas(n)
  IN  \E a \in enough :
        /\ got[c] = none
        /\ \A other \in enough : ~better(other, a)
        /\ got' = [got EXCEPT ![c] = [page |-> a.page, n |-> n]]
        /\ UNCHANGED pmm_manager

Refuse(c, n) ==
  /\ got[c] = none
  /\ areas(n) = {}
  /\ got' = [got EXCEPT ![c] = [page |-> NULL, n |-> n]]
  /\ UNCHANGED pmm_manager

\* A block is given back, or a refusal taken note of.
Done(c) == got[c] # none /\ got' = [got EXCEPT ![c] = none] /\ UNCHANGED pmm_manager

Next == \E c \in Client : Done(c) \/ \E n \in 1..npage : Alloc(c, n) \/ Refuse(c, n)

Spec == Init /\ [][Next]_vars
=============================================================================
