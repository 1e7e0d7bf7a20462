----------------------------- MODULE PageTable -----------------------------
(***************************************************************************)
(* The three-level page tables of lab5, kern/mm/pmm.c: get_pte,            *)
(* page_insert, page_remove_pte, unmap_range, exit_range, copy_range.      *)
(*                                                                         *)
(* Operators only.  Each maps the state m of physical memory to the state  *)
(* the function leaves, and says what it returned.  Physical memory is     *)
(*   m.free    the pages the page manager has                              *)
(*   m.ref     page->ref                                                   *)
(*   m.table   what a page holds as a directory or a page table            *)
(*   m.data    what it holds as memory of a program; TABLE if it was last  *)
(*             cleared to be a directory or a page table                   *)
(*   m.panic   alloc_page found nothing: it calls swap_out of no address   *)
(*             space, the kernel faults and does nothing more              *)
(* Addresses count pages.  Permission bits are left out.                   *)
(***************************************************************************)
EXTENDS Integers, FiniteSets

CONSTANTS
  npage,      \* how many physical pages there are for programs, named from 1 on
  NPTEENTRY,  \* entries of a page table
  NPDEENTRY,  \* entries of a level-0 directory
  NROOT,      \* entries of a root directory below USERTOP
  TABLE,      \* the content of a page used as a directory or page table
  ZERO        \* the content of a page of zeros

ASSUME PageTableAssumption ==
  /\ npage \in Nat \ {0}
  /\ NPTEENTRY \in Nat \ {0}
  /\ NPDEENTRY \in Nat \ {0}
  /\ NROOT \in Nat \ {0}

Page == 1..npage
invalid == 0      \* an entry without PTE_V

NENTRY == CHOOSE n \in {NPTEENTRY, NPDEENTRY, NROOT} :
            \A k \in {NPTEENTRY, NPDEENTRY, NROOT} : k <= n
Index == 0..(NENTRY - 1)
empty == [i \in Index |-> invalid]

PTSIZE == NPTEENTRY
PDSIZE == PTSIZE * NPDEENTRY
USERTOP == PDSIZE * NROOT
Addr == 0..(USERTOP - 1)

PTX(la) == la % NPTEENTRY
PDX0(la) == (la \div PTSIZE) % NPDEENTRY
PDX1(la) == la \div PDSIZE

-----------------------------------------------------------------------------
(* Pages.  The manager gives out the lowest free one: FirstFit!BestRun.    *)

lowest(S) == CHOOSE p \in S : \A q \in S : p <= q

\* There is no page, nor will there be one: nothing is freed any more.
stop(m) == [m EXCEPT !.panic = TRUE]

take(m) == [m EXCEPT !.free = @ \ {lowest(@)}]

\* A table is given back without valid entries: as memory of a program it holds zeros.
free_page(m, p) ==
  [m EXCEPT !.free = @ \cup {p}, !.ref[p] = 0, !.table[p] = empty,
            !.data[p] = IF @ = TABLE THEN ZERO ELSE @]

\* Entry i of the directory dir leads to the cleared page p, which it has the reference of.
add_table(m, dir, i, p) ==
  [m EXCEPT !.ref[p] = 1, !.data[p] = TABLE, !.table = [@ EXCEPT ![p] = empty, ![dir][i] = p]]

alloc_table(m, dir, i) ==
  IF m.table[dir][i] # invalid THEN m
  ELSE IF m.free = {} THEN stop(m) ELSE add_table(take(m), dir, i, lowest(m.free))

-----------------------------------------------------------------------------
(* One address. *)

\* get_pte with create: the directory that is still missing, and then the page table.
get_pt(m, pgdir, la) == IF m.panic THEN m ELSE alloc_table(m, m.table[pgdir][PDX1(la)], PDX0(la))

get_pte(m, pgdir, la) == get_pt(alloc_table(m, pgdir, PDX1(la)), pgdir, la)

\* get_pte without create: the page table of la, or invalid for NULL.
find_pt(m, pgdir, la) ==
  LET pd0 == m.table[pgdir][PDX1(la)]
  IN  IF pd0 = invalid THEN invalid ELSE m.table[pd0][PDX0(la)]

\* The entry of la; get_page is this.
pte(m, pgdir, la) ==
  LET pt == find_pt(m, pgdir, la)
  IN  IF pt = invalid THEN invalid ELSE m.table[pt][PTX(la)]

\* The last reference frees the page.
unref(m, p) == IF m.ref[p] = 1 THEN free_page(m, p) ELSE [m EXCEPT !.ref[p] = @ - 1]

clear_pte(m, pt, i) == unref([m EXCEPT !.table[pt][i] = invalid], m.table[pt][i])

\* page_remove, and page_remove_pte of a valid entry.
page_remove(m, pgdir, la) ==
  IF pte(m, pgdir, la) = invalid THEN m ELSE clear_pte(m, find_pt(m, pgdir, la), PTX(la))

set_pte(m, pgdir, page, la) == [m EXCEPT !.table[find_pt(m, pgdir, la)][PTX(la)] = page]

\* Mutant: the new mapping is not counted.
map_uncounted(m, pgdir, page, la) ==
  IF m.panic \/ pte(m, pgdir, la) = page THEN m
  ELSE set_pte(page_remove(m, pgdir, la), pgdir, page, la)

\* page_insert, when there is a page table: what was mapped there loses a reference; if it
\* is the page itself it gets one and loses it.
map_page(m, pgdir, page, la) ==
  IF m.panic \/ pte(m, pgdir, la) = page THEN m
  ELSE set_pte(page_remove([m EXCEPT !.ref[page] = @ + 1], pgdir, la), pgdir, page, la)

page_insert(m, pgdir, page, la) == map_page(get_pte(m, pgdir, la), pgdir, page, la)

\* pgdir_alloc_page: the page holds what it held before.
pgdir_alloc_page(m, pgdir, la) ==
  IF m.free = {} THEN stop(m) ELSE page_insert(take(m), pgdir, lowest(m.free), la)

fill(m, pgdir, la, v) == IF m.panic THEN m ELSE [m EXCEPT !.data[pte(m, pgdir, la)] = v]

\* A page of its own for la, with v in it.
new_page(m, pgdir, la, v) == fill(pgdir_alloc_page(m, pgdir, la), pgdir, la, v)

-----------------------------------------------------------------------------
(* Ranges start .. end - 1. *)

unmap_range(m, pgdir, start, end) ==
  LET done[la \in start..end] == IF la = start THEN m ELSE page_remove(done[la - 1], pgdir, la - 1)
  IN  done[end]

unused(m, pt) == \A i \in 0..(NPTEENTRY - 1) : m.table[pt][i] = invalid

\* exit_range in the directory under entry d1, with the entries of it the range touches:
\* it frees the page tables without a valid entry, and the directory if each entry it
\* looked at was valid, whatever the other entries are.
exit_pd0(m, pgdir, d1, visited) ==
  LET pd0 == m.table[pgdir][d1]
      pts == {i \in visited : m.table[pd0][i] # invalid /\ unused(m, m.table[pd0][i])}
      free_pd0 == \A i \in visited : m.table[pd0][i] # invalid
      gone == {m.table[pd0][i] : i \in pts} \cup {p \in {pd0} : free_pd0}
  IN  [m EXCEPT !.free = @ \cup gone,
                !.ref = [p \in Page |-> IF p \in gone THEN 0 ELSE m.ref[p]],
                !.data = [p \in Page |-> IF p \in gone THEN ZERO ELSE m.data[p]],
                !.table = [p \in Page |->
                             IF p \in gone THEN empty
                             ELSE IF p = pd0 THEN [i \in Index |-> IF i \in pts THEN invalid ELSE m.table[p][i]]
                             ELSE IF p = pgdir /\ free_pd0 THEN [m.table[p] EXCEPT ![d1] = invalid]
                             ELSE m.table[p]]]

exit_range(m, pgdir, start, end) ==
  LET visited(d1) == {PDX0(la) : la \in {x \in start..(end - 1) : PDX1(x) = d1}}
      one(m1, d1) == IF m1.table[pgdir][d1] = invalid THEN m1 ELSE exit_pd0(m1, pgdir, d1, visited(d1))
      done[d1 \in PDX1(start)..(PDX1(end - 1) + 1)] ==
        IF d1 = PDX1(start) THEN m ELSE one(done[d1 - 1], d1 - 1)
  IN  done[PDX1(end - 1) + 1]

\* Mutant: parent and child get the same page.
copy_shares(m, to, from, la) == page_insert(m, to, pte(m, from, la), la)

\* One turn of copy_range for a valid entry: a page table for the child, then a copy.
copy_page(m, to, from, la) == new_page(get_pte(m, to, la), to, la, m.data[pte(m, from, la)])

\* dup_mmap passes 0 for share.
copy_range(m, to, from, start, end) ==
  LET one(m1, la) == IF m1.panic \/ pte(m1, from, la) = invalid THEN m1 ELSE copy_page(m1, to, from, la)
      done[la \in start..end] == IF la = start THEN m ELSE one(done[la - 1], la - 1)
  IN  done[end]
=============================================================================
