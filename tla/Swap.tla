-------------------------------- MODULE Swap --------------------------------
(***************************************************************************)
(* Page replacement in lab3: do_pgfault of kern/mm/vmm.c with alloc_pages, *)
(* pgdir_alloc_page and page_insert of kern/mm/pmm.c, swap_out and swap_in *)
(* of kern/mm/swap.c, and the swap disk of fs/swapfs.c and driver/ide.c;   *)
(* the policies are in Policies.                                           *)
(***************************************************************************)
EXTENDS Policies

CONSTANTS
  NPAGE,             \* the program uses the pages 1..NPAGE
  max_swap_offset,   \* pages of the swap disk
  Reswap,            \* bound: FALSE ends a behaviour where swap_out is to write a frame
                     \* whose pra_vaddr is not the page it holds
  NULL

ASSUME SwapAssumption ==
  /\ NPAGE \in Nat /\ max_swap_offset \in Nat /\ NPAGE + 1 < max_swap_offset
  /\ Reswap \in BOOLEAN

VARIABLES
  mm,        \* the policy, page table entries, the fields of the frames, the list of the policy, the disk
  tlb,       \* translations the processor holds: pairs of a page and a frame
  wrote,     \* what the program wrote to each page last; 0 before its first write
  arrived    \* the pages that have a frame, in the order they got it

vars == <<mm, tlb, wrote, arrived>>

Page == 1..NPAGE
Written == Page \X {1, 2}

-----------------------------------------------------------------------------
\* A page that is out has its slot in its page table entry, above 8 other bits.
swap_entry(v) == (v + 1) * 256
swap_offset(entry) == entry \div 256

\* assert((*ptep & PTE_V) != 0) of swap_out.
swap_out_asserts(s) == s.pte[s.pra_vaddr[victim(s)]] \in Frame

\* swap_out of one page; the disk never fails.
swap_out(s) ==
  LET f == victim(s)
      v == s.pra_vaddr[f]
  IN  [swap_out_victim(s) EXCEPT !.disk[swap_offset(swap_entry(v))] = s.data[f],
                                 !.pte[v] = swap_entry(v),
                                 !.free = @ \cup {f}]

\* alloc_pages(1): swap_out until there is a free frame.
alloc(s) == IF s.free = {} THEN swap_out(s) ELSE s

\* page_insert, of a page that has no frame.
page_insert(s, f, v) == [s EXCEPT !.pte[v] = f, !.free = @ \ {f}]

\* swap_in into frame f: what the disk has of page v.
swap_in(s, f, v) == [s EXCEPT !.data[f] = s.disk[swap_offset(s.pte[v])]]

\* pgdir_alloc_page
pgdir_alloc_page(s, f, v) == [map_swappable(page_insert(s, f, v), f) EXCEPT !.pra_vaddr[f] = v]

\* do_pgfault for page v, which is in the area of the program: a page that was never there
\* gets the frame as it is, one that is out its content from the disk.
do_pgfault(s, f, v) ==
  IF s.pte[v] = 0 THEN pgdir_alloc_page(s, f, v)
  ELSE map_swappable(page_insert(swap_in(s, f, v), f, v), f)

-----------------------------------------------------------------------------
\* check_swap before check_content_set.
Init ==
  /\ \E sm \in {"fifo", "clock", "lru"} :
     mm = [sm |-> sm,
           pte |-> [v \in Page |-> 0],
           data |-> [f \in Frame |-> NULL],
           disk |-> [i \in 1..(max_swap_offset - 1) |-> NULL],
           pra_vaddr |-> [f \in Frame |-> NULL],
           visited |-> [f \in Frame |-> 0],
           queue |-> <<>>,
           free |-> Frame]
  /\ tlb = {}
  /\ wrote = [v \in Page |-> 0]
  /\ arrived = <<>>

\* The frame the processor takes page v to be in: a translation it holds, or else the entry.
translates(v, f) ==
  \/ <<v, f>> \in tlb
  \/ mm.pte[v] = f /\ \A g \in Frame : <<v, g>> \notin tlb

\* The program reads or writes page v.
Access(v, write) ==
  \E f \in Frame :
    /\ translates(v, f)
    /\ tlb' = tlb \cup {<<v, f>>}
    /\ IF write
       THEN /\ wrote' = [wrote EXCEPT ![v] = IF @ = 1 THEN 2 ELSE 1]
            /\ mm' = [mm EXCEPT !.data[f] = <<v, wrote'[v]>>]
       ELSE UNCHANGED <<wrote, mm>>
    /\ UNCHANGED arrived

\* Mutant: the processor's translations stay.
flush_nothing == tlb

\* tlb_invalidate flushes all translations.
flush_tlb == {}

\* The program uses page v, which has no frame; where the assertion of swap_out fails the
\* kernel stops.
Fault(v) ==
  /\ \A f \in Frame : ~translates(v, f)
  /\ mm.free = {} =>
       /\ swap_out_asserts(mm)
       /\ Reswap \/ mm.pte[mm.pra_vaddr[victim(mm)]] = victim(mm)
  /\ LET s == alloc(mm)
     IN  \E f \in s.free : mm' = do_pgfault(s, f, v)
  /\ tlb' = flush_tlb
  /\ arrived' = Append(IF mm.free = {} THEN RemoveFirst(arrived, mm.pra_vaddr[victim(mm)]) ELSE arrived, v)
  /\ UNCHANGED wrote

Next == \E v \in Page : Fault(v) \/ \E write \in BOOLEAN : Access(v, write)

Spec == Init /\ [][Next]_vars

-----------------------------------------------------------------------------
\* The program finds in each page what it wrote there last, through the page table and
\* through every translation the processor holds, and on the disk while the page is out.
ReadsLastWrite ==
  \A v \in {w \in Page : wrote[w] # 0} :
    /\ mm.pte[v] # 0
    /\ IF mm.pte[v] \in Frame THEN mm.data[mm.pte[v]] = <<v, wrote[v]>>
       ELSE mm.disk[swap_offset(mm.pte[v])] = <<v, wrote[v]>>
    /\ \A f \in Frame : <<v, f>> \in tlb => mm.data[f] = <<v, wrote[v]>>

\* Each frame is free, or on the list of the policy once and the frame of one page: the
\* loop of alloc_pages always finds a victim, swap_out never frees a frame twice.
FramesAccounted ==
  /\ IsInjective(mm.queue)
  /\ Range(mm.queue) = Frame \ mm.free
  /\ \A f \in Frame \ mm.free : \E v \in Page : mm.pte[v] = f
  /\ \A f \in mm.free, v \in Page : mm.pte[v] # f
  /\ \A v, w \in Page : mm.pte[v] = mm.pte[w] /\ mm.pte[v] \in Frame => v = w

\* fifo and clock evict the page that came first: clock's hand starts at the end of the list
\* each time, where the only page without a second chance is the last one again (grade.sh
\* of lab3 expects clock to swap out 0x1000 first and 0x2000 next).
EvictsOldest ==
  [][\A v \in Page :
       mm.sm # "lru" /\ mm.pte[v] \in Frame /\ mm'.pte[v] \notin Frame => v = Head(arrived)]_vars

\* page->visited tells lru's pages apart: after the halving of swap_out_victim the one further
\* back in the list still has less than each before it, however often both were halved since
\* they came, so what is shifted out never makes two of them equal.
VisitedTellsAge ==
  mm.sm = "lru" =>
    LET bits == visited_on_victim(mm)
    IN  \A i, j \in DOMAIN mm.queue : i < j => bits[mm.queue[i]] > bits[mm.queue[j]]
=============================================================================
