----------------------------- MODULE SwapProofs -----------------------------
(***************************************************************************)
(* Proofs about module Swap, for any number of frames and pages and for    *)
(* the three policies.                                                     *)
(***************************************************************************)
EXTENDS Swap, ListProofs, FiniteSetTheorems

Content == {NULL} \cup (Page \X {1, 2})

State ==
  [sm : {"fifo", "clock", "lru"},
   pte : [Page -> Nat \cup Frame],
   data : [Frame -> Content],
   disk : [1..(max_swap_offset - 1) -> Content],
   pra_vaddr : [Frame -> Page \cup {NULL}],
   visited : [Frame -> Nat],
   queue : Seq(Frame),
   free : SUBSET Frame]

\* Each frame is free, or on the list of the policy and the frame of one page.
Accounted(s) ==
  /\ IsInjective(s.queue)
  /\ Range(s.queue) = Frame \ s.free
  /\ \A f \in Frame \ s.free : \E v \in Page : s.pte[v] = f
  /\ \A f \in s.free, v \in Page : s.pte[v] # f
  /\ \A v, w \in Page : s.pte[v] = s.pte[w] /\ s.pte[v] \in Frame => v = w

\* A page has a frame, was never there, or is in its own slot of the disk.
OwnSlot(s) == \A v \in Page : s.pte[v] \in Frame \cup {0, swap_entry(v)}

\* A frame in use has held a page that was new; all frames have once one page is out.
Remembered(s) ==
  /\ \A f \in Frame \ s.free : s.pra_vaddr[f] \in Page
  /\ \A v \in Page : s.pte[v] = swap_entry(v) => \A f \in Frame : s.pra_vaddr[f] \in Page

\* What the program wrote is in the page's frame, or on the disk.
Contents(s) ==
  \A v \in Page : wrote[v] # 0 =>
    /\ s.pte[v] # 0
    /\ s.pte[v] \in Frame => s.data[s.pte[v]] = <<v, wrote[v]>>
    /\ s.pte[v] \notin Frame => s.disk[v + 1] = <<v, wrote[v]>>

\* What alloc_pages and do_pgfault rely on and keep.
Kept(s) == s \in State /\ Accounted(s) /\ OwnSlot(s) /\ Remembered(s) /\ Contents(s)

\* The processor translates as the page table does.
TlbAgrees == \A v \in Page, f \in Frame : <<v, f>> \in tlb => mm.pte[v] = f

\* The inductive invariant.
IInv ==
  /\ wrote \in [Page -> {0, 1, 2}]
  /\ TlbAgrees
  /\ Kept(mm)

-----------------------------------------------------------------------------
(* The operators. *)

\* The constants.
LEMMA Constants ==
  /\ Page \subseteq Nat /\ max_swap_offset \in Int
  /\ \A v \in Page : v + 1 \in 1..(max_swap_offset - 1)
  /\ \A f \in Frame : f \notin Nat
<1>1. NPAGE \in Nat /\ max_swap_offset \in Int /\ NPAGE + 1 < max_swap_offset
  BY SwapAssumption
<1>2. Page \subseteq Nat /\ \A v \in Page : v + 1 \in 1..(max_swap_offset - 1)
  BY <1>1 DEF Page
<1>3. \A f \in Frame : f \notin Nat
  BY PoliciesAssumption
<1> QED
  BY <1>1, <1>2, <1>3

\* Each page has a slot of its own on the disk.
LEMMA Slot ==
  ASSUME NEW v \in Page
  PROVE  /\ swap_entry(v) \in Nat /\ swap_entry(v) # 0 /\ swap_entry(v) \notin Frame
         /\ swap_offset(swap_entry(v)) = v + 1
<1>1. v \in Nat
  BY Constants
<1>2. swap_entry(v) \in Nat /\ swap_entry(v) # 0
  BY <1>1 DEF swap_entry
<1>3. swap_offset(swap_entry(v)) = v + 1
  BY <1>1 DEF swap_entry, swap_offset
<1> QED
  BY <1>2, <1>3, Constants

\* page->visited stays a number.
LEMMA VisitedType ==
  ASSUME NEW s \in State, NEW f \in Frame
  PROVE  visited_on_map(s, f) \in [Frame -> Nat] /\ visited_on_victim(s) \in [Frame -> Nat]
<1>1. s.visited \in [Frame -> Nat] /\ s.sm \in {"fifo", "clock", "lru"}
  BY DEF State
<1>2. TOP \in Nat \ {0}
  BY PoliciesAssumption
<1>3. \A g \in Frame : s.visited[g] \in Nat
  BY <1>1
<1>4. \A n \in Nat : n \div 2 \in Nat /\ TOP + (n % TOP) \in Nat
  BY <1>2
<1>5. visited_on_map(s, f) \in [Frame -> Nat]
  <2>1. CASE s.sm = "fifo"
    BY <1>1, <2>1 DEF visited_on_map
  <2>2. CASE s.sm = "clock"
    BY <1>1, <2>2 DEF visited_on_map
  <2>3. CASE s.sm = "lru"
    <3>1. visited_on_map(s, f) =
            [g \in Frame |->
               IF g = f THEN TOP + (s.visited[f] % TOP)
               ELSE IF g \in Range(s.queue) THEN s.visited[g] \div 2 ELSE s.visited[g]]
      BY <2>3 DEF visited_on_map
    <3> QED
      BY <1>3, <1>4, <3>1
  <2> QED
    BY <1>1, <2>1, <2>2, <2>3
<1>6. visited_on_victim(s) \in [Frame -> Nat]
  <2>1. CASE s.sm = "fifo"
    BY <1>1, <2>1 DEF visited_on_victim
  <2>2. CASE s.sm = "clock"
    BY <1>1, <2>2 DEF visited_on_victim
  <2>3. CASE s.sm = "lru"
    <3>1. visited_on_victim(s) =
            [g \in Frame |-> IF g \in Range(s.queue) THEN s.visited[g] \div 2 ELSE s.visited[g]]
      BY <2>3 DEF visited_on_victim
    <3> QED
      BY <1>3, <1>4, <3>1
  <2> QED
    BY <1>1, <2>1, <2>2, <2>3
<1> QED
  BY <1>5, <1>6

\* Each policy finds a victim on the list if there is a page on it.
LEMMA VictimPlace ==
  ASSUME NEW s \in State, Range(s.queue) # {}
  PROVE  victim_place(s) \in 1..Len(s.queue)
<1> DEFINE n == Len(s.queue)
<1>1. s.queue \in Seq(Frame)
  BY DEF State
<1>2. n \in Nat /\ DOMAIN s.queue = 1..n /\ \A i \in 1..n : s.queue[i] \in Frame
  BY <1>1, LenProperties, ElementOfSeq
<1>3. n \in 1..n
  BY <1>2 DEF Range
<1> HIDE DEF n
<1>4. CASE s.sm # "lru"
  BY <1>3, <1>4 DEF victim_place, n
<1>5. CASE s.sm = "lru"
  <2> DEFINE bits == visited_on_victim(s)
             uses == {bits[s.queue[i]] : i \in 1..n}
             least == {i \in DOMAIN s.queue :
                         \A j \in DOMAIN s.queue : bits[s.queue[i]] <= bits[s.queue[j]]}
  <2>1. bits \in [Frame -> Nat]
    BY <1>2, <1>3, VisitedType
  <2>2. victim_place(s) = CHOOSE i \in least : \A j \in least : i <= j
    BY <1>5 DEF victim_place
  <2> HIDE DEF bits
  <2>3. uses \in SUBSET Nat /\ uses # {}
    BY <1>2, <1>3, <2>1
  <2>4. PICK m \in uses : \A k \in uses : m <= k
    <3> HIDE DEF uses
    <3> QED
      BY <2>3, LeastNat
  <2>5. PICK i \in 1..n : m = bits[s.queue[i]]
    BY <2>4
  <2>6. i \in least
    BY <1>2, <2>4, <2>5
  <2>7. least \in SUBSET Nat /\ least \subseteq 1..n
    BY <1>2
  <2> HIDE DEF least
  <2>8. \E k \in least : \A j \in least : k <= j
    BY <2>6, <2>7, LeastNat
  <2> QED
    BY <2>2, <2>7, <2>8 DEF n
<1> QED
  BY <1>4, <1>5

\* swap_out of the frame of page u: its content goes to u's slot.
LEMMA SwapOut ==
  ASSUME NEW s \in State, IsInjective(s.queue), Range(s.queue) # {},
         NEW u \in Page, u = s.pra_vaddr[victim(s)]
  PROVE  LET t == swap_out(s)
             f == victim(s)
         IN  /\ t \in State
             /\ f \in Range(s.queue) /\ IsInjective(t.queue) /\ Range(t.queue) = Range(s.queue) \ {f}
             /\ t.pte = [s.pte EXCEPT ![u] = swap_entry(u)]
             /\ t.data = s.data /\ t.disk = [s.disk EXCEPT ![u + 1] = s.data[f]]
             /\ t.pra_vaddr = s.pra_vaddr
             /\ t.free = s.free \cup {f}
<1> DEFINE f == victim(s)
           k == victim_place(s)
           r == swap_out_victim(s)
           t == swap_out(s)
<1>1. /\ s.queue \in Seq(Frame) /\ s.pte \in [Page -> Nat \cup Frame]
      /\ s.data \in [Frame -> Content] /\ s.disk \in [1..(max_swap_offset - 1) -> Content]
      /\ s.free \in SUBSET Frame
  BY DEF State
<1>2. k \in 1..Len(s.queue)
  BY VictimPlace
<1>3. f = s.queue[k]
  BY DEF victim
<1>4. f \in Range(s.queue) /\ f \in Frame
  BY <1>1, <1>2, <1>3, LenProperties, ElementOfSeq DEF Range
<1>5. /\ RemoveAt(s.queue, k) \in Seq(Frame)
      /\ Range(RemoveAt(s.queue, k)) = Range(s.queue) \ {f}
      /\ IsInjective(RemoveAt(s.queue, k))
  <2> HIDE DEF k, f
  <2> QED
    BY <1>1, <1>2, <1>3, ListDelete
<1>6. visited_on_victim(s) \in [Frame -> Nat]
  BY <1>4, VisitedType
<1>7. r = [s EXCEPT !.queue = RemoveAt(s.queue, k), !.visited = visited_on_victim(s)]
  BY DEF swap_out_victim
<1>8. u + 1 \in 1..(max_swap_offset - 1) /\ swap_offset(swap_entry(u)) = u + 1 /\ swap_entry(u) \in Nat
  BY Constants, Slot
<1>9. t = [r EXCEPT !.disk = [r.disk EXCEPT ![u + 1] = s.data[f]],
                    !.pte = [r.pte EXCEPT ![u] = swap_entry(u)],
                    !.free = r.free \cup {f}]
  BY <1>8 DEF swap_out
<1> HIDE DEF f, k, r, t
<1>10. /\ r \in State /\ r.queue = RemoveAt(s.queue, k)
       /\ r.pte = s.pte /\ r.data = s.data /\ r.disk = s.disk /\ r.free = s.free
       /\ r.pra_vaddr = s.pra_vaddr
  BY <1>5, <1>6, <1>7 DEF State
<1>11. /\ [r.disk EXCEPT ![u + 1] = s.data[f]] \in [1..(max_swap_offset - 1) -> Content]
       /\ [r.pte EXCEPT ![u] = swap_entry(u)] \in [Page -> Nat \cup Frame]
       /\ r.free \cup {f} \in SUBSET Frame
  BY <1>1, <1>4, <1>8, <1>10
<1>12. /\ t \in State /\ t.queue = r.queue /\ t.data = r.data /\ t.pra_vaddr = r.pra_vaddr
       /\ t.disk = [r.disk EXCEPT ![u + 1] = s.data[f]]
       /\ t.pte = [r.pte EXCEPT ![u] = swap_entry(u)]
       /\ t.free = r.free \cup {f}
  BY <1>9, <1>10, <1>11 DEF State
<1> QED
  BY <1>4, <1>5, <1>10, <1>12 DEF f, t

\* do_pgfault with a free frame f for page v, which has none.
LEMMA PageIn ==
  ASSUME NEW s \in State, IsInjective(s.queue), NEW f \in Frame, f \notin Range(s.queue),
         NEW v \in Page, s.pte[v] \in {0, swap_entry(v)}
  PROVE  LET t == do_pgfault(s, f, v)
         IN  /\ t \in State
             /\ IsInjective(t.queue) /\ Range(t.queue) = Range(s.queue) \cup {f}
             /\ t.pte = [s.pte EXCEPT ![v] = f]
             /\ t.free = s.free \ {f} /\ t.disk = s.disk
             /\ s.pte[v] = 0 => t.data = s.data /\ t.pra_vaddr = [s.pra_vaddr EXCEPT ![f] = v]
             /\ s.pte[v] # 0 =>
                  t.data = [s.data EXCEPT ![f] = s.disk[v + 1]] /\ t.pra_vaddr = s.pra_vaddr
<1> DEFINE t == do_pgfault(s, f, v)
<1>1. /\ s.queue \in Seq(Frame) /\ s.pte \in [Page -> Nat \cup Frame]
      /\ s.data \in [Frame -> Content] /\ s.disk \in [1..(max_swap_offset - 1) -> Content]
      /\ s.pra_vaddr \in [Frame -> Page \cup {NULL}]
      /\ s.free \in SUBSET Frame
  BY DEF State
<1>2. /\ <<f>> \o s.queue \in Seq(Frame)
      /\ Range(<<f>> \o s.queue) = Range(s.queue) \cup {f}
      /\ IsInjective(<<f>> \o s.queue)
  BY <1>1, ListAddHead
<1>3. swap_offset(swap_entry(v)) = v + 1 /\ v + 1 \in 1..(max_swap_offset - 1)
  BY Constants, Slot
<1>4. ASSUME NEW r \in State, r.queue = s.queue
      PROVE  /\ map_swappable(r, f) \in State
             /\ map_swappable(r, f).queue = <<f>> \o s.queue
             /\ map_swappable(r, f).pte = r.pte /\ map_swappable(r, f).data = r.data
             /\ map_swappable(r, f).disk = r.disk /\ map_swappable(r, f).free = r.free
             /\ map_swappable(r, f).pra_vaddr = r.pra_vaddr
  <2>1. visited_on_map(r, f) \in [Frame -> Nat]
    BY VisitedType
  <2>2. map_swappable(r, f) = [r EXCEPT !.queue = <<f>> \o s.queue, !.visited = visited_on_map(r, f)]
    BY <1>4 DEF map_swappable
  <2> QED
    BY <1>2, <2>1, <2>2 DEF State
<1>5. ASSUME NEW r \in State
      PROVE  /\ page_insert(r, f, v) \in State
             /\ page_insert(r, f, v).queue = r.queue
             /\ page_insert(r, f, v).pte = [r.pte EXCEPT ![v] = f]
             /\ page_insert(r, f, v).data = r.data
             /\ page_insert(r, f, v).disk = r.disk /\ page_insert(r, f, v).free = r.free \ {f}
             /\ page_insert(r, f, v).pra_vaddr = r.pra_vaddr
  BY DEF page_insert, State
<1>6. CASE s.pte[v] = 0
  <2> DEFINE r == page_insert(s, f, v)
             m == map_swappable(r, f)
  <2>1. t = [m EXCEPT !.pra_vaddr = [m.pra_vaddr EXCEPT ![f] = v]]
    BY <1>6 DEF do_pgfault, pgdir_alloc_page
  <2>2. /\ r \in State /\ r.queue = s.queue /\ r.pte = [s.pte EXCEPT ![v] = f]
        /\ r.data = s.data /\ r.disk = s.disk /\ r.free = s.free \ {f}
        /\ r.pra_vaddr = s.pra_vaddr
    BY <1>5
  <2> HIDE DEF r
  <2>3. /\ m \in State /\ m.queue = <<f>> \o s.queue /\ m.pte = r.pte /\ m.data = r.data
        /\ m.disk = r.disk /\ m.free = r.free /\ m.pra_vaddr = r.pra_vaddr
    BY <1>4, <2>2
  <2> HIDE DEF m, t
  <2>4. [m.pra_vaddr EXCEPT ![f] = v] \in [Frame -> Page \cup {NULL}]
    BY <1>1, <2>2, <2>3
  <2>5. /\ t \in State /\ t.queue = m.queue /\ t.pte = m.pte /\ t.data = m.data
        /\ t.disk = m.disk /\ t.free = m.free
        /\ t.pra_vaddr = [m.pra_vaddr EXCEPT ![f] = v]
    BY <2>1, <2>3, <2>4 DEF State
  <2> QED
    BY <1>2, <1>6, <2>2, <2>3, <2>5 DEF t
<1>7. CASE s.pte[v] # 0
  <2> DEFINE d == swap_in(s, f, v)
             r == page_insert(d, f, v)
  <2>1. t = map_swappable(r, f)
    BY <1>7 DEF do_pgfault
  <2>2. d = [s EXCEPT !.data = [s.data EXCEPT ![f] = s.disk[v + 1]]]
    BY <1>3, <1>7 DEF swap_in
  <2>3. [s.data EXCEPT ![f] = s.disk[v + 1]] \in [Frame -> Content]
    BY <1>1, <1>3
  <2> HIDE DEF d
  <2>4. /\ d \in State /\ d.queue = s.queue /\ d.pte = s.pte /\ d.disk = s.disk
        /\ d.data = [s.data EXCEPT ![f] = s.disk[v + 1]]
        /\ d.free = s.free /\ d.pra_vaddr = s.pra_vaddr
    BY <2>2, <2>3 DEF State
  <2>5. /\ r \in State /\ r.queue = d.queue /\ r.pte = [d.pte EXCEPT ![v] = f]
        /\ r.data = d.data /\ r.disk = d.disk /\ r.free = d.free \ {f}
        /\ r.pra_vaddr = d.pra_vaddr
    BY <1>5, <2>4
  <2> HIDE DEF r, t
  <2>6. /\ t \in State /\ t.queue = <<f>> \o s.queue /\ t.pte = r.pte /\ t.data = r.data
        /\ t.disk = r.disk /\ t.free = r.free /\ t.pra_vaddr = r.pra_vaddr
    BY <1>4, <2>1, <2>4, <2>5
  <2> QED
    BY <1>2, <1>7, <2>4, <2>5, <2>6 DEF t
<1> QED
  BY <1>6, <1>7

-----------------------------------------------------------------------------
(* The steps. *)

\* alloc_pages: there is a free frame, and what is kept is kept.  Its guard is that of
\* Fault: the victim's frame remembers the page it holds.
LEMMA AllocKeeps ==
  ASSUME NEW s, Kept(s), s.free = {} => s.pte[s.pra_vaddr[victim(s)]] = victim(s)
  PROVE  LET t == alloc(s)
         IN  /\ Kept(t) /\ t.free # {}
             /\ \A v \in Page : s.pte[v] \notin Frame => t.pte[v] = s.pte[v]
<1> DEFINE t == alloc(s)
           f == victim(s)
           u == s.pra_vaddr[f]
<1>1. CASE s.free # {}
  BY <1>1 DEF alloc
<1>2. CASE s.free = {}
  <2>1. /\ s \in State /\ IsInjective(s.queue) /\ Range(s.queue) = Frame
        /\ s.pte \in [Page -> Nat \cup Frame] /\ s.data \in [Frame -> Content]
        /\ s.disk \in [1..(max_swap_offset - 1) -> Content]
        /\ s.free = {} /\ s.pte[u] = f
    BY <1>2 DEF Kept, Accounted, State
  <2>2. Frame # {}
    BY PoliciesAssumption
  <2>3. f \in Frame
    <3>1. s.queue \in Seq(Frame)
      BY <2>1 DEF State
    <3>2. victim_place(s) \in 1..Len(s.queue)
      BY <2>1, <2>2, VictimPlace
    <3> QED
      BY <3>1, <3>2, ElementOfSeq DEF victim
  <2>4. u \in Page
    BY <1>2, <2>3 DEF Kept, Remembered
  <2>5. /\ t \in State
        /\ IsInjective(t.queue) /\ Range(t.queue) = Frame \ {f}
        /\ t.pte = [s.pte EXCEPT ![u] = swap_entry(u)]
        /\ t.data = s.data /\ t.disk = [s.disk EXCEPT ![u + 1] = s.data[f]]
        /\ t.pra_vaddr = s.pra_vaddr
        /\ t.free = {f}
    <3>1. t = swap_out(s)
      BY <1>2 DEF alloc
    <3> HIDE DEF t, f, u
    <3> QED
      BY <2>1, <2>2, <2>4, <3>1, SwapOut DEF f, u
  <2> HIDE DEF t, f
  <2>6. swap_entry(u) \notin Frame /\ swap_entry(u) # 0
    BY <2>4, Slot
  <2>7. /\ t.pte[u] = swap_entry(u)
        /\ \A v \in Page : v # u => t.pte[v] = s.pte[v] /\ s.pte[v] # f
    <3>1. \A v, w \in Page : s.pte[v] = s.pte[w] /\ s.pte[v] \in Frame => v = w
      BY DEF Kept, Accounted
    <3> HIDE DEF u
    <3> QED
      BY <2>1, <2>3, <2>4, <2>5, <3>1
  <2> HIDE DEF u
  <2>8. Accounted(t)
    <3>1. \A g \in Frame \ {f} : \E v \in Page : t.pte[v] = g
      BY <1>2, <2>1, <2>7 DEF Kept, Accounted
    <3>2. \A v \in Page : t.pte[v] # f
      BY <2>3, <2>4, <2>6, <2>7
    <3>3. \A v, w \in Page : t.pte[v] = t.pte[w] /\ t.pte[v] \in Frame => v = w
      BY <2>6, <2>7 DEF Kept, Accounted
    <3> QED
      BY <2>5, <3>1, <3>2, <3>3 DEF Accounted
  <2>9. OwnSlot(t)
    BY <2>7 DEF OwnSlot, Kept
  <2>10. Remembered(t)
    BY <2>1, <2>5 DEF Remembered, Kept
  <2>11. Contents(t)
    <3> SUFFICES ASSUME NEW v \in Page, wrote[v] # 0
                 PROVE  /\ t.pte[v] # 0
                        /\ t.pte[v] \in Frame => t.data[t.pte[v]] = <<v, wrote[v]>>
                        /\ t.pte[v] \notin Frame => t.disk[v + 1] = <<v, wrote[v]>>
      BY DEF Contents
    <3>1. /\ s.pte[v] # 0
          /\ s.pte[v] \in Frame => s.data[s.pte[v]] = <<v, wrote[v]>>
          /\ s.pte[v] \notin Frame => s.disk[v + 1] = <<v, wrote[v]>>
      BY DEF Kept, Contents
    <3>2. /\ v + 1 \in 1..(max_swap_offset - 1) /\ u + 1 \in 1..(max_swap_offset - 1)
          /\ v \in Int /\ u \in Int
      BY <2>4, Constants
    <3>3. CASE v = u
      <4>1. t.disk[v + 1] = s.data[f]
        BY <2>1, <2>5, <3>2, <3>3
      <4> QED
        BY <2>1, <2>3, <2>6, <2>7, <3>1, <3>3, <4>1
    <3>4. CASE v # u
      <4>1. t.disk[v + 1] = s.disk[v + 1]
        BY <2>1, <2>5, <3>2, <3>4
      <4> QED
        BY <2>5, <2>7, <3>1, <3>4, <4>1
    <3> QED
      BY <3>3, <3>4
  <2>12. \A v \in Page : s.pte[v] \notin Frame => t.pte[v] = s.pte[v]
    BY <2>1, <2>3, <2>7
  <2> QED
    BY <2>5, <2>8, <2>9, <2>10, <2>11, <2>12 DEF Kept, t
<1> QED
  BY <1>1, <1>2

\* do_pgfault keeps what is kept.
LEMMA PageInKeeps ==
  ASSUME NEW s, Kept(s), NEW f \in s.free, NEW v \in Page, s.pte[v] \notin Frame
  PROVE  Kept(do_pgfault(s, f, v))
<1> DEFINE t == do_pgfault(s, f, v)
<1>1. /\ s \in State /\ IsInjective(s.queue) /\ Range(s.queue) = Frame \ s.free
      /\ s.pte \in [Page -> Nat \cup Frame] /\ s.data \in [Frame -> Content]
      /\ s.pra_vaddr \in [Frame -> Page \cup {NULL}]
      /\ s.free \subseteq Frame /\ f \in Frame
  BY DEF Kept, Accounted, State
<1>2. s.pte[v] \in {0, swap_entry(v)}
  BY DEF Kept, OwnSlot
<1>3. /\ t \in State
      /\ IsInjective(t.queue) /\ Range(t.queue) = Range(s.queue) \cup {f}
      /\ t.pte = [s.pte EXCEPT ![v] = f]
      /\ t.free = s.free \ {f} /\ t.disk = s.disk
      /\ s.pte[v] = 0 => t.data = s.data /\ t.pra_vaddr = [s.pra_vaddr EXCEPT ![f] = v]
      /\ s.pte[v] # 0 =>
           t.data = [s.data EXCEPT ![f] = s.disk[v + 1]] /\ t.pra_vaddr = s.pra_vaddr
  <2>1. f \notin Range(s.queue)
    BY <1>1
  <2>2. s \in State /\ IsInjective(s.queue) /\ f \in Frame
    BY <1>1
  <2> QED
    BY <1>2, <2>1, <2>2, PageIn
<1> HIDE DEF t
<1>4. /\ t.pte[v] = f
      /\ \A w \in Page : w # v => t.pte[w] = s.pte[w] /\ s.pte[w] # f
  BY <1>1, <1>3 DEF Kept, Accounted
<1>5. Accounted(t)
  <2>1. Range(t.queue) = Frame \ t.free
    BY <1>1, <1>3
  <2>2. \A g \in Frame \ t.free : \E w \in Page : t.pte[w] = g
    BY <1>1, <1>3, <1>4 DEF Kept, Accounted
  <2>3. \A g \in t.free, w \in Page : t.pte[w] # g
    BY <1>1, <1>3, <1>4 DEF Kept, Accounted
  <2>4. \A w, x \in Page : t.pte[w] = t.pte[x] /\ t.pte[w] \in Frame => w = x
    BY <1>4 DEF Kept, Accounted
  <2> QED
    BY <1>3, <2>1, <2>2, <2>3, <2>4 DEF Accounted
<1>6. OwnSlot(t)
  <2>1. \A w \in Page : s.pte[w] \in Frame \cup {0, swap_entry(w)}
    BY DEF Kept, OwnSlot
  <2>2. \A w \in Page : t.pte[w] = f \/ t.pte[w] = s.pte[w]
    BY <1>4
  <2> QED
    BY <1>1, <2>1, <2>2 DEF OwnSlot
<1>7. Remembered(t)
  <2>1. CASE s.pte[v] = 0
    <3>1. t.pra_vaddr = [s.pra_vaddr EXCEPT ![f] = v]
      BY <1>3, <2>1
    <3>2. \A g \in Frame : s.pra_vaddr[g] \in Page \/ g = f => t.pra_vaddr[g] \in Page
      BY <1>1, <3>1
    <3>3. swap_entry(v) \notin Frame
      BY Slot
    <3> QED
      BY <1>1, <1>3, <1>4, <3>2, <3>3 DEF Kept, Remembered
  <2>2. CASE s.pte[v] # 0
    <3>1. \A g \in Frame : s.pra_vaddr[g] \in Page
      BY <1>2, <2>2 DEF Kept, Remembered
    <3> QED
      BY <1>3, <2>2, <3>1 DEF Remembered
  <2> QED
    BY <2>1, <2>2
<1>8. Contents(t)
  <2> SUFFICES ASSUME NEW w \in Page, wrote[w] # 0
               PROVE  /\ t.pte[w] # 0
                      /\ t.pte[w] \in Frame => t.data[t.pte[w]] = <<w, wrote[w]>>
                      /\ t.pte[w] \notin Frame => t.disk[w + 1] = <<w, wrote[w]>>
    BY DEF Contents
  <2>1. /\ s.pte[w] # 0
        /\ s.pte[w] \in Frame => s.data[s.pte[w]] = <<w, wrote[w]>>
        /\ s.pte[w] \notin Frame => s.disk[w + 1] = <<w, wrote[w]>>
    BY DEF Kept, Contents
  <2>2. CASE w = v
    <3>1. t.data = [s.data EXCEPT ![f] = s.disk[v + 1]]
      BY <1>3, <2>1, <2>2
    <3>2. t.data[f] = <<w, wrote[w]>>
      BY <1>1, <2>1, <2>2, <3>1
    <3>3. f # 0
      BY <1>1, Constants
    <3> QED
      BY <1>1, <1>4, <2>2, <3>2, <3>3
  <2>3. CASE w # v
    <3>1. t.pte[w] = s.pte[w] /\ s.pte[w] # f
      BY <1>4, <2>3
    <3>2. \A g \in Frame : g # f => t.data[g] = s.data[g]
      BY <1>1, <1>3
    <3> QED
      BY <1>3, <2>1, <3>1, <3>2
  <2> QED
    BY <2>2, <2>3
<1> QED
  BY <1>3, <1>5, <1>6, <1>7, <1>8 DEF Kept, t

\* A page fault.  Only where Reswap is FALSE: see Remembered, which does not say that a
\* frame remembers the page it holds, and finding 4 of the README.
LEMMA FaultStep ==
  ASSUME Reswap = FALSE, IInv, NEW v \in Page, Fault(v)
  PROVE  IInv'
<1> DEFINE s == alloc(mm)
<1>1. Kept(mm)
  BY DEF IInv
<1>2. mm.pte[v] \notin Frame
  <2> SUFFICES ASSUME mm.pte[v] \in Frame PROVE FALSE
    OBVIOUS
  <2>1. \A f \in Frame : ~translates(v, f)
    BY DEF Fault
  <2>2. \A g \in Frame : <<v, g>> \notin tlb
    BY <2>1 DEF translates
  <2> QED
    BY <2>1, <2>2 DEF translates
<1>3. mm.free = {} => mm.pte[mm.pra_vaddr[victim(mm)]] = victim(mm)
  BY DEF Fault
<1>4. Kept(s) /\ s.pte[v] = mm.pte[v]
  BY <1>1, <1>2, <1>3, AllocKeeps
<1>5. PICK f \in s.free : mm' = do_pgfault(s, f, v)
  BY DEF Fault
<1> HIDE DEF s
<1>6. Kept(mm')
  BY <1>2, <1>4, <1>5, PageInKeeps
<1>7. wrote' = wrote /\ tlb' = {}
  BY DEF Fault, flush_tlb
<1>8. Kept(mm)'
  BY <1>6, <1>7 DEF Kept, Contents
<1> QED
  BY <1>7, <1>8 DEF IInv, TlbAgrees

\* A read or a write through the processor.
LEMMA AccessStep ==
  ASSUME IInv, NEW v \in Page, NEW write \in BOOLEAN, Access(v, write)
  PROVE  IInv'
<1>1. PICK f \in Frame :
        /\ translates(v, f)
        /\ tlb' = tlb \cup {<<v, f>>}
        /\ IF write
           THEN /\ wrote' = [wrote EXCEPT ![v] = IF @ = 1 THEN 2 ELSE 1]
                /\ mm' = [mm EXCEPT !.data[f] = <<v, wrote'[v]>>]
           ELSE UNCHANGED <<wrote, mm>>
  BY DEF Access
<1>2. mm.pte[v] = f
  BY <1>1 DEF translates, IInv, TlbAgrees
<1>3. CASE ~write
  <2>1. mm' = mm /\ wrote' = wrote
    BY <1>1, <1>3
  <2>2. TlbAgrees'
    BY <1>1, <1>2, <2>1 DEF IInv, TlbAgrees
  <2>3. Kept(mm)'
    BY <2>1 DEF IInv, Kept, Contents
  <2> QED
    BY <2>1, <2>2, <2>3 DEF IInv
<1>4. CASE write
  <2> DEFINE new == IF wrote[v] = 1 THEN 2 ELSE 1
             t == mm'
  <2>1. /\ mm \in State /\ mm.data \in [Frame -> Content] /\ wrote \in [Page -> {0, 1, 2}]
    BY DEF IInv, Kept, State
  <2>2. new \in {1, 2} /\ wrote' = [wrote EXCEPT ![v] = new]
    BY <1>1, <1>4
  <2> HIDE DEF new
  <2>3. wrote'[v] = new /\ wrote' \in [Page -> {0, 1, 2}]
    BY <2>1, <2>2
  <2>4. mm' = [mm EXCEPT !.data = [mm.data EXCEPT ![f] = <<v, new>>]]
    BY <1>1, <1>4, <2>3
  <2>5. [mm.data EXCEPT ![f] = <<v, new>>] \in [Frame -> Content]
    BY <2>1, <2>2 DEF Content
  <2>6. /\ t \in State /\ t.data = [mm.data EXCEPT ![f] = <<v, new>>]
        /\ t.pte = mm.pte /\ t.disk = mm.disk /\ t.pra_vaddr = mm.pra_vaddr
        /\ t.queue = mm.queue /\ t.free = mm.free
    BY <2>1, <2>4, <2>5 DEF State
  <2> HIDE DEF t
  <2>7. Accounted(t) /\ OwnSlot(t) /\ Remembered(t)
    BY <2>6 DEF IInv, Kept, Accounted, OwnSlot, Remembered
  <2>8. ASSUME NEW w \in Page, wrote'[w] # 0
        PROVE  /\ t.pte[w] # 0
               /\ t.pte[w] \in Frame => t.data[t.pte[w]] = <<w, wrote'[w]>>
               /\ t.pte[w] \notin Frame => t.disk[w + 1] = <<w, wrote'[w]>>
    <3>1. CASE w = v
      <4>1. f # 0
        BY Constants
      <4> QED
        BY <1>2, <2>1, <2>3, <2>6, <3>1, <4>1
    <3>2. CASE w # v
      <4>1. wrote'[w] = wrote[w]
        BY <2>1, <2>2, <3>2
      <4>2. mm.pte[w] # f
        BY <1>2, <3>2 DEF IInv, Kept, Accounted
      <4>3. /\ mm.pte[w] # 0
            /\ mm.pte[w] \in Frame => mm.data[mm.pte[w]] = <<w, wrote[w]>>
            /\ mm.pte[w] \notin Frame => mm.disk[w + 1] = <<w, wrote[w]>>
        BY <2>8, <4>1 DEF IInv, Kept, Contents
      <4>4. \A g \in Frame : g # f => t.data[g] = mm.data[g]
        BY <2>1, <2>6
      <4> QED
        BY <2>6, <4>1, <4>2, <4>3, <4>4
    <3> QED
      BY <3>1, <3>2
  <2>9. TlbAgrees'
    BY <1>1, <1>2, <2>6 DEF IInv, TlbAgrees, t
  <2>10. Kept(mm)'
    BY <2>6, <2>7, <2>8 DEF Kept, Contents, t
  <2> QED
    BY <2>3, <2>9, <2>10 DEF IInv
<1> QED
  BY <1>3, <1>4

\* The inductive invariant is one.
THEOREM Invariance ==
  ASSUME Reswap = FALSE
  PROVE  Spec => []IInv
<1>1. Init => IInv
  <2> SUFFICES ASSUME Init PROVE IInv
    OBVIOUS
  <2>1. PICK sm \in {"fifo", "clock", "lru"} :
          mm = [sm |-> sm,
                pte |-> [v \in Page |-> 0],
                data |-> [f \in Frame |-> NULL],
                disk |-> [i \in 1..(max_swap_offset - 1) |-> NULL],
                pra_vaddr |-> [f \in Frame |-> NULL],
                visited |-> [f \in Frame |-> 0],
                queue |-> <<>>,
                free |-> Frame]
    BY DEF Init
  <2>2. mm \in State
    BY <2>1 DEF State, Content
  <2>3. /\ \A v \in Page : mm.pte[v] = 0 /\ wrote[v] = 0
        /\ mm.queue = <<>> /\ mm.free = Frame /\ tlb = {}
        /\ wrote \in [Page -> {0, 1, 2}]
    BY <2>1 DEF Init
  <2>4. IsInjective(mm.queue) /\ Range(mm.queue) = {}
    BY <2>3 DEF IsInjective, Range
  <2>5. 0 \notin Frame /\ \A v \in Page : swap_entry(v) # 0
    BY Constants, Slot
  <2>6. Kept(mm)
    BY <2>2, <2>3, <2>4, <2>5 DEF Kept, Accounted, OwnSlot, Remembered, Contents
  <2> QED
    BY <2>3, <2>6 DEF IInv, TlbAgrees
<1>2. IInv /\ [Next]_vars => IInv'
  <2> SUFFICES ASSUME IInv, [Next]_vars PROVE IInv'
    OBVIOUS
  <2>1. ASSUME NEW v \in Page, Fault(v) PROVE IInv'
    BY <2>1, FaultStep
  <2>2. ASSUME NEW v \in Page, NEW write \in BOOLEAN, Access(v, write) PROVE IInv'
    BY <2>2, AccessStep
  <2>3. CASE UNCHANGED vars
    BY <2>3 DEF vars, IInv, TlbAgrees, Kept, Contents
  <2> QED
    BY <2>1, <2>2, <2>3 DEF Next
<1> QED
  BY <1>1, <1>2, PTL DEF Spec

\* Each frame is free, or on the list of the policy once and the frame of one page, so that
\* alloc_pages finds a victim whenever it has no free page.
THEOREM FramesOnce ==
  ASSUME Reswap = FALSE
  PROVE  Spec => []FramesAccounted
<1>1. IInv => FramesAccounted
  BY DEF IInv, Kept, Accounted, FramesAccounted
<1> QED
  BY <1>1, Invariance, PTL

\* No page loses what the program wrote to it, in its frame, on the disk, and through the
\* translations the processor holds.
THEOREM ContentsKept ==
  ASSUME Reswap = FALSE
  PROVE  Spec => []ReadsLastWrite
<1>1. IInv => ReadsLastWrite
  <2> SUFFICES ASSUME IInv, NEW v \in Page, wrote[v] # 0
               PROVE  /\ mm.pte[v] # 0
                      /\ IF mm.pte[v] \in Frame THEN mm.data[mm.pte[v]] = <<v, wrote[v]>>
                         ELSE mm.disk[swap_offset(mm.pte[v])] = <<v, wrote[v]>>
                      /\ \A f \in Frame : <<v, f>> \in tlb => mm.data[f] = <<v, wrote[v]>>
    BY DEF ReadsLastWrite
  <2>1. /\ mm.pte[v] # 0
        /\ mm.pte[v] \in Frame => mm.data[mm.pte[v]] = <<v, wrote[v]>>
        /\ mm.pte[v] \notin Frame => mm.disk[v + 1] = <<v, wrote[v]>>
    BY DEF IInv, Kept, Contents
  <2>2. mm.pte[v] \notin Frame => swap_offset(mm.pte[v]) = v + 1
    BY <2>1, Slot DEF IInv, Kept, OwnSlot
  <2> QED
    BY <2>1, <2>2 DEF IInv, TlbAgrees
<1> QED
  BY <1>1, Invariance, PTL

-----------------------------------------------------------------------------
(* The order in which pages leave. *)

\* The list of the policy has the pages in the order they arrived in, the newest first.
Queued(s, arr) ==
  /\ arr \in Seq(Page) /\ Len(arr) = Len(s.queue)
  /\ \A i \in 1..Len(arr) : s.pte[arr[i]] = s.queue[Len(arr) + 1 - i]

\* page->visited has the bits 0 to w, bit[i] is the number that has bit i only.
Bits(w, bit) ==
  /\ bit \in [0..w -> Nat] /\ bit[0] = 1 /\ \A i \in 1..w : bit[i] = 2 * bit[i - 1]
  /\ TOP = bit[w]

\* x had the top bit and was halved k times since.
Halved(x, k, w, bit) == IF k <= w THEN bit[w - k] <= x /\ x < 2 * bit[w - k] ELSE x = 0

\* age[i] is how often page->visited of entry i of the list was halved: once or twice for each
\* page that came after it, and extra times since.
AgedBy(s, age, extra, w, bit) ==
  /\ age \in [1..Len(s.queue) -> Nat]
  /\ \A i \in 1..Len(s.queue) :
       age[i] <= 2 * (i - 1) + extra /\ Halved(s.visited[s.queue[i]], age[i], w, bit)
  /\ \A i, j \in 1..Len(s.queue) : i < j => age[i] < age[j]

Aged(s, extra, w, bit) ==
  s.sm = "lru" => \E age \in [1..Len(s.queue) -> Nat] : AgedBy(s, age, extra, w, bit)

\* The bits last until a page is the oldest: the lru policy evicts in the order of arrival
\* only then.
Enough(w) == IsFiniteSet(Frame) /\ 2 * Cardinality(Frame) <= w + 3

LEMMA BitOrder ==
  ASSUME NEW w \in Nat, NEW bit, Bits(w, bit), NEW i \in 0..w
  PROVE  bit[i] \in Nat \ {0} /\ \A j \in (i + 1)..w : bit[j] \in Nat /\ 2 * bit[i] <= bit[j]
<1>1. \A k \in 0..w : bit[k] \in Nat
  BY DEF Bits
<1>2. ASSUME NEW k \in 0..w PROVE \A j \in (k + 1)..w : 2 * bit[k] <= bit[j]
  <2> DEFINE T == {j \in Nat : j \in (k + 1)..w => 2 * bit[k] <= bit[j]}
  <2>1. CASE k = w
    BY <2>1
  <2>2. CASE k < w
    <3>1. k + 1 \in Nat /\ k + 1 \in 1..w
      BY <2>2
    <3>2. k + 1 \in T
      BY <3>1 DEF Bits
    <3>3. ASSUME NEW n \in (k + 1)..(w - 1), n \in T PROVE n + 1 \in T
      <4>1. n \in (k + 1)..w /\ n + 1 \in 1..w /\ n \in 0..w /\ n + 1 \in Nat /\ (n + 1) - 1 = n
        BY <3>1
      <4>2. 2 * bit[k] <= bit[n]
        BY <3>3, <4>1
      <4>3. bit[n + 1] = 2 * bit[n]
        BY <4>1 DEF Bits
      <4> QED
        BY <1>1, <4>1, <4>2, <4>3
    <3> HIDE DEF T
    <3>4. \A n \in (k + 1)..w : n \in T
      BY <3>1, <3>2, <3>3, Induction
    <3> QED
      BY <3>4 DEF T
  <2> QED
    BY <2>1, <2>2
<1>3. bit[i] # 0
  <2>1. bit[0] = 1 /\ 0 \in 0..w
    BY DEF Bits
  <2>2. CASE i = 0
    BY <2>1, <2>2
  <2>3. CASE i # 0
    <3>1. i \in (0 + 1)..w
      BY <2>3
    <3>2. 2 * bit[0] <= bit[i]
      BY <1>2, <2>1, <3>1
    <3> QED
      BY <1>1, <2>1, <3>2
  <2> QED
    BY <2>2, <2>3
<1>4. \A j \in (i + 1)..w : bit[j] \in Nat
  BY <1>1
<1> QED
  BY <1>1, <1>2, <1>3, <1>4

\* The new page has its top bit.
LEMMA NewTop ==
  ASSUME NEW w \in Nat, NEW bit, Bits(w, bit), NEW x \in Nat
  PROVE  Halved(TOP + (x % TOP), 0, w, bit)
<1>1. TOP \in Nat \ {0} /\ bit[w] = TOP
  BY PoliciesAssumption DEF Bits
<1>2. x % TOP \in 0..(TOP - 1)
  BY <1>1
<1>3. w - 0 = w
  OBVIOUS
<1> QED
  BY <1>1, <1>2, <1>3 DEF Halved

LEMMA HalvedOnce ==
  ASSUME NEW w \in Nat, NEW bit, Bits(w, bit), NEW x \in Nat, NEW k \in Nat, Halved(x, k, w, bit)
  PROVE  Halved(x \div 2, k + 1, w, bit)
<1>1. CASE k > w
  BY <1>1 DEF Halved
<1>2. CASE k = w
  <2>1. bit[0] = 1 /\ w - k = 0
    BY <1>2 DEF Bits
  <2>2. bit[w - k] <= x /\ x < 2 * bit[w - k]
    BY <1>2 DEF Halved
  <2>3. x = 1
    BY <2>1, <2>2
  <2> QED
    BY <1>2, <2>3 DEF Halved
<1>3. CASE k < w
  <2>1. bit[w - k] <= x /\ x < 2 * bit[w - k]
    BY <1>3 DEF Halved
  <2>2. w - k \in 1..w /\ w - (k + 1) = (w - k) - 1 /\ w - (k + 1) \in 0..w
    BY <1>3
  <2>3. bit[w - k] = 2 * bit[w - (k + 1)] /\ bit[w - (k + 1)] \in Nat
    BY <2>2 DEF Bits
  <2>4. \A b \in Nat : 2 * b <= x /\ x < 2 * (2 * b) => b <= x \div 2 /\ x \div 2 < 2 * b
    OBVIOUS
  <2> QED
    BY <1>3, <2>1, <2>3, <2>4 DEF Halved
<1> QED
  BY <1>1, <1>2, <1>3

\* Who was halved more often has less.
LEMMA HalvedLess ==
  ASSUME NEW w \in Nat, NEW bit, Bits(w, bit), NEW x \in Nat, NEW y \in Nat,
         NEW k \in Nat, NEW l \in Nat, k < l, k <= w, Halved(x, k, w, bit), Halved(y, l, w, bit)
  PROVE  y < x
<1>1. w - k \in 0..w /\ bit[w - k] <= x /\ bit[w - k] \in Nat \ {0}
  BY BitOrder DEF Halved
<1>2. CASE l > w
  BY <1>1, <1>2 DEF Halved
<1>3. CASE l <= w
  <2>1. w - l \in 0..w /\ w - k \in ((w - l) + 1)..w
    BY <1>3
  <2>2. 2 * bit[w - l] <= bit[w - k] /\ bit[w - l] \in Nat
    BY <2>1, BitOrder
  <2>3. y < 2 * bit[w - l]
    BY <1>3 DEF Halved
  <2> QED
    BY <1>1, <2>2, <2>3
<1> QED
  BY <1>2, <1>3

\* The list is not longer than there are frames.
LEMMA QueueLength ==
  ASSUME NEW q \in Seq(Frame), IsInjective(q), IsFiniteSet(Frame)
  PROVE  Len(q) <= Cardinality(Frame) /\ Cardinality(Frame) \in Nat
<1>1. Len(q) \in Nat /\ q \in [1..Len(q) -> Frame]
  BY LenProperties
<1>2. q \in Injection(1..Len(q), Frame)
  BY <1>1 DEF Injection
<1>3. Cardinality(1..Len(q)) <= Cardinality(Frame)
  BY <1>2, FS_Injection
<1>4. Cardinality(1..Len(q)) = Len(q)
  <2>1. 1 \in Int /\ Len(q) \in Int
    BY <1>1
  <2>2. Cardinality(1..Len(q)) = IF 1 > Len(q) THEN 0 ELSE Len(q) - 1 + 1
    BY <2>1, FS_Interval
  <2> QED
    BY <1>1, <2>2
<1> QED
  BY <1>3, <1>4, FS_CardinalityType

\* lru's numbers, halved, decrease along its list.
LEMMA AgesTell ==
  ASSUME NEW w \in Nat, NEW bit, Bits(w, bit), Enough(w),
         NEW s \in State, IsInjective(s.queue), s.sm = "lru", Aged(s, 0, w, bit)
  PROVE  LET bits == visited_on_victim(s)
         IN  /\ \A i \in DOMAIN s.queue : bits[s.queue[i]] \in Nat
             /\ \A i, j \in DOMAIN s.queue : i < j => bits[s.queue[i]] > bits[s.queue[j]]
<1> DEFINE n == Len(s.queue)
           bits == visited_on_victim(s)
<1>1. s.queue \in Seq(Frame) /\ s.visited \in [Frame -> Nat]
  BY DEF State
<1>2. n \in Nat /\ DOMAIN s.queue = 1..n /\ \A i \in 1..n : s.queue[i] \in Frame
  BY <1>1, LenProperties, ElementOfSeq
<1>3. PICK age \in [1..n -> Nat] : AgedBy(s, age, 0, w, bit)
  BY DEF Aged
<1>4. \A i \in 1..n : bits[s.queue[i]] = s.visited[s.queue[i]] \div 2
  <2>1. bits = [g \in Frame |-> IF g \in Range(s.queue) THEN s.visited[g] \div 2 ELSE s.visited[g]]
    BY DEF visited_on_victim
  <2>2. \A i \in 1..n : s.queue[i] \in Range(s.queue)
    BY <1>2 DEF Range
  <2> HIDE DEF bits, n
  <2> QED
    BY <1>2, <2>1, <2>2
<1>5. \A i \in 1..n : bits[s.queue[i]] \in Nat /\ Halved(bits[s.queue[i]], age[i] + 1, w, bit)
  <2> SUFFICES ASSUME NEW i \in 1..n
               PROVE  bits[s.queue[i]] \in Nat /\ Halved(bits[s.queue[i]], age[i] + 1, w, bit)
    OBVIOUS
  <2>1. s.visited[s.queue[i]] \in Nat /\ age[i] \in Nat
    BY <1>1, <1>2
  <2>2. Halved(s.visited[s.queue[i]], age[i], w, bit)
    BY <1>3 DEF AgedBy
  <2>3. \A x \in Nat : x \div 2 \in Nat
    OBVIOUS
  <2>4. s.visited[s.queue[i]] \div 2 \in Nat
    BY <2>1, <2>3
  <2> HIDE DEF bits, n
  <2> QED
    BY <1>4, <2>1, <2>2, <2>4, HalvedOnce
<1>6. n <= Cardinality(Frame) /\ Cardinality(Frame) \in Nat /\ 2 * Cardinality(Frame) <= w + 3
  BY <1>1, QueueLength DEF Enough
<1>7. /\ \A i \in 1..n : age[i] <= 2 * (i - 1)
      /\ \A i, j \in 1..n : i < j => age[i] < age[j]
  BY <1>2, <1>3 DEF AgedBy
<1> HIDE DEF bits
<1>8. ASSUME NEW i \in 1..n, NEW j \in 1..n, i < j PROVE bits[s.queue[j]] < bits[s.queue[i]]
  <2> HIDE DEF n
  <2>1. age[i] \in Nat /\ age[j] \in Nat /\ age[i] <= 2 * (i - 1) /\ age[i] < age[j]
    BY <1>7, <1>8
  <2>2. age[i] + 1 <= w
    <3>1. i \in Nat /\ i + 1 <= n
      BY <1>2, <1>8
    <3>2. \A c \in Nat : n <= c /\ 2 * c <= w + 3 => 2 * (i - 1) + 1 <= w
      BY <1>2, <3>1
    <3>3. 2 * (i - 1) + 1 <= w
      BY <1>6, <3>2
    <3> QED
      BY <2>1, <3>1, <3>3
  <2>3. age[i] + 1 < age[j] + 1
    BY <2>1
  <2> QED
    BY <1>5, <2>1, <2>2, <2>3, HalvedLess
<1>9. \A i, j \in 1..n : i < j => bits[s.queue[i]] > bits[s.queue[j]]
  <2> HIDE DEF n
  <2> QED
    BY <1>5, <1>8
<1> HIDE DEF n
<1> QED
  BY <1>2, <1>5, <1>9 DEF bits

\* Each policy takes the last entry of its list.
LEMMA VictimLast ==
  ASSUME NEW w \in Nat, NEW bit, Bits(w, bit), Enough(w),
         NEW s \in State, IsInjective(s.queue), Range(s.queue) # {}, Aged(s, 0, w, bit)
  PROVE  victim_place(s) = Len(s.queue) /\ Len(s.queue) \in Nat \ {0}
<1> DEFINE n == Len(s.queue)
           bits == visited_on_victim(s)
           least == {i \in DOMAIN s.queue :
                       \A j \in DOMAIN s.queue : bits[s.queue[i]] <= bits[s.queue[j]]}
<1>1. n \in Nat /\ DOMAIN s.queue = 1..n
  BY LenProperties DEF State
<1>2. n \in Nat \ {0}
  BY <1>1 DEF Range
<1>3. CASE s.sm # "lru"
  BY <1>2, <1>3 DEF victim_place
<1>4. CASE s.sm = "lru"
  <2>1. victim_place(s) = CHOOSE i \in least : \A j \in least : i <= j
    BY <1>4 DEF victim_place
  <2>2. /\ \A i \in DOMAIN s.queue : bits[s.queue[i]] \in Nat
        /\ \A i, j \in DOMAIN s.queue : i < j => bits[s.queue[i]] > bits[s.queue[j]]
    BY <1>4, AgesTell
  <2> HIDE DEF bits
  <2>3. least = {n}
    <3>1. n \in 1..n /\ \A i \in 1..n : i # n => i < n
      BY <1>2
    <3> HIDE DEF n
    <3>2. \A i \in 1..n : bits[s.queue[i]] \in Nat /\ (i # n => bits[s.queue[n]] < bits[s.queue[i]])
      BY <1>1, <2>2, <3>1
    <3>3. \A i \in 1..n : bits[s.queue[n]] <= bits[s.queue[i]]
      BY <3>1, <3>2
    <3>4. \A i \in 1..n : i # n => ~(bits[s.queue[i]] <= bits[s.queue[n]])
      BY <3>1, <3>2
    <3> QED
      BY <1>1, <3>1, <3>3, <3>4
  <2>4. (CHOOSE i \in {n} : \A j \in {n} : i <= j) = n
    <3>1. n <= n
      BY <1>1
    <3> HIDE DEF n
    <3> QED
      BY <3>1
  <2> HIDE DEF least
  <2> QED
    BY <1>2, <2>1, <2>3, <2>4
<1> QED
  BY <1>3, <1>4

\* What swap_out leaves of the list and of page->visited.
LEMMA SwapOutList ==
  ASSUME NEW s \in State
  PROVE  LET t == swap_out(s)
         IN  /\ t.sm = s.sm /\ t.visited = visited_on_victim(s)
             /\ t.queue = RemoveAt(s.queue, victim_place(s))
<1> DEFINE r == swap_out_victim(s)
           v == s.pra_vaddr[victim(s)]
           q == RemoveAt(s.queue, victim_place(s))
           disk == [r.disk EXCEPT ![swap_offset(swap_entry(v))] = s.data[victim(s)]]
           pte == [r.pte EXCEPT ![v] = swap_entry(v)]
           free == r.free \cup {victim(s)}
           bits == visited_on_victim(s)
<1>1. r = [s EXCEPT !.queue = q, !.visited = bits]
  BY DEF swap_out_victim
<1>2. swap_out(s) = [r EXCEPT !.disk = disk, !.pte = pte, !.free = free]
  BY DEF swap_out
<1>3. s = [sm |-> s.sm, pte |-> s.pte, data |-> s.data, disk |-> s.disk, pra_vaddr |-> s.pra_vaddr,
           visited |-> s.visited, queue |-> s.queue, free |-> s.free]
  BY DEF State
<1> HIDE DEF q, bits, r
<1>4. r = [sm |-> s.sm, pte |-> s.pte, data |-> s.data, disk |-> s.disk, pra_vaddr |-> s.pra_vaddr,
           visited |-> bits, queue |-> q, free |-> s.free]
  BY <1>1, <1>3
<1> HIDE DEF disk, pte, free
<1>5. swap_out(s) = [sm |-> s.sm, pte |-> pte, data |-> s.data, disk |-> disk, pra_vaddr |-> s.pra_vaddr,
                     visited |-> bits, queue |-> q, free |-> free]
  BY <1>2, <1>4
<1> QED
  BY <1>5 DEF q, bits

\* What do_pgfault leaves of them.
LEMMA PageInList ==
  ASSUME NEW s \in State, NEW f \in Frame, NEW v \in Page
  PROVE  LET t == do_pgfault(s, f, v)
         IN  /\ t.sm = s.sm /\ t.visited = visited_on_map(s, f)
             /\ t.queue = <<f>> \o s.queue
<1> DEFINE Same(r) == r.sm = s.sm /\ r.visited = s.visited /\ r.queue = s.queue
<1>1. ASSUME NEW r PROVE Same(r) => visited_on_map(r, f) = visited_on_map(s, f)
  BY DEF visited_on_map
<1>2. s = [sm |-> s.sm, pte |-> s.pte, data |-> s.data, disk |-> s.disk, pra_vaddr |-> s.pra_vaddr,
           visited |-> s.visited, queue |-> s.queue, free |-> s.free]
  BY DEF State
<1>3. ASSUME NEW data
      PROVE  LET r == page_insert([s EXCEPT !.data = data], f, v)
                 bits == visited_on_map(s, f)
                 q == <<f>> \o s.queue
             IN  map_swappable(r, f) =
                   [sm |-> s.sm, pte |-> r.pte, data |-> data, disk |-> s.disk,
                    pra_vaddr |-> s.pra_vaddr, visited |-> bits, queue |-> q, free |-> r.free]
  <2> DEFINE d == [s EXCEPT !.data = data]
             r == page_insert(d, f, v)
             bits == visited_on_map(s, f)
             q == <<f>> \o s.queue
             pte == [d.pte EXCEPT ![v] = f]
             free == d.free \ {f}
  <2>1. d = [sm |-> s.sm, pte |-> s.pte, data |-> data, disk |-> s.disk, pra_vaddr |-> s.pra_vaddr,
             visited |-> s.visited, queue |-> s.queue, free |-> s.free]
    BY <1>2
  <2>2. r = [d EXCEPT !.pte = pte, !.free = free]
    BY DEF page_insert
  <2> HIDE DEF d, pte, free, r
  <2>3. r = [sm |-> s.sm, pte |-> pte, data |-> data, disk |-> s.disk, pra_vaddr |-> s.pra_vaddr,
             visited |-> s.visited, queue |-> s.queue, free |-> free]
    BY <2>1, <2>2
  <2>4. Same(r) /\ r.pte = pte /\ r.free = free
    BY <2>3
  <2>5. map_swappable(r, f) = [r EXCEPT !.queue = q, !.visited = bits]
    BY <1>1, <2>4 DEF map_swappable
  <2> HIDE DEF bits, q
  <2>6. map_swappable(r, f) =
          [sm |-> s.sm, pte |-> pte, data |-> data, disk |-> s.disk, pra_vaddr |-> s.pra_vaddr,
           visited |-> bits, queue |-> q, free |-> free]
    BY <2>3, <2>5
  <2> QED
    BY <2>4, <2>6 DEF r, d, bits, q
<1>4. CASE s.pte[v] = 0
  <2> DEFINE r == page_insert([s EXCEPT !.data = s.data], f, v)
             m == map_swappable(r, f)
             bits == visited_on_map(s, f)
             q == <<f>> \o s.queue
             pra == [m.pra_vaddr EXCEPT ![f] = v]
  <2>1. [s EXCEPT !.data = s.data] = s
    BY <1>2
  <2>2. do_pgfault(s, f, v) = [m EXCEPT !.pra_vaddr = pra]
    BY <1>4, <2>1 DEF do_pgfault, pgdir_alloc_page
  <2>3. m = [sm |-> s.sm, pte |-> r.pte, data |-> s.data, disk |-> s.disk,
             pra_vaddr |-> s.pra_vaddr, visited |-> bits, queue |-> q, free |-> r.free]
    BY <1>3
  <2> HIDE DEF bits, q, r, m, pra
  <2>4. LET t == do_pgfault(s, f, v) IN t.sm = s.sm /\ t.visited = bits /\ t.queue = q
    BY <2>2, <2>3
  <2> QED
    BY <2>4 DEF bits, q
<1>5. CASE s.pte[v] # 0
  <2> DEFINE data == [s.data EXCEPT ![f] = s.disk[swap_offset(s.pte[v])]]
             r == page_insert([s EXCEPT !.data = data], f, v)
             bits == visited_on_map(s, f)
             q == <<f>> \o s.queue
  <2>1. do_pgfault(s, f, v) = map_swappable(r, f)
    BY <1>5 DEF do_pgfault, swap_in
  <2> HIDE DEF data
  <2>2. map_swappable(r, f) =
          [sm |-> s.sm, pte |-> r.pte, data |-> data, disk |-> s.disk,
           pra_vaddr |-> s.pra_vaddr, visited |-> bits, queue |-> q, free |-> r.free]
    BY <1>3
  <2> HIDE DEF bits, q, r
  <2>3. LET t == do_pgfault(s, f, v) IN t.sm = s.sm /\ t.visited = bits /\ t.queue = q
    BY <2>1, <2>2
  <2> QED
    BY <2>3 DEF bits, q
<1> QED
  BY <1>4, <1>5

\* The victim leaves, the others were halved once.
LEMMA AgedOut ==
  ASSUME NEW w \in Nat, NEW bit, Bits(w, bit), NEW s \in State,
         NEW t, t.sm = s.sm, t.visited = visited_on_victim(s),
         Len(t.queue) = Len(s.queue) - 1, \A i \in 1..Len(t.queue) : t.queue[i] = s.queue[i],
         Aged(s, 0, w, bit)
  PROVE  Aged(t, 1, w, bit)
<1> DEFINE n == Len(s.queue)
<1>1. s.queue \in Seq(Frame) /\ s.visited \in [Frame -> Nat]
  BY DEF State
<1>2. n \in Nat /\ DOMAIN s.queue = 1..n /\ \A i \in 1..n : s.queue[i] \in Frame
  BY <1>1, LenProperties, ElementOfSeq
<1> SUFFICES ASSUME s.sm = "lru"
             PROVE  \E age \in [1..Len(t.queue) -> Nat] : AgedBy(t, age, 1, w, bit)
  BY DEF Aged
<1>3. PICK age \in [1..n -> Nat] : AgedBy(s, age, 0, w, bit)
  BY DEF Aged
<1>4. /\ \A i \in 1..n : age[i] <= 2 * (i - 1) /\ Halved(s.visited[s.queue[i]], age[i], w, bit)
      /\ \A i, j \in 1..n : i < j => age[i] < age[j]
  <2>1. \A i \in 1..n : age[i] \in Nat
    OBVIOUS
  <2> QED
    BY <1>2, <1>3, <2>1 DEF AgedBy
<1>5. t.visited = [g \in Frame |-> IF g \in Range(s.queue) THEN s.visited[g] \div 2 ELSE s.visited[g]]
  BY DEF visited_on_victim
<1>6. \A i \in 1..(n - 1) : t.visited[t.queue[i]] = s.visited[s.queue[i]] \div 2
  <2>1. \A i \in 1..n : s.queue[i] \in Range(s.queue)
    BY <1>2 DEF Range
  <2>2. \A i \in 1..(n - 1) : i \in 1..n /\ t.queue[i] = s.queue[i]
    BY <1>2
  <2> HIDE DEF n
  <2> SUFFICES ASSUME NEW i \in 1..(n - 1)
               PROVE  t.visited[t.queue[i]] = s.visited[s.queue[i]] \div 2
    OBVIOUS
  <2>3. s.queue[i] \in Frame /\ s.queue[i] \in Range(s.queue) /\ t.queue[i] = s.queue[i]
    BY <1>2, <2>1, <2>2
  <2> QED
    BY <1>5, <2>3
<1> DEFINE older == [i \in 1..(n - 1) |-> age[i] + 1]
<1>7. older \in [1..(n - 1) -> Nat] /\ \A i \in 1..(n - 1) : older[i] = age[i] + 1 /\ i \in 1..n
  BY <1>2
<1>8. ASSUME NEW i \in 1..(n - 1)
      PROVE  older[i] <= 2 * (i - 1) + 1 /\ Halved(t.visited[t.queue[i]], older[i], w, bit)
  <2>1. s.visited[s.queue[i]] \in Nat /\ age[i] \in Nat /\ i \in 1..n
    <3>1. i \in 1..n
      BY <1>2
    <3>2. s.queue[i] \in Frame /\ age[i] \in Nat
      BY <1>2, <3>1
    <3> QED
      BY <1>1, <3>1, <3>2
  <2> HIDE DEF n
  <2>2. Halved(s.visited[s.queue[i]] \div 2, age[i] + 1, w, bit)
    BY <1>4, <2>1, HalvedOnce
  <2>3. age[i] + 1 <= 2 * (i - 1) + 1
    BY <1>4, <2>1
  <2> QED
    BY <1>6, <1>7, <2>2, <2>3
<1>9. ASSUME NEW i \in 1..(n - 1), NEW j \in 1..(n - 1), i < j PROVE older[i] < older[j]
  <2>1. age[i] \in Nat /\ age[j] \in Nat /\ i \in 1..n /\ j \in 1..n
    <3>1. i \in 1..n /\ j \in 1..n
      BY <1>2
    <3> QED
      BY <3>1
  <2>2. age[i] < age[j]
    BY <1>4, <1>9, <2>1
  <2> QED
    BY <1>7, <2>1, <2>2
<1> HIDE DEF older
<1>10. AgedBy(t, older, 1, w, bit)
  BY <1>7, <1>8, <1>9 DEF AgedBy
<1> QED
  BY <1>7, <1>10

\* The new page comes, the others were halved once.
LEMMA AgedIn ==
  ASSUME NEW w \in Nat, NEW bit, Bits(w, bit), NEW s \in State,
         NEW f \in Frame, f \notin Range(s.queue),
         NEW t, t.sm = s.sm, t.visited = visited_on_map(s, f),
         Len(t.queue) = Len(s.queue) + 1,
         \A i \in 1..Len(t.queue) : t.queue[i] = IF i = 1 THEN f ELSE s.queue[i - 1],
         NEW extra \in {0, 1}, Aged(s, extra, w, bit)
  PROVE  Aged(t, 0, w, bit)
<1> DEFINE n == Len(s.queue)
<1>1. s.queue \in Seq(Frame) /\ s.visited \in [Frame -> Nat]
  BY DEF State
<1>2. n \in Nat /\ DOMAIN s.queue = 1..n /\ \A i \in 1..n : s.queue[i] \in Frame
  BY <1>1, LenProperties, ElementOfSeq
<1> SUFFICES ASSUME s.sm = "lru"
             PROVE  \E age \in [1..Len(t.queue) -> Nat] : AgedBy(t, age, 0, w, bit)
  BY DEF Aged
<1>3. PICK age \in [1..n -> Nat] : AgedBy(s, age, extra, w, bit)
  BY DEF Aged
<1>4. /\ \A i \in 1..n : age[i] <= 2 * (i - 1) + 1 /\ Halved(s.visited[s.queue[i]], age[i], w, bit)
      /\ \A i, j \in 1..n : i < j => age[i] < age[j]
  <2>1. \A i \in 1..n : age[i] \in Nat
    OBVIOUS
  <2> HIDE DEF n
  <2>2. ASSUME NEW i \in 1..n PROVE age[i] <= 2 * (i - 1) + extra => age[i] <= 2 * (i - 1) + 1
    BY <1>2, <2>1
  <2> QED
    BY <1>3, <2>2 DEF AgedBy, n
<1>5. t.visited =
        [g \in Frame |->
           IF g = f THEN TOP + (s.visited[f] % TOP)
           ELSE IF g \in Range(s.queue) THEN s.visited[g] \div 2 ELSE s.visited[g]]
  BY DEF visited_on_map
<1>6. \A i \in 1..n : t.visited[s.queue[i]] = s.visited[s.queue[i]] \div 2
  <2>1. \A i \in 1..n : s.queue[i] \in Range(s.queue) /\ s.queue[i] # f
    BY <1>2 DEF Range
  <2> HIDE DEF n
  <2> QED
    BY <1>2, <1>5, <2>1
<1> DEFINE older == [i \in 1..(n + 1) |-> IF i = 1 THEN 0 ELSE age[i - 1] + 1]
<1>7. older \in [1..(n + 1) -> Nat] /\ \A i \in 1..(n + 1) : older[i] = IF i = 1 THEN 0 ELSE age[i - 1] + 1
  <2>1. \A i \in 1..(n + 1) : i # 1 => i - 1 \in 1..n /\ age[i - 1] + 1 \in Nat
    BY <1>2
  <2> QED
    BY <2>1
<1> HIDE DEF older
<1>8. ASSUME NEW i \in 1..(n + 1)
      PROVE  older[i] <= 2 * (i - 1) + 0 /\ Halved(t.visited[t.queue[i]], older[i], w, bit)
  <2>1. CASE i = 1
    <3>1. t.queue[i] = f /\ older[i] = 0 /\ s.visited[f] \in Nat
      BY <1>1, <1>2, <1>7, <2>1
    <3>2. t.visited[f] = TOP + (s.visited[f] % TOP)
      BY <1>5
    <3>3. Halved(TOP + (s.visited[f] % TOP), 0, w, bit)
      BY <3>1, NewTop
    <3>4. older[i] <= 2 * (i - 1) + 0
      BY <2>1, <3>1
    <3> QED
      BY <3>1, <3>2, <3>3, <3>4
  <2>2. CASE i # 1
    <3>1. i - 1 \in 1..n /\ t.queue[i] = s.queue[i - 1] /\ older[i] = age[i - 1] + 1
      BY <1>2, <1>7, <2>2
    <3>2. s.visited[s.queue[i - 1]] \in Nat /\ age[i - 1] \in Nat
      BY <1>1, <1>2, <3>1
    <3>3. Halved(s.visited[s.queue[i - 1]] \div 2, age[i - 1] + 1, w, bit)
      BY <1>4, <3>1, <3>2, HalvedOnce
    <3>4. t.visited[t.queue[i]] = s.visited[s.queue[i - 1]] \div 2
      BY <1>6, <3>1
    <3>5. age[i - 1] <= 2 * ((i - 1) - 1) + 1
      BY <1>4, <3>1
    <3>6. older[i] <= 2 * (i - 1) + 0
      BY <1>2, <3>1, <3>2, <3>5
    <3> QED
      BY <3>1, <3>3, <3>4, <3>6
  <2> QED
    BY <2>1, <2>2
<1>9. ASSUME NEW i \in 1..(n + 1), NEW j \in 1..(n + 1), i < j PROVE older[i] < older[j]
  <2>1. j - 1 \in 1..n /\ older[j] = age[j - 1] + 1 /\ age[j - 1] \in Nat
    <3>1. j - 1 \in 1..n /\ j # 1
      BY <1>2, <1>9
    <3>2. age[j - 1] \in Nat
      BY <3>1
    <3> QED
      BY <1>7, <3>1, <3>2
  <2>2. CASE i = 1
    BY <1>7, <2>1, <2>2
  <2>3. CASE i # 1
    <3>1. i - 1 \in 1..n /\ older[i] = age[i - 1] + 1 /\ age[i - 1] \in Nat /\ i - 1 < j - 1
      <4>1. i - 1 \in 1..n /\ i - 1 < j - 1
        BY <1>2, <1>9, <2>3
      <4>2. age[i - 1] \in Nat
        BY <4>1
      <4> QED
        BY <1>7, <2>3, <4>1, <4>2
    <3>2. age[i - 1] < age[j - 1]
      BY <1>4, <2>1, <3>1
    <3> QED
      BY <2>1, <3>1, <3>2
  <2> QED
    BY <2>2, <2>3
<1>10. AgedBy(t, older, 0, w, bit)
  BY <1>7, <1>8, <1>9 DEF AgedBy
<1> QED
  BY <1>7, <1>10

\* The inductive invariant about the order under fifo and clock, beside IInv.
OrderInv == mm.sm # "lru" => Queued(mm, arrived)

\* alloc_pages: who leaves is the one that came first.
LEMMA AllocOrder ==
  ASSUME NEW s, Kept(s), s.sm # "lru", NEW arr, Queued(s, arr),
         s.free = {} => s.pte[s.pra_vaddr[victim(s)]] = victim(s)
  PROVE  LET t == alloc(s)
             rest == IF s.free = {} THEN RemoveFirst(arr, s.pra_vaddr[victim(s)]) ELSE arr
         IN  /\ Queued(t, rest)
             /\ \A v \in Page : s.pte[v] \in Frame /\ t.pte[v] \notin Frame => v = Head(arr)
<1> DEFINE t == alloc(s)
           f == victim(s)
           u == s.pra_vaddr[f]
           n == Len(s.queue)
<1>1. CASE s.free # {}
  BY <1>1 DEF alloc
<1>2. CASE s.free = {}
  <2>1. /\ s \in State /\ IsInjective(s.queue) /\ Range(s.queue) = Frame
        /\ s.pte \in [Page -> Nat \cup Frame] /\ s.queue \in Seq(Frame)
    BY <1>2 DEF Kept, Accounted, State
  <2>2. Frame # {}
    BY PoliciesAssumption
  <2>3. victim_place(s) = n /\ n \in Nat \ {0}
    <3>1. n \in Nat /\ DOMAIN s.queue = 1..n
      BY <2>1, LenProperties
    <3> QED
      BY <2>1, <2>2, <3>1 DEF victim_place, Range
  <2>4. f = s.queue[n] /\ f \in Frame /\ n \in 1..n
    <3>1. n \in 1..n
      BY <2>3
    <3> QED
      BY <2>1, <2>3, <3>1, ElementOfSeq DEF victim
  <2>5. u \in Page /\ s.pte[u] = f
    BY <1>2, <2>4 DEF Kept, Remembered
  <2>6. arr \in Seq(Page) /\ Len(arr) = n /\ DOMAIN arr = 1..n
        /\ \A i \in 1..n : arr[i] \in Page /\ s.pte[arr[i]] = s.queue[n + 1 - i]
    BY LenProperties, ElementOfSeq DEF Queued
  <2>7. IsInjective(arr)
    <3>1. DOMAIN s.queue = 1..n
      BY <2>1, LenProperties
    <3>2. ASSUME NEW i \in 1..n, NEW j \in 1..n, arr[i] = arr[j] PROVE i = j
      <4>1. n + 1 - i \in 1..n /\ n + 1 - j \in 1..n
        BY <2>3
      <4>2. s.queue[n + 1 - i] = s.queue[n + 1 - j]
        BY <2>6, <3>2
      <4>3. n + 1 - i = n + 1 - j
        BY <2>1, <3>1, <4>1, <4>2 DEF IsInjective
      <4> QED
        BY <2>3, <4>3
    <3> QED
      BY <2>6, <3>2 DEF IsInjective
  <2>8. 1 \in 1..n /\ arr[1] = u /\ Head(arr) = u
    <3>1. 1 \in 1..n /\ n + 1 - 1 = n
      BY <2>3
    <3>2. s.pte[arr[1]] = f /\ arr[1] \in Page
      BY <2>4, <2>6, <3>1
    <3>3. \A v, x \in Page : s.pte[v] = s.pte[x] /\ s.pte[v] \in Frame => v = x
      BY DEF Kept, Accounted
    <3>4. arr[1] = u
      BY <2>4, <2>5, <3>2, <3>3
    <3> QED
      BY <2>6, <3>1, <3>4
  <2> DEFINE rest == RemoveFirst(arr, u)
  <2>9. rest \in Seq(Page) /\ Len(rest) = n - 1 /\ \A i \in 1..(n - 1) : rest[i] = arr[i + 1]
    <3>1. u \in Range(arr)
      BY <2>6, <2>8 DEF Range
    <3> HIDE DEF u, n
    <3>2. rest = RemoveAt(arr, 1)
      BY <2>6, <2>7, <2>8, <3>1, ListRemove
    <3> HIDE DEF rest
    <3>3. RemoveAt(arr, 1) \in Seq(Page) /\ Len(RemoveAt(arr, 1)) = n - 1
          /\ \A i \in 1..(n - 1) : RemoveAt(arr, 1)[i] = IF i < 1 THEN arr[i] ELSE arr[i + 1]
      <4>1. 1 \in 1..Len(arr)
        BY <2>6, <2>8
      <4>2. LET d == RemoveAt(arr, 1)
            IN  /\ d \in Seq(Page) /\ Len(d) = Len(arr) - 1
                /\ \A i \in 1..Len(d) : d[i] = IF i < 1 THEN arr[i] ELSE arr[i + 1]
        BY <2>6, <2>7, <4>1, ListDelete
      <4> QED
        BY <2>6, <4>2
    <3> QED
      BY <2>3, <3>2, <3>3
  <2>10. t = swap_out(s)
    BY <1>2 DEF alloc
  <2>11. t.pte = [s.pte EXCEPT ![u] = swap_entry(u)]
    <3> HIDE DEF t, f, u
    <3> QED
      BY <2>1, <2>2, <2>5, <2>10, SwapOut DEF f, u
  <2>12. t.sm = s.sm /\ t.visited = visited_on_victim(s) /\ t.queue = RemoveAt(s.queue, n)
    BY <2>1, <2>3, <2>10, SwapOutList
  <2>13. Len(t.queue) = n - 1 /\ \A i \in 1..(n - 1) : t.queue[i] = s.queue[i]
    <3> HIDE DEF n, t
    <3>1. Len(t.queue) = n - 1 /\ \A i \in 1..(n - 1) : t.queue[i] = IF i < n THEN s.queue[i] ELSE s.queue[i + 1]
      <4>1. n \in 1..Len(s.queue)
        BY <2>4 DEF n
      <4>2. LET d == RemoveAt(s.queue, n)
            IN  /\ Len(d) = Len(s.queue) - 1
                /\ \A i \in 1..Len(d) : d[i] = IF i < n THEN s.queue[i] ELSE s.queue[i + 1]
        BY <2>1, <4>1, ListDelete
      <4> QED
        BY <2>12, <4>2 DEF n
    <3> QED
      BY <2>3, <3>1
  <2> HIDE DEF t, rest, f, u
  <2> HIDE DEF n
  <2>15. Queued(t, rest)
    <3>1. ASSUME NEW i \in 1..(n - 1) PROVE t.pte[rest[i]] = t.queue[(n - 1) + 1 - i]
      <4>1. i + 1 \in 1..n /\ n + 1 - (i + 1) = n - i /\ (n - 1) + 1 - i = n - i /\ n - i \in 1..(n - 1)
        BY <2>3
      <4>2. rest[i] = arr[i + 1] /\ arr[i + 1] \in Page /\ s.pte[arr[i + 1]] = s.queue[n - i]
        BY <2>6, <2>9, <4>1
      <4>3. arr[i + 1] # u
        BY <2>6, <2>7, <2>8, <4>1 DEF IsInjective
      <4> QED
        BY <2>1, <2>11, <2>13, <4>1, <4>2, <4>3
    <3> QED
      BY <2>9, <2>13, <3>1 DEF Queued
  <2>16. \A v \in Page : s.pte[v] \in Frame /\ t.pte[v] \notin Frame => v = Head(arr)
    BY <2>1, <2>8, <2>11
  <2> QED
    BY <1>2, <2>15, <2>16 DEF t, rest, u, f
<1> QED
  BY <1>1, <1>2

\* do_pgfault: who comes is the newest.
LEMMA PageInOrder ==
  ASSUME NEW s, Kept(s), NEW f \in s.free, NEW v \in Page, s.pte[v] \notin Frame,
         NEW arr, Queued(s, arr)
  PROVE  LET t == do_pgfault(s, f, v)
         IN  /\ Queued(t, Append(arr, v))
             /\ \A x \in Page : s.pte[x] \in Frame => t.pte[x] \in Frame
<1> DEFINE t == do_pgfault(s, f, v)
           n == Len(s.queue)
           new == Append(arr, v)
<1>1. /\ s \in State /\ IsInjective(s.queue) /\ s.queue \in Seq(Frame)
      /\ s.pte \in [Page -> Nat \cup Frame]
      /\ f \in Frame /\ f \notin Range(s.queue)
  BY DEF Kept, Accounted, State
<1>2. n \in Nat /\ DOMAIN s.queue = 1..n /\ \A i \in 1..n : s.queue[i] \in Frame
  BY <1>1, LenProperties, ElementOfSeq
<1>3. t.pte = [s.pte EXCEPT ![v] = f]
  <2>1. s.pte[v] \in {0, swap_entry(v)}
    BY DEF Kept, OwnSlot
  <2>2. s \in State /\ IsInjective(s.queue) /\ f \in Frame /\ f \notin Range(s.queue)
    BY <1>1
  <2> HIDE DEF n, new
  <2>3. /\ t \in State
        /\ IsInjective(t.queue) /\ Range(t.queue) = Range(s.queue) \cup {f}
        /\ t.pte = [s.pte EXCEPT ![v] = f]
        /\ t.free = s.free \ {f} /\ t.disk = s.disk
        /\ s.pte[v] = 0 => t.data = s.data /\ t.pra_vaddr = [s.pra_vaddr EXCEPT ![f] = v]
        /\ s.pte[v] # 0 =>
             t.data = [s.data EXCEPT ![f] = s.disk[v + 1]] /\ t.pra_vaddr = s.pra_vaddr
    BY <2>1, <2>2, PageIn
  <2> QED
    BY <2>3
<1>4. t.sm = s.sm /\ t.visited = visited_on_map(s, f) /\ t.queue = <<f>> \o s.queue
  BY <1>1, PageInList
<1> HIDE DEF t
<1>5. Len(t.queue) = n + 1 /\ \A i \in 1..(n + 1) : t.queue[i] = IF i = 1 THEN f ELSE s.queue[i - 1]
  BY <1>1, <1>4, ListAddHead
<1>7. arr \in Seq(Page) /\ Len(arr) = n /\ \A i \in 1..n : arr[i] \in Page /\ s.pte[arr[i]] = s.queue[n + 1 - i]
  BY ElementOfSeq DEF Queued
<1>8. /\ new \in Seq(Page) /\ Len(new) = n + 1
      /\ new[n + 1] = v /\ \A i \in 1..n : new[i] = arr[i]
  BY <1>7, AppendProperties
<1> HIDE DEF new, n
<1>9. ASSUME NEW i \in 1..(n + 1) PROVE t.pte[new[i]] = t.queue[(n + 1) + 1 - i]
  <2>1. CASE i = n + 1
    <3>1. (n + 1) + 1 - i = 1 /\ 1 \in 1..(n + 1)
      BY <1>2, <2>1
    <3> QED
      BY <1>1, <1>3, <1>5, <1>8, <2>1, <3>1
  <2>2. CASE i # n + 1
    <3>1. i \in 1..n /\ n + 1 - i \in 1..n
      BY <1>2, <2>2
    <3>2. (n + 1) + 1 - i \in 1..(n + 1) /\ (n + 1) + 1 - i # 1 /\ ((n + 1) + 1 - i) - 1 = n + 1 - i
      BY <1>2, <3>1
    <3>3. t.queue[(n + 1) + 1 - i] = s.queue[n + 1 - i]
      BY <1>5, <3>2
    <3>4. new[i] = arr[i] /\ arr[i] \in Page /\ s.pte[arr[i]] = s.queue[n + 1 - i] /\ s.queue[n + 1 - i] \in Frame
      BY <1>2, <1>7, <1>8, <3>1
    <3>5. arr[i] # v
      BY <3>4
    <3> QED
      BY <1>1, <1>3, <3>3, <3>4, <3>5
  <2> QED
    BY <2>1, <2>2
<1>10. Queued(t, new)
  BY <1>5, <1>8, <1>9 DEF Queued
<1>11. \A x \in Page : s.pte[x] \in Frame => t.pte[x] \in Frame
  BY <1>1, <1>3
<1> QED
  BY <1>10, <1>11 DEF t, new

\* A page that faults has no frame.
LEMMA FaultsWithoutFrame ==
  ASSUME NEW v \in Page, Fault(v)
  PROVE  mm.pte[v] \notin Frame
<1> SUFFICES ASSUME mm.pte[v] \in Frame PROVE FALSE
  OBVIOUS
<1>1. \A f \in Frame : ~translates(v, f)
  BY DEF Fault
<1>2. \A g \in Frame : <<v, g>> \notin tlb
  BY <1>1 DEF translates
<1> QED
  BY <1>1, <1>2 DEF translates

\* A page fault evicts the oldest page if any.
LEMMA FaultOrder ==
  ASSUME Reswap = FALSE, IInv, OrderInv, NEW v \in Page, Fault(v)
  PROVE  /\ OrderInv'
         /\ mm.sm # "lru" =>
              \A x \in Page : mm.pte[x] \in Frame /\ mm'.pte[x] \notin Frame => x = Head(arrived)
<1> DEFINE s == alloc(mm)
           rest == IF mm.free = {} THEN RemoveFirst(arrived, mm.pra_vaddr[victim(mm)]) ELSE arrived
<1>1. Kept(mm) /\ mm.pte[v] \notin Frame
  BY FaultsWithoutFrame DEF IInv
<1>2. mm.free = {} => mm.pte[mm.pra_vaddr[victim(mm)]] = victim(mm)
  BY DEF Fault
<1>3. Kept(s) /\ s.pte[v] = mm.pte[v]
  BY <1>1, <1>2, AllocKeeps
<1>4. PICK f \in s.free : mm' = do_pgfault(s, f, v)
  BY DEF Fault
<1>5. mm'.sm = mm.sm
  <2>1. s.sm = mm.sm
    BY <1>1, SwapOutList DEF alloc, Kept
  <2>2. s \in State /\ f \in Frame
    BY <1>3 DEF Kept, State
  <2> HIDE DEF s
  <2> QED
    BY <1>4, <2>1, <2>2, PageInList
<1>6. CASE mm.sm = "lru"
  BY <1>5, <1>6 DEF OrderInv
<1>7. CASE mm.sm # "lru"
  <2>1. Queued(mm, arrived)
    BY <1>7 DEF OrderInv
  <2>2. /\ Queued(s, rest)
        /\ \A x \in Page : mm.pte[x] \in Frame /\ s.pte[x] \notin Frame => x = Head(arrived)
    BY <1>1, <1>2, <1>7, <2>1, AllocOrder
  <2>3. arrived' = Append(rest, v)
    BY DEF Fault
  <2> HIDE DEF s, rest
  <2>4. /\ Queued(mm', arrived')
        /\ \A x \in Page : s.pte[x] \in Frame => mm'.pte[x] \in Frame
    BY <1>1, <1>3, <1>4, <2>2, <2>3, PageInOrder
  <2>5. OrderInv'
    BY <2>4 DEF OrderInv
  <2> QED
    BY <2>2, <2>4, <2>5
<1> QED
  BY <1>6, <1>7

\* A use of a page changes nothing of this: no policy sees it.
LEMMA AccessKeepsList ==
  ASSUME IInv, NEW v \in Page, NEW write \in BOOLEAN, Access(v, write)
  PROVE  /\ mm'.sm = mm.sm /\ mm'.visited = mm.visited /\ mm'.queue = mm.queue /\ mm'.pte = mm.pte
         /\ arrived' = arrived
<1>1. PICK f \in Frame : mm' = mm \/ mm' = [mm EXCEPT !.data[f] = <<v, wrote'[v]>>]
  BY DEF Access
<1>2. mm \in State
  BY DEF IInv, Kept
<1>3. arrived' = arrived
  BY DEF Access
<1> QED
  BY <1>1, <1>2, <1>3 DEF State

\* Under fifo and clock pages leave in the order they arrived in: both always take the last
\* of the list, whatever the number of frames.
THEOREM OldestEvicted ==
  ASSUME Reswap = FALSE
  PROVE  Spec => EvictsOldest
<1>1. Init => OrderInv
  <2> SUFFICES ASSUME Init PROVE OrderInv
    OBVIOUS
  <2>1. mm.queue = <<>> /\ arrived = <<>>
    BY DEF Init
  <2>2. Len(<<>>) = 0 /\ <<>> \in Seq(Page) /\ 1..0 = {}
    BY EmptySeq
  <2> QED
    BY <2>1, <2>2 DEF Queued, OrderInv
<1>2. ASSUME IInv, OrderInv, NEW v \in Page, NEW write \in BOOLEAN, Access(v, write)
      PROVE  OrderInv' /\ mm'.pte = mm.pte
  <2>1. mm'.sm = mm.sm /\ mm'.queue = mm.queue /\ mm'.pte = mm.pte /\ arrived' = arrived
    BY <1>2, AccessKeepsList
  <2> QED
    BY <1>2, <2>1 DEF OrderInv, Queued
<1>3. IInv /\ OrderInv /\ [Next]_vars => OrderInv'
  <2> SUFFICES ASSUME IInv, OrderInv, [Next]_vars PROVE OrderInv'
    OBVIOUS
  <2>1. ASSUME NEW v \in Page, Fault(v) PROVE OrderInv'
    BY <2>1, FaultOrder
  <2>2. ASSUME NEW v \in Page, NEW write \in BOOLEAN, Access(v, write) PROVE OrderInv'
    BY <1>2, <2>2
  <2>3. CASE UNCHANGED vars
    BY <2>3 DEF vars, OrderInv
  <2> QED
    BY <2>1, <2>2, <2>3 DEF Next
<1>4. IInv /\ OrderInv /\ [Next]_vars =>
        [\A v \in Page :
           mm.sm # "lru" /\ mm.pte[v] \in Frame /\ mm'.pte[v] \notin Frame => v = Head(arrived)]_vars
  <2> SUFFICES ASSUME IInv, OrderInv, [Next]_vars, NEW v \in Page,
                      mm.sm # "lru", mm.pte[v] \in Frame, mm'.pte[v] \notin Frame
               PROVE  v = Head(arrived)
    OBVIOUS
  <2>1. ASSUME NEW x \in Page, Fault(x) PROVE v = Head(arrived)
    BY <2>1, FaultOrder
  <2>2. ASSUME NEW x \in Page, NEW write \in BOOLEAN, Access(x, write) PROVE FALSE
    BY <1>2, <2>2
  <2>3. CASE UNCHANGED vars
    BY <2>3 DEF vars
  <2> QED
    BY <2>1, <2>2, <2>3 DEF Next
<1> QED
  BY <1>1, <1>3, <1>4, Invariance, PTL DEF Spec, EvictsOldest

-----------------------------------------------------------------------------
(* What page->visited says under lru. *)

\* alloc_pages takes the oldest page and halves the others once more.
LEMMA AllocAged ==
  ASSUME NEW w \in Nat, NEW bit, Bits(w, bit), Enough(w), NEW s, Kept(s), Aged(s, 0, w, bit)
  PROVE  \E extra \in {0, 1} : Aged(alloc(s), extra, w, bit)
<1> DEFINE t == alloc(s)
           n == Len(s.queue)
<1>1. CASE s.free # {}
  BY <1>1 DEF alloc
<1>2. CASE s.free = {}
  <2>1. s \in State /\ IsInjective(s.queue) /\ Range(s.queue) = Frame /\ s.queue \in Seq(Frame)
    BY <1>2 DEF Kept, Accounted, State
  <2>2. Frame # {}
    BY PoliciesAssumption
  <2>3. victim_place(s) = n /\ n \in Nat \ {0} /\ n \in 1..n
    BY <2>1, <2>2, VictimLast
  <2>4. t = swap_out(s)
    BY <1>2 DEF alloc
  <2>5. t.sm = s.sm /\ t.visited = visited_on_victim(s) /\ t.queue = RemoveAt(s.queue, n)
    BY <2>1, <2>3, <2>4, SwapOutList
  <2>6. LET d == RemoveAt(s.queue, n)
        IN  /\ Len(d) = Len(s.queue) - 1
            /\ \A i \in 1..Len(d) : d[i] = IF i < n THEN s.queue[i] ELSE s.queue[i + 1]
    BY <2>1, <2>3, ListDelete
  <2> HIDE DEF n, t
  <2>7. Len(t.queue) = n - 1 /\ \A i \in 1..(n - 1) : t.queue[i] = s.queue[i]
    BY <2>3, <2>5, <2>6 DEF n
  <2>8. Aged(t, 1, w, bit)
    <3>1. /\ t.sm = s.sm /\ t.visited = visited_on_victim(s)
          /\ Len(t.queue) = Len(s.queue) - 1 /\ \A i \in 1..(Len(s.queue) - 1) : t.queue[i] = s.queue[i]
      BY <2>5, <2>7 DEF n
    <3> QED
      BY <2>1, <3>1, AgedOut
  <2> QED
    BY <2>8 DEF t
<1> QED
  BY <1>1, <1>2

\* do_pgfault: who comes has its top bit, the others are halved once more.
LEMMA PageInAged ==
  ASSUME NEW w \in Nat, NEW bit, Bits(w, bit),
         NEW s, Kept(s), NEW f \in s.free, NEW v \in Page,
         NEW extra \in {0, 1}, Aged(s, extra, w, bit)
  PROVE  Aged(do_pgfault(s, f, v), 0, w, bit)
<1> DEFINE t == do_pgfault(s, f, v)
           n == Len(s.queue)
<1>1. /\ s \in State /\ IsInjective(s.queue) /\ s.queue \in Seq(Frame)
      /\ f \in Frame /\ f \notin Range(s.queue)
  BY DEF Kept, Accounted, State
<1>2. t.sm = s.sm /\ t.visited = visited_on_map(s, f) /\ t.queue = <<f>> \o s.queue
  BY <1>1, PageInList
<1> HIDE DEF t
<1>3. Len(t.queue) = n + 1 /\ \A i \in 1..(n + 1) : t.queue[i] = IF i = 1 THEN f ELSE s.queue[i - 1]
  BY <1>1, <1>2, ListAddHead
<1> HIDE DEF n
<1>4. Aged(t, 0, w, bit)
  BY <1>1, <1>2, <1>3, AgedIn DEF n
<1> QED
  BY <1>4 DEF t

\* A page fault keeps the ages.
LEMMA FaultAged ==
  ASSUME NEW w \in Nat, NEW bit, Bits(w, bit), Enough(w),
         Reswap = FALSE, IInv, Aged(mm, 0, w, bit), NEW v \in Page, Fault(v)
  PROVE  Aged(mm', 0, w, bit)
<1> DEFINE s == alloc(mm)
<1>1. Kept(mm) /\ mm.pte[v] \notin Frame
  BY FaultsWithoutFrame DEF IInv
<1>2. mm.free = {} => mm.pte[mm.pra_vaddr[victim(mm)]] = victim(mm)
  BY DEF Fault
<1>3. Kept(s)
  BY <1>1, <1>2, AllocKeeps
<1>4. PICK extra \in {0, 1} : Aged(s, extra, w, bit)
  BY <1>1, AllocAged
<1>5. PICK f \in s.free : mm' = do_pgfault(s, f, v)
  BY DEF Fault
<1> HIDE DEF s
<1> QED
  BY <1>3, <1>4, <1>5, PageInAged

\* lru's list is in the order of page->visited as long as that, halved twice for each page
\* that comes, has bits for all frames.  The code has 32 bits, w = 31: for up to 17 frames.
THEOREM VisitedOrdersPages ==
  ASSUME NEW w \in Nat, NEW bit, Bits(w, bit), Enough(w), Reswap = FALSE
  PROVE  Spec => []VisitedTellsAge
<1> DEFINE AgeInv == Aged(mm, 0, w, bit)
<1>1. Init => AgeInv
  <2> SUFFICES ASSUME Init PROVE AgeInv
    OBVIOUS
  <2>1. mm.queue = <<>>
    BY DEF Init
  <2>2. Len(<<>>) = 0 /\ 1..0 = {}
    BY EmptySeq
  <2> DEFINE age == [i \in 1..0 |-> 0]
  <2>3. age \in [1..Len(mm.queue) -> Nat]
    BY <2>1, <2>2
  <2>4. AgedBy(mm, age, 0, w, bit)
    BY <2>1, <2>2, <2>3 DEF AgedBy
  <2> QED
    BY <2>3, <2>4 DEF Aged
<1>2. IInv /\ AgeInv /\ [Next]_vars => AgeInv'
  <2> SUFFICES ASSUME IInv, AgeInv, [Next]_vars PROVE AgeInv'
    OBVIOUS
  <2>1. ASSUME NEW v \in Page, Fault(v) PROVE AgeInv'
    BY <2>1, FaultAged
  <2>2. ASSUME NEW v \in Page, NEW write \in BOOLEAN, Access(v, write) PROVE AgeInv'
    <3>1. mm'.sm = mm.sm /\ mm'.visited = mm.visited /\ mm'.queue = mm.queue
      BY <2>2, AccessKeepsList
    <3> QED
      BY <3>1 DEF Aged, AgedBy
  <2>3. CASE UNCHANGED vars
    BY <2>3 DEF vars
  <2> QED
    BY <2>1, <2>2, <2>3 DEF Next
<1>3. IInv /\ AgeInv => VisitedTellsAge
  BY AgesTell DEF IInv, Kept, Accounted, VisitedTellsAge
<1> QED
  BY <1>1, <1>2, <1>3, Invariance, PTL DEF Spec
=============================================================================
