------------------------- MODULE AddressSpaceProofs -------------------------
(***************************************************************************)
(* Address spaces share nothing.  The page tables are a forest: every      *)
(* table and every page of a program hangs in one place of one address     *)
(* space, whatever forks, execs, failed execs, exits and page faults.      *)
(* First the types: what each loop of PageTable leaves of physical memory, *)
(* and that the processor always uses the page directory of the current    *)
(* process.  Then the forest, operator by operator, and what follows: each *)
(* page has one use, and each process a memory of its own.                 *)
(***************************************************************************)
EXTENDS AddressSpace, ListProofs, FiniteSetTheorems

\* What physical memory is.  That no count of references is negative is more than a type:
\* it takes that no page is mapped twice (TypeCorrect).
Content == Value \cup {TABLE, BOOT}
Mem == [free : SUBSET Page, ref : [Page -> Int], table : [Page -> [Index -> Page \cup {invalid}]],
        data : [Page -> Content], panic : BOOLEAN]

Space == [pgdir : Page, vmas : Seq(Vma)]

\* The page directory of the address space s.
root(s) == IF s = none THEN BOOT ELSE s.pgdir

TypeInv ==
  /\ mem \in Mem
  /\ mm \in [Thread -> Space \cup {none}]
  /\ cr3 \in [Thread -> Page \cup {BOOT}]
  /\ alive \subseteq Proc
  /\ current \in alive \cup {initproc}
  /\ satp \in Page \cup {BOOT}

\* cr3 of whoever can be switched to is up to date, and a process has lost its address space
\* when it has exited.
Cr3Current == \A p \in alive \cup {initproc} : cr3[p] = root(mm[p])
OnlyTheLiving == \A p \in Thread \ alive : mm[p] = none

SatpInv == TypeInv /\ Cr3Current /\ OnlyTheLiving /\ SatpCurrent

-----------------------------------------------------------------------------
(* Numbers. *)

LEMMA Sizes ==
  /\ PTSIZE \in Nat \ {0} /\ PDSIZE \in Nat \ {0} /\ USERTOP \in Nat \ {0}
  /\ npage \in Nat \ {0} /\ NPTEENTRY \in Nat \ {0} /\ NPDEENTRY \in Nat \ {0} /\ NROOT \in Nat \ {0}
  /\ USERTOP = PDSIZE * NROOT
<1>1. npage \in Nat \ {0} /\ NPTEENTRY \in Nat \ {0} /\ NPDEENTRY \in Nat \ {0} /\ NROOT \in Nat \ {0}
  BY PageTableAssumption
<1>2. \A a, b \in Nat \ {0} : a * b \in Nat \ {0}
  OBVIOUS
<1> QED
  BY <1>1, <1>2 DEF PTSIZE, PDSIZE, USERTOP

\* A directory or page table of any level has its entries in Index.
LEMMA Entries ==
  /\ Index = 0..(NENTRY - 1) /\ NENTRY \in Nat
  /\ NPTEENTRY <= NENTRY /\ NPDEENTRY <= NENTRY /\ NROOT <= NENTRY
<1> DEFINE N == {NPTEENTRY, NPDEENTRY, NROOT}
<1>1. \E n \in N : \A k \in N : k <= n
  <2>1. NPTEENTRY \in Nat /\ NPDEENTRY \in Nat /\ NROOT \in Nat
    BY Sizes
  <2> QED
    BY <2>1
<1>2. NENTRY \in N /\ \A k \in N : k <= NENTRY
  BY <1>1 DEF NENTRY
<1> QED
  BY <1>2, Sizes DEF Index

\* Division below a product.
LEMMA DivBelow ==
  ASSUME NEW n \in Nat \ {0}, NEW k \in Nat, NEW a \in 0..(n * k - 1)
  PROVE  a \div n \in 0..(k - 1)
<1>1. n * k \in Nat /\ a \in Nat /\ a < n * k
  OBVIOUS
<1>2. PICK q \in Int, r \in 0..(n - 1) : a \div n = q /\ a = n * q + r
  OBVIOUS
<1>3. q < k
  <2>1. ASSUME q >= k PROVE FALSE
    <3>1. n * q >= n * k
      BY <2>1
    <3> QED
      BY <1>1, <1>2, <3>1
  <2> QED
    BY <2>1
<1>4. q >= 0
  <2>1. ASSUME q <= -1 PROVE FALSE
    <3>1. n * q <= n * (-1)
      BY <2>1
    <3> QED
      BY <1>1, <1>2, <3>1
  <2> QED
    BY <2>1
<1> QED
  BY <1>2, <1>3, <1>4

\* Division keeps the order.
LEMMA DivOrder ==
  ASSUME NEW n \in Nat \ {0}, NEW a \in Nat, NEW b \in Nat, a <= b
  PROVE  a \div n <= b \div n
<1>1. PICK q \in Int, r \in 0..(n - 1) : a \div n = q /\ a = n * q + r
  OBVIOUS
<1>2. PICK t \in Int, u \in 0..(n - 1) : b \div n = t /\ b = n * t + u
  OBVIOUS
<1>3. ASSUME q >= t + 1 PROVE FALSE
  <2>1. n * q >= n * (t + 1)
    BY <1>3
  <2>2. n * (t + 1) = n * t + n
    OBVIOUS
  <2> QED
    BY <1>1, <1>2, <2>1, <2>2
<1> QED
  BY <1>1, <1>2, <1>3

\* Each address has an entry in each of its tables.
LEMMA Indices ==
  ASSUME NEW la \in Addr
  PROVE  /\ PTX(la) \in Index /\ PDX0(la) \in Index /\ PDX1(la) \in Index
         /\ PDX1(la) \in 0..(NROOT - 1)
<1>1. la \in Nat /\ la \in 0..(PDSIZE * NROOT - 1)
  BY Sizes DEF Addr
<1>2. PDX1(la) \in 0..(NROOT - 1)
  BY <1>1, Sizes, DivBelow DEF PDX1
<1>3. \A n \in Nat \ {0}, a \in Int : a % n \in 0..(n - 1)
  OBVIOUS
<1>4. PTX(la) \in 0..(NPTEENTRY - 1)
  BY <1>1, <1>3, Sizes DEF PTX
<1>5. PDX0(la) \in 0..(NPDEENTRY - 1)
  <2>1. la \div PTSIZE \in Int
    BY <1>1, Sizes
  <2> QED
    BY <1>3, <2>1, Sizes DEF PDX0
<1> QED
  BY <1>2, <1>4, <1>5, Sizes, Entries

-----------------------------------------------------------------------------
(* Pages and single addresses. *)

LEMMA Lowest ==
  ASSUME NEW S \in SUBSET Page, S # {}
  PROVE  lowest(S) \in S /\ lowest(S) \in Page /\ \A q \in S : lowest(S) <= q
<1>1. S \in SUBSET Nat
  BY DEF Page
<1>2. \E p \in S : \A q \in S : p <= q
  BY <1>1, LeastNat
<1> QED
  BY <1>2 DEF lowest

LEMMA Pages == Page \subseteq Nat \ {0} /\ invalid \notin Page /\ invalid = 0 /\ empty \in [Index -> Page \cup {invalid}]
  BY DEF Page, invalid, empty

LEMMA Contents == ZERO \in Content /\ TABLE \in Content /\ BOOT \in Content /\ Value \subseteq Content
  BY AddressSpaceAssumption DEF Content

LEMMA StopType ==
  ASSUME NEW m \in Mem
  PROVE  stop(m) \in Mem /\ stop(m).panic
BY DEF stop, Mem

LEMMA TakeType ==
  ASSUME NEW m \in Mem
  PROVE  take(m) \in Mem
BY DEF take, Mem

LEMMA FreeType ==
  ASSUME NEW m \in Mem, NEW p \in Page
  PROVE  free_page(m, p) \in Mem
<1>1. [m.data EXCEPT ![p] = IF @ = TABLE THEN ZERO ELSE @] \in [Page -> Content]
  BY Contents DEF Mem
<1>2. [m.table EXCEPT ![p] = empty] \in [Page -> [Index -> Page \cup {invalid}]]
  BY Pages DEF Mem
<1>3. [m.ref EXCEPT ![p] = 0] \in [Page -> Int] /\ m.free \cup {p} \in SUBSET Page
  BY DEF Mem
<1> QED
  BY <1>1, <1>2, <1>3 DEF Mem, free_page

LEMMA AddTableType ==
  ASSUME NEW m \in Mem, NEW dir, NEW i, NEW p \in Page
  PROVE  add_table(m, dir, i, p) \in Mem
<1> DEFINE T == [Index -> Page \cup {invalid}]
           t == [m.table EXCEPT ![p] = empty]
<1>1. t \in [Page -> T]
  BY Pages DEF Mem
<1> HIDE DEF t
<1>2. [t EXCEPT ![dir][i] = p] \in [Page -> T]
  <2>1. ASSUME dir \in Page PROVE [t[dir] EXCEPT ![i] = p] \in T
    BY <1>1, <2>1
  <2> QED
    BY <1>1, <2>1
<1>3. [m.ref EXCEPT ![p] = 1] \in [Page -> Int] /\ [m.data EXCEPT ![p] = TABLE] \in [Page -> Content]
  BY Contents DEF Mem
<1> QED
  BY <1>2, <1>3 DEF Mem, add_table, t

LEMMA AllocTableType ==
  ASSUME NEW m \in Mem, NEW dir, NEW i
  PROVE  alloc_table(m, dir, i) \in Mem
<1>1. m.free # {} => lowest(m.free) \in Page
  BY Lowest DEF Mem
<1> QED
  BY <1>1, StopType, TakeType, AddTableType DEF alloc_table

LEMMA GetPteType ==
  ASSUME NEW m \in Mem, NEW pgdir, NEW la
  PROVE  get_pte(m, pgdir, la) \in Mem
BY AllocTableType DEF get_pte, get_pt

\* A page table that is found is a page, and so is the page found in it.
LEMMA FindPtType ==
  ASSUME NEW m \in Mem, NEW pgdir \in Page, NEW la \in Addr
  PROVE  find_pt(m, pgdir, la) \in Page \cup {invalid} /\ pte(m, pgdir, la) \in Page \cup {invalid}
<1>1. PTX(la) \in Index /\ PDX0(la) \in Index /\ PDX1(la) \in Index
  BY Indices
<1>2. find_pt(m, pgdir, la) \in Page \cup {invalid}
  BY <1>1 DEF Mem, find_pt
<1> QED
  BY <1>1, <1>2 DEF Mem, pte

LEMMA UnrefType ==
  ASSUME NEW m \in Mem, NEW p \in Page
  PROVE  unref(m, p) \in Mem
<1>1. m.ref \in [Page -> Int] /\ m.ref[p] - 1 \in Int
  BY DEF Mem
<1>2. [m.ref EXCEPT ![p] = m.ref[p] - 1] \in [Page -> Int]
  BY <1>1
<1>3. [m EXCEPT !.ref[p] = @ - 1] \in Mem
  BY <1>2 DEF Mem
<1> QED
  BY <1>3, FreeType DEF unref

LEMMA SetEntryType ==
  ASSUME NEW m \in Mem, NEW pt, NEW i, NEW p \in Page \cup {invalid}
  PROVE  [m EXCEPT !.table[pt][i] = p] \in Mem
<1> DEFINE T == [Index -> Page \cup {invalid}]
<1>1. ASSUME pt \in Page PROVE [m.table[pt] EXCEPT ![i] = p] \in T
  BY <1>1 DEF Mem
<1>2. [m.table EXCEPT ![pt][i] = p] \in [Page -> T]
  BY <1>1 DEF Mem
<1> QED
  BY <1>2 DEF Mem

LEMMA RemoveType ==
  ASSUME NEW m \in Mem, NEW pgdir \in Page, NEW la \in Addr
  PROVE  page_remove(m, pgdir, la) \in Mem
<1> DEFINE p == pte(m, pgdir, la)
           pt == find_pt(m, pgdir, la)
           cleared == [m EXCEPT !.table[pt][PTX(la)] = invalid]
<1> SUFFICES ASSUME p # invalid PROVE clear_pte(m, pt, PTX(la)) \in Mem
  BY DEF page_remove
<1>1. p \in Page /\ p = m.table[pt][PTX(la)]
  BY FindPtType DEF pte
<1>2. cleared \in Mem
  BY SetEntryType
<1> HIDE DEF p, pt, cleared
<1>3. unref(cleared, p) \in Mem
  BY <1>1, <1>2, UnrefType
<1> QED
  BY <1>1, <1>3 DEF clear_pte, cleared

LEMMA InsertType ==
  ASSUME NEW m \in Mem, NEW pgdir \in Page, NEW page \in Page, NEW la \in Addr
  PROVE  page_insert(m, pgdir, page, la) \in Mem
<1> DEFINE g == get_pte(m, pgdir, la)
           counted == [g EXCEPT !.ref[page] = @ + 1]
           r == page_remove(counted, pgdir, la)
<1>1. g \in Mem
  BY GetPteType
<1>2. counted \in Mem
  <2> HIDE DEF g
  <2>1. g.ref \in [Page -> Int] /\ g.ref[page] + 1 \in Int
    BY <1>1 DEF Mem
  <2>2. [g.ref EXCEPT ![page] = g.ref[page] + 1] \in [Page -> Int]
    BY <2>1
  <2> QED
    BY <1>1, <2>2 DEF Mem
<1>3. r \in Mem
  <2> HIDE DEF counted
  <2> QED
    BY <1>2, RemoveType
<1>4. set_pte(r, pgdir, page, la) \in Mem
  <2> HIDE DEF r
  <2> QED
    BY <1>3, SetEntryType DEF set_pte
<1> QED
  BY <1>1, <1>4 DEF page_insert, map_page

LEMMA AllocPageType ==
  ASSUME NEW m \in Mem, NEW pgdir \in Page, NEW la \in Addr
  PROVE  pgdir_alloc_page(m, pgdir, la) \in Mem
<1>1. m.free # {} => lowest(m.free) \in Page
  BY Lowest DEF Mem
<1>2. take(m) \in Mem /\ stop(m) \in Mem
  BY TakeType, StopType
<1> QED
  BY <1>1, <1>2, InsertType DEF pgdir_alloc_page

LEMMA NewPageType ==
  ASSUME NEW m \in Mem, NEW pgdir \in Page, NEW la \in Addr, NEW v \in Content
  PROVE  new_page(m, pgdir, la, v) \in Mem
<1> DEFINE a == pgdir_alloc_page(m, pgdir, la)
<1>1. a \in Mem
  BY AllocPageType
<1> HIDE DEF a
<1>2. [a EXCEPT !.data[pte(a, pgdir, la)] = v] \in Mem
  BY <1>1 DEF Mem
<1> QED
  BY <1>1, <1>2 DEF new_page, fill, a

LEMMA CopyPageType ==
  ASSUME NEW m \in Mem, NEW to \in Page, NEW from \in Page, NEW la \in Addr, pte(m, from, la) # invalid
  PROVE  copy_page(m, to, from, la) \in Mem
<1>1. m.data[pte(m, from, la)] \in Content
  BY FindPtType DEF Mem
<1>2. get_pte(m, to, la) \in Mem
  BY GetPteType
<1> QED
  BY <1>1, <1>2, NewPageType DEF copy_page
-----------------------------------------------------------------------------
(* Loops. *)

\* d is what a loop has after each of its turns: m first, and result in the end.
Runs(d, first, last, m, result) ==
  /\ d[first] = m /\ d[last] = result
  /\ \A i \in first..last : d[i] \in Mem

\* The addresses of an area.
LEMMA VmaFacts ==
  ASSUME NEW v \in Vma
  PROVE  /\ v.vm_start \in Nat /\ v.vm_end \in Nat /\ v.vm_start < v.vm_end /\ v.vm_end <= USERTOP
         /\ \A i \in (v.vm_start + 1)..v.vm_end : i - 1 \in Addr
BY Sizes DEF Vma, Addr

\* unmap_range.
LEMMA UnmapRangeLoop ==
  ASSUME NEW m \in Mem, NEW pgdir \in Page, NEW v \in Vma
  PROVE  \E done :
           /\ Runs(done, v.vm_start, v.vm_end, m, unmap_range(m, pgdir, v.vm_start, v.vm_end))
           /\ \A i \in (v.vm_start + 1)..v.vm_end : done[i] = page_remove(done[i - 1], pgdir, i - 1)
<1> DEFINE a == v.vm_start
           b == v.vm_end
           turn(x, i) == page_remove(x, pgdir, i - 1)
           F == [i \in (a + 1)..b |-> [x \in Mem |-> turn(x, i)]]
           Does(g) == g = [i \in a..b |-> IF i = a THEN m ELSE turn(g[i - 1], i)]
           done == CHOOSE g : Does(g)
<1>1. a \in Nat /\ b \in Nat /\ a <= b /\ m \in Mem
  BY VmaFacts
<1>2. unmap_range(m, pgdir, v.vm_start, v.vm_end) = done[b]
  BY DEF unmap_range
<1>3. ASSUME NEW i \in (a + 1)..b, NEW x \in Mem PROVE turn(x, i) \in Mem
  <2>1. i - 1 \in Addr
    BY VmaFacts
  <2> QED
    BY <2>1, RemoveType
<1> HIDE DEF turn, a, b
<1>4. Keeps(F, Mem, a, b)
  BY <1>3 DEF Keeps
<1>5. PICK g : Computes(g, F, Mem, m, a, b)
  <2> HIDE DEF F
  <2> QED
    BY <1>1, <1>4, LoopExists
<1>6. Does(g)
  <2>1. \A i \in a..b : i # a => i \in (a + 1)..b /\ g[i - 1] \in Mem
    BY <1>1, <1>5 DEF Computes
  <2>2. \A i \in a..b : i # a => F[i][g[i - 1]] = turn(g[i - 1], i)
    BY <2>1
  <2> HIDE DEF F
  <2> QED
    BY <1>1, <1>5, <2>1, <2>2 DEF Computes
<1>7. Does(done)
  <2> HIDE DEF Does
  <2> QED
    BY <1>6
<1> HIDE DEF done, F
<1>8. done[a] = m /\ \A i \in (a + 1)..b : done[i] = turn(done[i - 1], i)
  BY <1>1, <1>7
<1> HIDE DEF Does
<1>9. \A i \in a..b : done[i] \in Mem
  <2>1. done[a] \in Mem /\ \A i \in (a + 1)..b : done[i - 1] \in Mem => done[i] \in Mem
    BY <1>1, <1>3, <1>8
  <2> QED
    BY <1>1, <2>1, LoopKeeps
<1>10. Runs(done, a, b, m, done[b])
  BY <1>1, <1>8, <1>9 DEF Runs
<1> QED
  BY <1>2, <1>8, <1>10 DEF a, b, turn

LEMMA UnmapRangeType ==
  ASSUME NEW m \in Mem, NEW pgdir \in Page, NEW v \in Vma
  PROVE  unmap_range(m, pgdir, v.vm_start, v.vm_end) \in Mem
<1>1. PICK done :
        /\ Runs(done, v.vm_start, v.vm_end, m, unmap_range(m, pgdir, v.vm_start, v.vm_end))
        /\ \A i \in (v.vm_start + 1)..v.vm_end : done[i] = page_remove(done[i - 1], pgdir, i - 1)
  BY UnmapRangeLoop
<1>2. v.vm_end \in v.vm_start..v.vm_end
  BY VmaFacts
<1> QED
  BY <1>1, <1>2 DEF Runs

\* copy_range.
LEMMA CopyRangeLoop ==
  ASSUME NEW m \in Mem, NEW to \in Page, NEW from \in Page, NEW v \in Vma
  PROVE  \E done :
           /\ Runs(done, v.vm_start, v.vm_end, m, copy_range(m, to, from, v.vm_start, v.vm_end))
           /\ \A i \in (v.vm_start + 1)..v.vm_end : done[i] = IF done[i - 1].panic \/ pte(done[i - 1], from, i - 1) = invalid THEN done[i - 1]
                       ELSE copy_page(done[i - 1], to, from, i - 1)
<1> DEFINE a == v.vm_start
           b == v.vm_end
           turn(x, i) == IF x.panic \/ pte(x, from, i - 1) = invalid THEN x
                         ELSE copy_page(x, to, from, i - 1)
           F == [i \in (a + 1)..b |-> [x \in Mem |-> turn(x, i)]]
           Does(g) == g = [i \in a..b |-> IF i = a THEN m ELSE turn(g[i - 1], i)]
           done == CHOOSE g : Does(g)
<1>1. a \in Nat /\ b \in Nat /\ a <= b /\ m \in Mem
  BY VmaFacts
<1>2. copy_range(m, to, from, v.vm_start, v.vm_end) = done[b]
  BY DEF copy_range
<1>3. ASSUME NEW i \in (a + 1)..b, NEW x \in Mem PROVE turn(x, i) \in Mem
  <2>1. i - 1 \in Addr
    BY VmaFacts
  <2> QED
    BY <2>1, CopyPageType
<1> HIDE DEF turn, a, b
<1>4. Keeps(F, Mem, a, b)
  BY <1>3 DEF Keeps
<1>5. PICK g : Computes(g, F, Mem, m, a, b)
  <2> HIDE DEF F
  <2> QED
    BY <1>1, <1>4, LoopExists
<1>6. Does(g)
  <2>1. \A i \in a..b : i # a => i \in (a + 1)..b /\ g[i - 1] \in Mem
    BY <1>1, <1>5 DEF Computes
  <2>2. \A i \in a..b : i # a => F[i][g[i - 1]] = turn(g[i - 1], i)
    BY <2>1
  <2> HIDE DEF F
  <2> QED
    BY <1>1, <1>5, <2>1, <2>2 DEF Computes
<1>7. Does(done)
  <2> HIDE DEF Does
  <2> QED
    BY <1>6
<1> HIDE DEF done, F
<1>8. done[a] = m /\ \A i \in (a + 1)..b : done[i] = turn(done[i - 1], i)
  BY <1>1, <1>7
<1> HIDE DEF Does
<1>9. \A i \in a..b : done[i] \in Mem
  <2>1. done[a] \in Mem /\ \A i \in (a + 1)..b : done[i - 1] \in Mem => done[i] \in Mem
    BY <1>1, <1>3, <1>8
  <2> QED
    BY <1>1, <2>1, LoopKeeps
<1>10. Runs(done, a, b, m, done[b])
  BY <1>1, <1>8, <1>9 DEF Runs
<1> QED
  BY <1>2, <1>8, <1>10 DEF a, b, turn

LEMMA CopyRangeType ==
  ASSUME NEW m \in Mem, NEW to \in Page, NEW from \in Page, NEW v \in Vma
  PROVE  copy_range(m, to, from, v.vm_start, v.vm_end) \in Mem
<1>1. PICK done :
        /\ Runs(done, v.vm_start, v.vm_end, m, copy_range(m, to, from, v.vm_start, v.vm_end))
        /\ \A i \in (v.vm_start + 1)..v.vm_end : done[i] = IF done[i - 1].panic \/ pte(done[i - 1], from, i - 1) = invalid THEN done[i - 1]
                       ELSE copy_page(done[i - 1], to, from, i - 1)
  BY CopyRangeLoop
<1>2. v.vm_end \in v.vm_start..v.vm_end
  BY VmaFacts
<1> QED
  BY <1>1, <1>2 DEF Runs

\* The pages of the stack.
LEMMA AllocRangeLoop ==
  ASSUME NEW m \in Mem, NEW pgdir \in Page, NEW start \in Addr
  PROVE  \E done :
           /\ Runs(done, start, USERTOP, m, alloc_range(m, pgdir, start, USERTOP))
           /\ \A i \in (start + 1)..USERTOP : done[i] = pgdir_alloc_page(done[i - 1], pgdir, i - 1)
<1> DEFINE a == start
           b == USERTOP
           turn(x, i) == pgdir_alloc_page(x, pgdir, i - 1)
           F == [i \in (a + 1)..b |-> [x \in Mem |-> turn(x, i)]]
           Does(g) == g = [i \in a..b |-> IF i = a THEN m ELSE turn(g[i - 1], i)]
           done == CHOOSE g : Does(g)
<1>1. a \in Nat /\ b \in Nat /\ a <= b /\ m \in Mem
  BY Sizes DEF Addr
<1>2. alloc_range(m, pgdir, start, USERTOP) = done[b]
  BY DEF alloc_range
<1>3. ASSUME NEW i \in (a + 1)..b, NEW x \in Mem PROVE turn(x, i) \in Mem
  <2>1. i - 1 \in Addr
    BY Sizes DEF Addr
  <2> QED
    BY <2>1, AllocPageType
<1> HIDE DEF turn, a, b
<1>4. Keeps(F, Mem, a, b)
  BY <1>3 DEF Keeps
<1>5. PICK g : Computes(g, F, Mem, m, a, b)
  <2> HIDE DEF F
  <2> QED
    BY <1>1, <1>4, LoopExists
<1>6. Does(g)
  <2>1. \A i \in a..b : i # a => i \in (a + 1)..b /\ g[i - 1] \in Mem
    BY <1>1, <1>5 DEF Computes
  <2>2. \A i \in a..b : i # a => F[i][g[i - 1]] = turn(g[i - 1], i)
    BY <2>1
  <2> HIDE DEF F
  <2> QED
    BY <1>1, <1>5, <2>1, <2>2 DEF Computes
<1>7. Does(done)
  <2> HIDE DEF Does
  <2> QED
    BY <1>6
<1> HIDE DEF done, F
<1>8. done[a] = m /\ \A i \in (a + 1)..b : done[i] = turn(done[i - 1], i)
  BY <1>1, <1>7
<1> HIDE DEF Does
<1>9. \A i \in a..b : done[i] \in Mem
  <2>1. done[a] \in Mem /\ \A i \in (a + 1)..b : done[i - 1] \in Mem => done[i] \in Mem
    BY <1>1, <1>3, <1>8
  <2> QED
    BY <1>1, <2>1, LoopKeeps
<1>10. Runs(done, a, b, m, done[b])
  BY <1>1, <1>8, <1>9 DEF Runs
<1> QED
  BY <1>2, <1>8, <1>10 DEF a, b, turn

LEMMA AllocRangeType ==
  ASSUME NEW m \in Mem, NEW pgdir \in Page, NEW start \in Addr
  PROVE  alloc_range(m, pgdir, start, USERTOP) \in Mem
<1>1. PICK done :
        /\ Runs(done, start, USERTOP, m, alloc_range(m, pgdir, start, USERTOP))
        /\ \A i \in (start + 1)..USERTOP : done[i] = pgdir_alloc_page(done[i - 1], pgdir, i - 1)
  BY AllocRangeLoop
<1>2. USERTOP \in start..USERTOP
  BY Sizes DEF Addr
<1> QED
  BY <1>1, <1>2 DEF Runs

\* The addresses of a segment, and the area it gets.
LEMMA SegmentFacts ==
  ASSUME NEW seg \in Segment
  PROVE  /\ seg.vm_start \in Nat /\ seg.vm_end \in Nat /\ seg.vm_start < seg.vm_end
         /\ \A i \in (seg.vm_start + 1)..seg.vm_end : i - 1 \in Addr
         /\ seg.image \in Value
         /\ [vm_start |-> seg.vm_start, vm_end |-> seg.vm_end] \in Vma
BY Sizes DEF Segment, Vma, Addr

\* A segment.
LEMMA LoadRangeLoop ==
  ASSUME NEW m \in Mem, NEW pgdir \in Page, NEW seg \in Segment
  PROVE  \E done :
           /\ Runs(done, seg.vm_start, seg.vm_end, m, load_range(m, pgdir, seg))
           /\ \A i \in (seg.vm_start + 1)..seg.vm_end : done[i] = new_page(done[i - 1], pgdir, i - 1, seg.image)
<1> DEFINE a == seg.vm_start
           b == seg.vm_end
           turn(x, i) == new_page(x, pgdir, i - 1, seg.image)
           F == [i \in (a + 1)..b |-> [x \in Mem |-> turn(x, i)]]
           Does(g) == g = [i \in a..b |-> IF i = a THEN m ELSE turn(g[i - 1], i)]
           done == CHOOSE g : Does(g)
<1>1. a \in Nat /\ b \in Nat /\ a <= b /\ m \in Mem
  <2>1. seg.vm_start \in Nat /\ seg.vm_end \in Nat /\ seg.vm_start < seg.vm_end
    BY SegmentFacts
  <2> QED
    BY <2>1
<1>2. load_range(m, pgdir, seg) = done[b]
  BY DEF load_range
<1>3. ASSUME NEW i \in (a + 1)..b, NEW x \in Mem PROVE turn(x, i) \in Mem
  <2>1. i - 1 \in Addr /\ seg.image \in Content
    BY SegmentFacts, Contents
  <2> QED
    BY <2>1, NewPageType
<1> HIDE DEF turn, a, b
<1>4. Keeps(F, Mem, a, b)
  BY <1>3 DEF Keeps
<1>5. PICK g : Computes(g, F, Mem, m, a, b)
  <2> HIDE DEF F
  <2> QED
    BY <1>1, <1>4, LoopExists
<1>6. Does(g)
  <2>1. \A i \in a..b : i # a => i \in (a + 1)..b /\ g[i - 1] \in Mem
    BY <1>1, <1>5 DEF Computes
  <2>2. \A i \in a..b : i # a => F[i][g[i - 1]] = turn(g[i - 1], i)
    BY <2>1
  <2> HIDE DEF F
  <2> QED
    BY <1>1, <1>5, <2>1, <2>2 DEF Computes
<1>7. Does(done)
  <2> HIDE DEF Does
  <2> QED
    BY <1>6
<1> HIDE DEF done, F
<1>8. done[a] = m /\ \A i \in (a + 1)..b : done[i] = turn(done[i - 1], i)
  BY <1>1, <1>7
<1> HIDE DEF Does
<1>9. \A i \in a..b : done[i] \in Mem
  <2>1. done[a] \in Mem /\ \A i \in (a + 1)..b : done[i - 1] \in Mem => done[i] \in Mem
    BY <1>1, <1>3, <1>8
  <2> QED
    BY <1>1, <2>1, LoopKeeps
<1>10. Runs(done, a, b, m, done[b])
  BY <1>1, <1>8, <1>9 DEF Runs
<1> QED
  BY <1>2, <1>8, <1>10 DEF a, b, turn

LEMMA LoadRangeType ==
  ASSUME NEW m \in Mem, NEW pgdir \in Page, NEW seg \in Segment
  PROVE  load_range(m, pgdir, seg) \in Mem
<1>1. PICK done :
        /\ Runs(done, seg.vm_start, seg.vm_end, m, load_range(m, pgdir, seg))
        /\ \A i \in (seg.vm_start + 1)..seg.vm_end : done[i] = new_page(done[i - 1], pgdir, i - 1, seg.image)
  BY LoadRangeLoop
<1>2. seg.vm_end \in seg.vm_start..seg.vm_end
  <2>1. seg.vm_start \in Nat /\ seg.vm_end \in Nat /\ seg.vm_start < seg.vm_end
    BY SegmentFacts
  <2> QED
    BY <2>1
<1> QED
  BY <1>1, <1>2 DEF Runs

\* One directory of exit_range.
LEMMA ExitPd0Type ==
  ASSUME NEW m \in Mem, NEW pgdir \in Page, NEW d1 \in Index, m.table[pgdir][d1] # invalid,
         NEW visited \in SUBSET Index
  PROVE  exit_pd0(m, pgdir, d1, visited) \in Mem
<1> DEFINE T == [Index -> Page \cup {invalid}]
           pd0 == m.table[pgdir][d1]
           pts == {i \in visited : m.table[pd0][i] # invalid /\ unused(m, m.table[pd0][i])}
           free_pd0 == \A i \in visited : m.table[pd0][i] # invalid
           gone == {m.table[pd0][i] : i \in pts} \cup {p \in {pd0} : free_pd0}
           table == [p \in Page |->
                       IF p \in gone THEN empty
                       ELSE IF p = pd0 THEN [i \in Index |-> IF i \in pts THEN invalid ELSE m.table[p][i]]
                       ELSE IF p = pgdir /\ free_pd0 THEN [m.table[p] EXCEPT ![d1] = invalid]
                       ELSE m.table[p]]
<1>1. m.table \in [Page -> T]
  BY DEF Mem
<1>2. pd0 \in Page
  BY <1>1
<1>3. \A i \in pts : m.table[pd0][i] \in Page
  BY <1>1, <1>2
<1>4. gone \in SUBSET Page
  <2> HIDE DEF pts, pd0
  <2> QED
    BY <1>2, <1>3
<1> HIDE DEF pts, free_pd0, gone
<1>5. table \in [Page -> T]
  <2>1. ASSUME NEW p \in Page PROVE table[p] \in T
    <3>1. m.table[p] \in T /\ empty \in T
      BY <1>1, Pages
    <3>2. [i \in Index |-> IF i \in pts THEN invalid ELSE m.table[p][i]] \in T
      BY <3>1
    <3>3. [m.table[p] EXCEPT ![d1] = invalid] \in T
      BY <3>1
    <3> HIDE DEF T
    <3> QED
      BY <3>1, <3>2, <3>3
  <2>2. table = [p \in Page |-> table[p]]
    OBVIOUS
  <2> HIDE DEF table, T
  <2> QED
    BY <2>1, <2>2
<1> HIDE DEF table
<1>6. /\ [p \in Page |-> IF p \in gone THEN 0 ELSE m.ref[p]] \in [Page -> Int]
      /\ [p \in Page |-> IF p \in gone THEN ZERO ELSE m.data[p]] \in [Page -> Content]
      /\ m.free \cup gone \in SUBSET Page
  BY <1>4, Contents DEF Mem
<1>7. exit_pd0(m, pgdir, d1, visited) =
        [m EXCEPT !.free = m.free \cup gone,
                  !.ref = [p \in Page |-> IF p \in gone THEN 0 ELSE m.ref[p]],
                  !.data = [p \in Page |-> IF p \in gone THEN ZERO ELSE m.data[p]],
                  !.table = table]
  BY DEF exit_pd0, gone, free_pd0, pts, table
<1> QED
  BY <1>5, <1>6, <1>7 DEF Mem

\* The entries an area touches of the directory under entry d1 of the root.
Visited(v, d1) == {PDX0(la) : la \in {y \in v.vm_start..(v.vm_end - 1) : PDX1(y) = d1}}

\* The entries of the root an area touches.
LEMMA AreaDirectories ==
  ASSUME NEW v \in Vma
  PROVE  /\ PDX1(v.vm_start) \in Nat /\ PDX1(v.vm_end - 1) + 1 \in Nat
         /\ PDX1(v.vm_start) <= PDX1(v.vm_end - 1) + 1
         /\ PDX1(v.vm_end - 1) + 1 \in PDX1(v.vm_start)..(PDX1(v.vm_end - 1) + 1)
<1>1. v.vm_start \in Addr /\ v.vm_end - 1 \in Addr /\ v.vm_start <= v.vm_end - 1
  BY Sizes DEF Vma, Addr
<1>2. PDX1(v.vm_start) <= PDX1(v.vm_end - 1)
  BY <1>1, Sizes, DivOrder DEF PDX1, Addr
<1>3. PDX1(v.vm_start) \in Nat /\ PDX1(v.vm_end - 1) \in Nat
  BY <1>1, Indices
<1> QED
  BY <1>2, <1>3

\* exit_range.
LEMMA ExitRangeLoop ==
  ASSUME NEW m \in Mem, NEW pgdir \in Page, NEW v \in Vma
  PROVE  \E done :
           /\ Runs(done, PDX1(v.vm_start), (PDX1(v.vm_end - 1) + 1), m, exit_range(m, pgdir, v.vm_start, v.vm_end))
           /\ \A i \in (PDX1(v.vm_start) + 1)..(PDX1(v.vm_end - 1) + 1) : done[i] = IF done[i - 1].table[pgdir][i - 1] = invalid THEN done[i - 1]
                       ELSE exit_pd0(done[i - 1], pgdir, i - 1, Visited(v, i - 1))
<1> DEFINE visited(d1) == Visited(v, d1)
           a == PDX1(v.vm_start)
           b == PDX1(v.vm_end - 1) + 1
           turn(x, i) == IF x.table[pgdir][i - 1] = invalid THEN x
                         ELSE exit_pd0(x, pgdir, i - 1, visited(i - 1))
           F == [i \in (a + 1)..b |-> [x \in Mem |-> turn(x, i)]]
           Does(g) == g = [i \in a..b |-> IF i = a THEN m ELSE turn(g[i - 1], i)]
           done == CHOOSE g : Does(g)
<1>1. a \in Nat /\ b \in Nat /\ a <= b /\ m \in Mem
  BY AreaDirectories
<1>2. exit_range(m, pgdir, v.vm_start, v.vm_end) = done[b]
  BY DEF exit_range, Visited
<1>3. ASSUME NEW i \in (a + 1)..b, NEW x \in Mem PROVE turn(x, i) \in Mem
  <2>1. v.vm_start \in Addr /\ v.vm_end - 1 \in Addr
    BY Sizes DEF Vma, Addr
  <2>2. i - 1 \in Index
    <3>1. PDX1(v.vm_start) \in 0..(NROOT - 1) /\ PDX1(v.vm_end - 1) \in 0..(NROOT - 1)
      BY <2>1, Indices
    <3> QED
      BY <3>1, Entries, Sizes
  <2>3. visited(i - 1) \in SUBSET Index
    <3>1. \A la \in v.vm_start..(v.vm_end - 1) : la \in Addr
      BY <2>1, Sizes DEF Addr
    <3> QED
      BY <3>1, Indices DEF Visited
  <2> HIDE DEF visited, a, b
  <2> QED
    BY <2>2, <2>3, ExitPd0Type
<1> HIDE DEF turn, a, b
<1>4. Keeps(F, Mem, a, b)
  BY <1>3 DEF Keeps
<1>5. PICK g : Computes(g, F, Mem, m, a, b)
  <2> HIDE DEF F
  <2> QED
    BY <1>1, <1>4, LoopExists
<1>6. Does(g)
  <2>1. \A i \in a..b : i # a => i \in (a + 1)..b /\ g[i - 1] \in Mem
    BY <1>1, <1>5 DEF Computes
  <2>2. \A i \in a..b : i # a => F[i][g[i - 1]] = turn(g[i - 1], i)
    BY <2>1
  <2> HIDE DEF F
  <2> QED
    BY <1>1, <1>5, <2>1, <2>2 DEF Computes
<1>7. Does(done)
  <2> HIDE DEF Does
  <2> QED
    BY <1>6
<1> HIDE DEF done, F
<1>8. done[a] = m /\ \A i \in (a + 1)..b : done[i] = turn(done[i - 1], i)
  BY <1>1, <1>7
<1> HIDE DEF Does
<1>9. \A i \in a..b : done[i] \in Mem
  <2>1. done[a] \in Mem /\ \A i \in (a + 1)..b : done[i - 1] \in Mem => done[i] \in Mem
    BY <1>1, <1>3, <1>8
  <2> QED
    BY <1>1, <2>1, LoopKeeps
<1>10. Runs(done, a, b, m, done[b])
  BY <1>1, <1>8, <1>9 DEF Runs
<1> QED
  BY <1>2, <1>8, <1>10 DEF a, b, turn

LEMMA ExitRangeType ==
  ASSUME NEW m \in Mem, NEW pgdir \in Page, NEW v \in Vma
  PROVE  exit_range(m, pgdir, v.vm_start, v.vm_end) \in Mem
<1>1. PICK done :
        /\ Runs(done, PDX1(v.vm_start), (PDX1(v.vm_end - 1) + 1), m, exit_range(m, pgdir, v.vm_start, v.vm_end))
        /\ \A i \in (PDX1(v.vm_start) + 1)..(PDX1(v.vm_end - 1) + 1) : done[i] = IF done[i - 1].table[pgdir][i - 1] = invalid THEN done[i - 1]
                       ELSE exit_pd0(done[i - 1], pgdir, i - 1, Visited(v, i - 1))
  BY ExitRangeLoop
<1>2. (PDX1(v.vm_end - 1) + 1) \in PDX1(v.vm_start)..(PDX1(v.vm_end - 1) + 1)
  BY AreaDirectories
<1> QED
  BY <1>1, <1>2 DEF Runs

-----------------------------------------------------------------------------
(* Address spaces. *)

LEMMA SpaceFacts ==
  ASSUME NEW s \in Space
  PROVE  /\ s.pgdir \in Page /\ s.vmas \in Seq(Vma) /\ Len(s.vmas) \in Nat
         /\ \A i \in 1..Len(s.vmas) : s.vmas[i] \in Vma
         /\ s # none /\ root(s) = s.pgdir
<1>1. s.pgdir \in Page /\ s.vmas \in Seq(Vma)
  BY DEF Space
<1>2. s.pgdir # none.pgdir
  BY <1>1, AddressSpaceAssumption DEF none
<1> QED
  BY <1>1, <1>2, LenProperties, ElementOfSeq DEF root

LEMMA SetupType ==
  ASSUME NEW m \in Mem
  PROVE  setup_pgdir(m) \in Mem
<1> DEFINE p == lowest(m.free)
           t == take(m)
<1>1. CASE m.free = {}
  BY <1>1, StopType DEF setup_pgdir
<1>2. CASE m.free # {}
  <2>1. p \in Page /\ t \in Mem
    BY <1>2, Lowest, TakeType DEF Mem
  <2>2. setup_pgdir(m) = [t EXCEPT !.data[p] = BOOT, !.table[p] = empty]
    BY <1>2 DEF setup_pgdir
  <2> HIDE DEF p, t
  <2>3. [t.data EXCEPT ![p] = BOOT] \in [Page -> Content]
    BY <2>1, Contents DEF Mem
  <2>4. [t.table EXCEPT ![p] = empty] \in [Page -> [Index -> Page \cup {invalid}]]
    BY <2>1, Pages DEF Mem
  <2> QED
    BY <2>1, <2>2, <2>3, <2>4 DEF Mem
<1> QED
  BY <1>1, <1>2

\* The first loop of exit_mmap.
LEMMA UnmapAllLoop ==
  ASSUME NEW m \in Mem, NEW s \in Space
  PROVE  \E done :
           /\ Runs(done, 0, Len(s.vmas), m, unmap_all(m, s))
           /\ \A i \in (0 + 1)..Len(s.vmas) : done[i] = unmap_range(done[i - 1], s.pgdir, s.vmas[i].vm_start, s.vmas[i].vm_end)
<1> DEFINE a == 0
           b == Len(s.vmas)
           turn(x, i) == unmap_range(x, s.pgdir, s.vmas[i].vm_start, s.vmas[i].vm_end)
           F == [i \in (a + 1)..b |-> [x \in Mem |-> turn(x, i)]]
           Does(g) == g = [i \in a..b |-> IF i = a THEN m ELSE turn(g[i - 1], i)]
           done == CHOOSE g : Does(g)
<1>1. a \in Nat /\ b \in Nat /\ a <= b /\ m \in Mem
  BY SpaceFacts
<1>2. unmap_all(m, s) = done[b]
  BY DEF unmap_all
<1>3. ASSUME NEW i \in (a + 1)..b, NEW x \in Mem PROVE turn(x, i) \in Mem
  <2>1. i \in 1..Len(s.vmas)
    BY SpaceFacts
  <2>2. s.vmas[i] \in Vma /\ s.pgdir \in Page
    BY <2>1, SpaceFacts
  <2> QED
    BY <2>2, UnmapRangeType
<1> HIDE DEF turn, a, b
<1>4. Keeps(F, Mem, a, b)
  BY <1>3 DEF Keeps
<1>5. PICK g : Computes(g, F, Mem, m, a, b)
  <2> HIDE DEF F
  <2> QED
    BY <1>1, <1>4, LoopExists
<1>6. Does(g)
  <2>1. \A i \in a..b : i # a => i \in (a + 1)..b /\ g[i - 1] \in Mem
    BY <1>1, <1>5 DEF Computes
  <2>2. \A i \in a..b : i # a => F[i][g[i - 1]] = turn(g[i - 1], i)
    BY <2>1
  <2> HIDE DEF F
  <2> QED
    BY <1>1, <1>5, <2>1, <2>2 DEF Computes
<1>7. Does(done)
  <2> HIDE DEF Does
  <2> QED
    BY <1>6
<1> HIDE DEF done, F
<1>8. done[a] = m /\ \A i \in (a + 1)..b : done[i] = turn(done[i - 1], i)
  BY <1>1, <1>7
<1> HIDE DEF Does
<1>9. \A i \in a..b : done[i] \in Mem
  <2>1. done[a] \in Mem /\ \A i \in (a + 1)..b : done[i - 1] \in Mem => done[i] \in Mem
    BY <1>1, <1>3, <1>8
  <2> QED
    BY <1>1, <2>1, LoopKeeps
<1>10. Runs(done, a, b, m, done[b])
  BY <1>1, <1>8, <1>9 DEF Runs
<1> QED
  BY <1>2, <1>8, <1>10 DEF a, b, turn

LEMMA UnmapAllType ==
  ASSUME NEW m \in Mem, NEW s \in Space
  PROVE  unmap_all(m, s) \in Mem
<1>1. PICK done :
        /\ Runs(done, 0, Len(s.vmas), m, unmap_all(m, s))
        /\ \A i \in (0 + 1)..Len(s.vmas) : done[i] = unmap_range(done[i - 1], s.pgdir, s.vmas[i].vm_start, s.vmas[i].vm_end)
  BY UnmapAllLoop
<1>2. Len(s.vmas) \in 0..Len(s.vmas)
  BY SpaceFacts
<1> QED
  BY <1>1, <1>2 DEF Runs

\* The second one.
LEMMA ExitMmapLoop ==
  ASSUME NEW m \in Mem, NEW s \in Space
  PROVE  \E done :
           /\ Runs(done, 0, Len(s.vmas), unmap_all(m, s), exit_mmap(m, s))
           /\ \A i \in (0 + 1)..Len(s.vmas) : done[i] = exit_range(done[i - 1], s.pgdir, s.vmas[i].vm_start, s.vmas[i].vm_end)
<1> DEFINE a == 0
           b == Len(s.vmas)
           turn(x, i) == exit_range(x, s.pgdir, s.vmas[i].vm_start, s.vmas[i].vm_end)
           F == [i \in (a + 1)..b |-> [x \in Mem |-> turn(x, i)]]
           Does(g) == g = [i \in a..b |-> IF i = a THEN unmap_all(m, s) ELSE turn(g[i - 1], i)]
           done == CHOOSE g : Does(g)
<1>1. a \in Nat /\ b \in Nat /\ a <= b /\ unmap_all(m, s) \in Mem
  BY SpaceFacts, UnmapAllType
<1>2. exit_mmap(m, s) = done[b]
  BY DEF exit_mmap
<1>3. ASSUME NEW i \in (a + 1)..b, NEW x \in Mem PROVE turn(x, i) \in Mem
  <2>1. i \in 1..Len(s.vmas)
    BY SpaceFacts
  <2>2. s.vmas[i] \in Vma /\ s.pgdir \in Page
    BY <2>1, SpaceFacts
  <2> QED
    BY <2>2, ExitRangeType
<1> HIDE DEF turn, a, b
<1>4. Keeps(F, Mem, a, b)
  BY <1>3 DEF Keeps
<1>5. PICK g : Computes(g, F, Mem, unmap_all(m, s), a, b)
  <2> HIDE DEF F
  <2> QED
    BY <1>1, <1>4, LoopExists
<1>6. Does(g)
  <2>1. \A i \in a..b : i # a => i \in (a + 1)..b /\ g[i - 1] \in Mem
    BY <1>1, <1>5 DEF Computes
  <2>2. \A i \in a..b : i # a => F[i][g[i - 1]] = turn(g[i - 1], i)
    BY <2>1
  <2> HIDE DEF F
  <2> QED
    BY <1>1, <1>5, <2>1, <2>2 DEF Computes
<1>7. Does(done)
  <2> HIDE DEF Does
  <2> QED
    BY <1>6
<1> HIDE DEF done, F
<1>8. done[a] = unmap_all(m, s) /\ \A i \in (a + 1)..b : done[i] = turn(done[i - 1], i)
  BY <1>1, <1>7
<1> HIDE DEF Does
<1>9. \A i \in a..b : done[i] \in Mem
  <2>1. done[a] \in Mem /\ \A i \in (a + 1)..b : done[i - 1] \in Mem => done[i] \in Mem
    BY <1>1, <1>3, <1>8
  <2> QED
    BY <1>1, <2>1, LoopKeeps
<1>10. Runs(done, a, b, unmap_all(m, s), done[b])
  BY <1>1, <1>8, <1>9 DEF Runs
<1> QED
  BY <1>2, <1>8, <1>10 DEF a, b, turn

LEMMA ExitMmapType ==
  ASSUME NEW m \in Mem, NEW s \in Space
  PROVE  exit_mmap(m, s) \in Mem
<1>1. PICK done :
        /\ Runs(done, 0, Len(s.vmas), unmap_all(m, s), exit_mmap(m, s))
        /\ \A i \in (0 + 1)..Len(s.vmas) : done[i] = exit_range(done[i - 1], s.pgdir, s.vmas[i].vm_start, s.vmas[i].vm_end)
  BY ExitMmapLoop
<1>2. Len(s.vmas) \in 0..Len(s.vmas)
  BY SpaceFacts
<1> QED
  BY <1>1, <1>2 DEF Runs

\* An address space is given back.
LEMMA DropType ==
  ASSUME NEW m \in Mem, NEW s \in Space \cup {none}
  PROVE  drop(m, s) \in Mem
<1>1. CASE s = none
  BY <1>1 DEF drop
<1>2. CASE s # none
  <2> DEFINE e == free_page(exit_mmap(m, s), s.pgdir)
  <2>1. s \in Space /\ s.pgdir \in Page
    BY <1>2, SpaceFacts
  <2>2. e \in Mem
    BY <2>1, ExitMmapType, FreeType
  <2>3. drop(m, s) = [e EXCEPT !.data[s.pgdir] = ZERO]
    BY <1>2 DEF drop
  <2> HIDE DEF e
  <2>4. [e.data EXCEPT ![s.pgdir] = ZERO] \in [Page -> Content]
    BY <2>1, <2>2, Contents DEF Mem
  <2> QED
    BY <2>2, <2>3, <2>4 DEF Mem
<1> QED
  BY <1>1, <1>2

\* dup_mmap.  Its loop runs from the last area to the first one.
LEMMA DupMmapLoop ==
  ASSUME NEW m \in Mem, NEW to \in Page, NEW s \in Space
  PROVE  \E done :
           /\ done[Len(s.vmas) + 1] = m /\ done[1] = dup_mmap(m, to, s)
           /\ \A i \in 1..(Len(s.vmas) + 1) : done[i] \in Mem
           /\ \A i \in 1..Len(s.vmas) :
                done[i] = copy_range(done[i + 1], to, s.pgdir, s.vmas[i].vm_start, s.vmas[i].vm_end)
<1> DEFINE n == Len(s.vmas)
           turn(x, i) == copy_range(x, to, s.pgdir, s.vmas[i].vm_start, s.vmas[i].vm_end)
           F == [k \in (0 + 1)..n |-> [x \in Mem |-> turn(x, n + 1 - k)]]
           Does(g) == g = [i \in 1..(n + 1) |-> IF i = n + 1 THEN m ELSE turn(g[i + 1], i)]
           done == CHOOSE g : Does(g)
<1>1. n \in Nat
  BY SpaceFacts
<1>2. dup_mmap(m, to, s) = done[1]
  BY DEF dup_mmap
<1>3. ASSUME NEW i \in 1..n, NEW x \in Mem PROVE turn(x, i) \in Mem
  <2>1. s.vmas[i] \in Vma /\ s.pgdir \in Page
    BY SpaceFacts
  <2> QED
    BY <2>1, CopyRangeType
<1> HIDE DEF turn, n
<1>4. Keeps(F, Mem, 0, n)
  <2>1. \A k \in (0 + 1)..n : n + 1 - k \in 1..n
    BY <1>1
  <2> QED
    BY <1>3, <2>1 DEF Keeps
<1>5. PICK g : Computes(g, F, Mem, m, 0, n)
  <2> HIDE DEF F
  <2>1. 0 \in Nat /\ 0 <= n
    BY <1>1
  <2> QED
    BY <1>1, <1>4, <2>1, LoopExists
<1> DEFINE h == [i \in 1..(n + 1) |-> g[n + 1 - i]]
<1>6. Does(h)
  <2>1. ASSUME NEW i \in 1..(n + 1) PROVE h[i] = IF i = n + 1 THEN m ELSE turn(h[i + 1], i)
    <3>1. CASE i = n + 1
      <4>1. h[i] = g[0]
        BY <1>1, <3>1
      <4> QED
        BY <1>5, <3>1, <4>1 DEF Computes
    <3>2. CASE i # n + 1
      <4>1. i + 1 \in 1..(n + 1) /\ n + 1 - i \in (0 + 1)..n /\ n + 1 - (n + 1 - i) = i
        BY <1>1, <3>2
      <4>2. (n + 1 - i) - 1 = n + 1 - (i + 1) /\ (n + 1 - i) - 1 \in 0..n
        BY <1>1, <4>1
      <4>3. h[i] = g[n + 1 - i] /\ h[i + 1] = g[(n + 1 - i) - 1]
        BY <4>1, <4>2
      <4>4. g[n + 1 - i] = F[n + 1 - i][g[(n + 1 - i) - 1]] /\ g[(n + 1 - i) - 1] \in Mem
        BY <1>5, <4>1, <4>2 DEF Computes
      <4>5. F[n + 1 - i][g[(n + 1 - i) - 1]] = turn(g[(n + 1 - i) - 1], i)
        BY <4>1, <4>4
      <4> QED
        BY <3>2, <4>3, <4>4, <4>5
    <3> QED
      BY <3>1, <3>2
  <2> QED
    BY <2>1
<1>7. Does(done)
  <2> HIDE DEF Does, h
  <2> QED
    BY <1>6
<1> HIDE DEF done, F
<1>8. done[n + 1] = m /\ \A i \in 1..n : done[i] = turn(done[i + 1], i)
  BY <1>1, <1>7
<1> HIDE DEF Does
<1> DEFINE T == {k \in 0..n : done[n + 1 - k] \in Mem}
<1>9. 0 \in T
  BY <1>1, <1>8
<1>10. ASSUME NEW k \in 0..(n - 1), k \in T PROVE k + 1 \in T
  <2>1. n + 1 - (k + 1) \in 1..n /\ (n + 1 - (k + 1)) + 1 = n + 1 - k /\ k + 1 \in 0..n
    BY <1>1
  <2>2. done[n + 1 - (k + 1)] = turn(done[n + 1 - k], n + 1 - (k + 1))
    BY <1>8, <2>1
  <2> QED
    BY <1>3, <1>10, <2>1, <2>2
<1>11. \A k \in 0..n : k \in T
  <2> HIDE DEF T
  <2> QED
    BY <1>1, <1>9, <1>10, Induction
<1>12. ASSUME NEW i \in 1..(n + 1) PROVE done[i] \in Mem
  <2>1. n + 1 - i \in 0..n /\ n + 1 - (n + 1 - i) = i
    BY <1>1
  <2> QED
    BY <1>11, <2>1
<1> QED
  BY <1>2, <1>8, <1>12 DEF turn, n

LEMMA DupMmapType ==
  ASSUME NEW m \in Mem, NEW to \in Page, NEW s \in Space
  PROVE  dup_mmap(m, to, s) \in Mem
<1>1. 1 \in 1..(Len(s.vmas) + 1)
  BY SpaceFacts
<1> QED
  BY <1>1, DupMmapLoop

\* The numbers up to n are n.
LEMMA CountedSet ==
  ASSUME NEW n \in Nat
  PROVE  IsFiniteSet(1..n) /\ Cardinality(1..n) = n
<1>1. IsFiniteSet(1..n)
  BY FS_Interval
<1>2. Cardinality(1..n) = IF 1 > n THEN 0 ELSE n - 1 + 1
  BY FS_Interval
<1>3. (IF 1 > n THEN 0 ELSE n - 1 + 1) = n
  OBVIOUS
<1> QED
  BY <1>1, <1>2, <1>3

\* A new area comes into its place.
LEMMA InsertVmaType ==
  ASSUME NEW vmas \in Seq(Vma), NEW v \in Vma
  PROVE  insert_vma(vmas, v) \in Seq(Vma)
<1> DEFINE n == Len(vmas)
           B == {i \in DOMAIN vmas : vmas[i].vm_start <= v.vm_start}
           k == Cardinality(B)
<1>1. n \in Nat /\ DOMAIN vmas = 1..n /\ \A i \in 1..n : vmas[i] \in Vma
  BY LenProperties, ElementOfSeq
<1>2. k \in Nat
  <2>1. IsFiniteSet(1..n)
    BY <1>1, FS_Interval
  <2>2. IsFiniteSet(B)
    <3>1. B \subseteq 1..n
      BY <1>1
    <3> HIDE DEF B
    <3> QED
      BY <2>1, <3>1, FS_Subset
  <2> HIDE DEF B
  <2> QED
    BY <2>2, FS_CardinalityType
<1>3. k <= n
  <2>1. IsFiniteSet(1..n) /\ Cardinality(1..n) = n
    BY <1>1, CountedSet
  <2>2. B \subseteq 1..n
    BY <1>1
  <2> HIDE DEF B
  <2> QED
    BY <2>1, <2>2, FS_Subset
<1> HIDE DEF k
<1>4. SubSeq(vmas, 1, k) \in Seq(Vma)
  <2>1. \A i \in 1..k : vmas[i] \in Vma
    BY <1>1, <1>2, <1>3
  <2> QED
    BY <1>2, <2>1, SubSeqProperties
<1>5. SubSeq(vmas, k + 1, n) \in Seq(Vma)
  <2>1. \A i \in (k + 1)..n : vmas[i] \in Vma
    BY <1>1, <1>2
  <2>2. k + 1 \in Int /\ n \in Int
    BY <1>1, <1>2
  <2> HIDE DEF n
  <2> QED
    BY <2>1, <2>2, SubSeqProperties
<1>6. <<v>> \in Seq(Vma)
  OBVIOUS
<1>7. SubSeq(vmas, 1, k) \o <<v>> \in Seq(Vma)
  BY <1>4, <1>6, ConcatProperties
<1>8. (SubSeq(vmas, 1, k) \o <<v>>) \o SubSeq(vmas, k + 1, n) \in Seq(Vma)
  BY <1>5, <1>7, ConcatProperties
<1> QED
  BY <1>8 DEF insert_vma, k

\* load_icode's loop over the segments.
Loading == [m : Mem, vmas : Seq(Vma), ok : BOOLEAN]

area(seg) == [vm_start |-> seg.vm_start, vm_end |-> seg.vm_end]
stack == [vm_start |-> STACK, vm_end |-> USERTOP]

\* What mm_map comes to: it refuses the area, or stops the kernel, or the area overlaps no
\* other and is in the list.
LEMMA MapShape ==
  ASSUME NEW s \in Loading, NEW v \in Vma
  PROVE  /\ mm_map(s, v) \in Loading
         /\ \/ mm_map(s, v).m = s.m /\ mm_map(s, v).vmas = s.vmas /\ ~mm_map(s, v).ok
            \/ mm_map(s, v).m = stop(s.m) /\ mm_map(s, v).vmas = s.vmas /\ mm_map(s, v).ok = s.ok
            \/ /\ ~overlaps(s.vmas, v)
               /\ mm_map(s, v).m = s.m /\ mm_map(s, v).vmas = insert_vma(s.vmas, v) /\ mm_map(s, v).ok = s.ok
<1> DEFINE w == insert_vma(s.vmas, v)
           y == mm_map(s, v)
<1>1. s.m \in Mem /\ s.vmas \in Seq(Vma) /\ s.ok \in BOOLEAN /\ stop(s.m) \in Mem
  BY StopType DEF Loading
<1>2. w \in Seq(Vma)
  BY <1>1, InsertVmaType
<1>3. \/ y = [s EXCEPT !.ok = FALSE]
      \/ y = [s EXCEPT !.m = stop(s.m)]
      \/ ~overlaps(s.vmas, v) /\ y = [s EXCEPT !.vmas = w]
  BY DEF mm_map
<1> HIDE DEF w, y
<1>4. CASE y = [s EXCEPT !.ok = FALSE]
  <2>1. y \in Loading /\ y.m = s.m /\ y.vmas = s.vmas /\ ~y.ok
    BY <1>1, <1>4 DEF Loading
  <2> QED
    BY <2>1 DEF y
<1>5. CASE y = [s EXCEPT !.m = stop(s.m)]
  <2>1. y \in Loading /\ y.m = stop(s.m) /\ y.vmas = s.vmas /\ y.ok = s.ok
    BY <1>1, <1>5 DEF Loading
  <2> QED
    BY <2>1 DEF y
<1>6. CASE ~overlaps(s.vmas, v) /\ y = [s EXCEPT !.vmas = w]
  <2>1. y \in Loading /\ y.m = s.m /\ y.vmas = w /\ y.ok = s.ok
    BY <1>1, <1>2, <1>6 DEF Loading
  <2> QED
    BY <1>6, <2>1 DEF y, w
<1> QED
  BY <1>3, <1>4, <1>5, <1>6

\* A turn of the loop.
LEMMA LoadSegmentShape ==
  ASSUME NEW s \in Loading, NEW pgdir \in Page, NEW seg \in Segment
  PROVE  LET y == load_segment(s, pgdir, seg)
         IN  /\ y \in Loading
             /\ \/ y.m = s.m /\ y.vmas = s.vmas /\ ~y.ok
                \/ y.m = load_range(stop(s.m), pgdir, seg)
                \/ /\ s.ok /\ ~seg.bad /\ ~overlaps(s.vmas, area(seg))
                   /\ y.m = load_range(s.m, pgdir, seg) /\ y.vmas = insert_vma(s.vmas, area(seg))
<1> DEFINE y == load_segment(s, pgdir, seg)
           x == mm_map(s, area(seg))
           l == load_range(x.m, pgdir, seg)
<1>1. area(seg) \in Vma
  BY SegmentFacts DEF area
<1>2. /\ x \in Loading
      /\ \/ x.m = s.m /\ x.vmas = s.vmas /\ ~x.ok
         \/ x.m = stop(s.m) /\ x.vmas = s.vmas /\ x.ok = s.ok
         \/ /\ ~overlaps(s.vmas, area(seg))
            /\ x.m = s.m /\ x.vmas = insert_vma(s.vmas, area(seg)) /\ x.ok = s.ok
  BY <1>1, MapShape
<1>3. \/ y = [s EXCEPT !.ok = FALSE]
      \/ s.ok /\ ~seg.bad /\ ~x.ok /\ y = x
      \/ s.ok /\ ~seg.bad /\ x.ok /\ y = [x EXCEPT !.m = l]
  BY DEF load_segment, area
<1> HIDE DEF x, y
<1>4. l \in Mem
  BY <1>2, LoadRangeType DEF Loading
<1> HIDE DEF l
<1>5. CASE y = [s EXCEPT !.ok = FALSE]
  <2>1. y \in Loading /\ y.m = s.m /\ y.vmas = s.vmas /\ ~y.ok
    BY <1>5 DEF Loading
  <2> QED
    BY <2>1 DEF y
<1>6. CASE s.ok /\ ~seg.bad /\ ~x.ok /\ y = x
  <2>1. y \in Loading /\ y.m = s.m /\ y.vmas = s.vmas /\ ~y.ok
    BY <1>2, <1>6
  <2> QED
    BY <2>1 DEF y
<1>7. CASE s.ok /\ ~seg.bad /\ x.ok /\ y = [x EXCEPT !.m = l]
  <2>1. y \in Loading /\ y.m = l /\ y.vmas = x.vmas
    BY <1>2, <1>4, <1>7 DEF Loading
  <2>2. \/ l = load_range(stop(s.m), pgdir, seg)
        \/ /\ ~overlaps(s.vmas, area(seg))
           /\ l = load_range(s.m, pgdir, seg) /\ x.vmas = insert_vma(s.vmas, area(seg))
    BY <1>2, <1>7 DEF l
  <2> QED
    BY <1>7, <2>1, <2>2 DEF y
<1> QED
  BY <1>3, <1>5, <1>6, <1>7

LEMMA LoadSegmentsLoop ==
  ASSUME NEW m \in Mem, NEW pgdir \in Page, NEW prog \in Seq(Segment)
  PROVE  \E done :
           /\ done[0] = [m |-> m, vmas |-> <<>>, ok |-> TRUE] /\ done[Len(prog)] = load_segments(m, pgdir, prog)
           /\ \A i \in 0..Len(prog) : done[i] \in Loading
           /\ \A i \in 1..Len(prog) : done[i] = load_segment(done[i - 1], pgdir, prog[i])
<1> DEFINE m0 == [m |-> m, vmas |-> <<>>, ok |-> TRUE]
           a == 0
           b == Len(prog)
           turn(x, i) == load_segment(x, pgdir, prog[i])
           F == [i \in (a + 1)..b |-> [x \in Loading |-> turn(x, i)]]
           Does(g) == g = [i \in a..b |-> IF i = a THEN m0 ELSE turn(g[i - 1], i)]
           done == CHOOSE g : Does(g)
<1>1. a \in Nat /\ b \in Nat /\ a <= b /\ m0 \in Loading
  <2>1. Len(prog) \in Nat /\ <<>> \in Seq(Vma)
    BY LenProperties, EmptySeq
  <2> QED
    BY <2>1 DEF Loading
<1>2. load_segments(m, pgdir, prog) = done[b]
  BY DEF load_segments
<1>3. ASSUME NEW i \in (a + 1)..b, NEW x \in Loading PROVE turn(x, i) \in Loading
  <2>1. i \in 1..Len(prog)
    BY LenProperties
  <2>2. prog[i] \in Segment
    BY <2>1, ElementOfSeq
  <2> QED
    BY <2>2, LoadSegmentShape
<1> HIDE DEF turn, a, b, m0
<1>4. Keeps(F, Loading, a, b)
  BY <1>3 DEF Keeps
<1>5. PICK g : Computes(g, F, Loading, m0, a, b)
  <2> HIDE DEF F
  <2> QED
    BY <1>1, <1>4, LoopExists
<1>6. Does(g)
  <2>1. \A i \in a..b : i # a => i \in (a + 1)..b /\ g[i - 1] \in Loading
    BY <1>1, <1>5 DEF Computes
  <2>2. \A i \in a..b : i # a => F[i][g[i - 1]] = turn(g[i - 1], i)
    BY <2>1
  <2> HIDE DEF F
  <2> QED
    BY <1>1, <1>5, <2>1, <2>2 DEF Computes
<1>7. Does(done)
  <2> HIDE DEF Does
  <2> QED
    BY <1>6
<1> HIDE DEF done, F
<1>8. done[a] = m0 /\ \A i \in (a + 1)..b : done[i] = turn(done[i - 1], i)
  <2>1. a \in a..b /\ \A i \in (a + 1)..b : i \in a..b /\ i # a
    BY <1>1
  <2> QED
    BY <1>7, <2>1
<1> HIDE DEF Does
<1>9. \A i \in a..b : done[i] \in Loading
  <2>1. done[a] \in Loading
    BY <1>1, <1>8
  <2>2. ASSUME NEW i \in (a + 1)..b, done[i - 1] \in Loading PROVE done[i] \in Loading
    <3>1. done[i] = turn(done[i - 1], i)
      BY <1>8
    <3> QED
      BY <1>3, <2>2, <3>1
  <2> QED
    BY <1>1, <2>1, <2>2, LoopKeeps
<1>10. \A i \in 1..Len(prog) : i \in (a + 1)..b
  BY DEF a, b
<1>11. \A i \in 1..Len(prog) : done[i] = load_segment(done[i - 1], pgdir, prog[i])
  BY <1>8, <1>10 DEF turn
<1> QED
  BY <1>2, <1>8, <1>9, <1>11 DEF a, b, m0

LEMMA LoadSegmentsType ==
  ASSUME NEW m \in Mem, NEW pgdir \in Page, NEW prog \in Seq(Segment)
  PROVE  load_segments(m, pgdir, prog) \in Loading
<1>1. Len(prog) \in 0..Len(prog)
  BY LenProperties
<1> QED
  BY <1>1, LoadSegmentsLoop

\* The stack comes last, unless the kernel stops.
LEMMA MapStackShape ==
  ASSUME NEW s \in Loading
  PROVE  LET y == map_stack(s)
         IN  /\ y \in Loading
             /\ y.m.panic \/ y.m = s.m
             /\ y.m.panic \/ ~y.ok \/ (s.ok /\ ~overlaps(s.vmas, stack) /\ y.vmas = insert_vma(s.vmas, stack))
             /\ ~y.ok => y.vmas = s.vmas
<1> DEFINE y == map_stack(s)
           x == mm_map(s, stack)
<1>1. stack \in Vma
  BY AddressSpaceAssumption, Sizes DEF Vma, Addr, stack
<1>2. /\ x \in Loading
      /\ \/ x.m = s.m /\ x.vmas = s.vmas /\ ~x.ok
         \/ x.m = stop(s.m) /\ x.vmas = s.vmas /\ x.ok = s.ok
         \/ /\ ~overlaps(s.vmas, stack)
            /\ x.m = s.m /\ x.vmas = insert_vma(s.vmas, stack) /\ x.ok = s.ok
  BY <1>1, MapShape
<1>3. stop(s.m).panic
  BY StopType DEF Loading
<1>4. (~s.ok /\ y = s) \/ (s.ok /\ y = x)
  BY DEF map_stack, stack
<1> HIDE DEF x, y
<1>5. /\ y \in Loading
      /\ y.m.panic \/ y.m = s.m
      /\ y.m.panic \/ ~y.ok \/ (s.ok /\ ~overlaps(s.vmas, stack) /\ y.vmas = insert_vma(s.vmas, stack))
      /\ ~y.ok => y.vmas = s.vmas
  BY <1>2, <1>3, <1>4
<1> QED
  BY <1>5 DEF y

-----------------------------------------------------------------------------
(* The invariant. *)

LEMMA InitSatp == Init => SatpInv
<1> SUFFICES ASSUME Init PROVE SatpInv
  OBVIOUS
<1>1. mem \in Mem
  <2>1. ZERO \in Content /\ empty \in [Index -> Page \cup {invalid}]
    BY Contents, Pages
  <2> QED
    BY <2>1 DEF Init, Mem
<1>2. TypeInv
  BY <1>1 DEF Init, TypeInv
<1>3. Cr3Current /\ OnlyTheLiving /\ SatpCurrent
  BY DEF Init, Cr3Current, OnlyTheLiving, SatpCurrent, root, Thread
<1> QED
  BY <1>2, <1>3 DEF SatpInv

\* Who can be switched to, and what they have.
LEMMA Facts ==
  ASSUME SatpInv
  PROVE  /\ mem \in Mem /\ current \in Thread /\ initproc \in Thread /\ initproc \notin alive
         /\ alive \subseteq Thread
         /\ mm \in [Thread -> Space \cup {none}] /\ \A p \in Thread : mm[p] \in Space \cup {none}
         /\ cr3 \in [Thread -> Page \cup {BOOT}]
         /\ mm[initproc] = none
BY AddressSpaceAssumption DEF SatpInv, TypeInv, OnlyTheLiving, Thread

LEMMA SwitchSatp ==
  ASSUME SatpInv, NEW p \in Thread, Switch(p)
  PROVE  SatpInv'
<1>1. p \in alive \cup {initproc} /\ cr3[p] \in Page \cup {BOOT} /\ cr3[p] = root(mm[p])
  BY Facts DEF Switch, SatpInv, Cr3Current
<1>2. TypeInv'
  BY <1>1 DEF Switch, SatpInv, TypeInv
<1>3. Cr3Current' /\ OnlyTheLiving'
  BY DEF Switch, SatpInv, Cr3Current, OnlyTheLiving
<1>4. SatpCurrent'
  BY <1>1 DEF Switch, SatpCurrent, root
<1> QED
  BY <1>2, <1>3, <1>4 DEF SatpInv

LEMMA ForkSatp ==
  ASSUME SatpInv, NEW c \in Proc, Fork(c)
  PROVE  SatpInv'
<1> DEFINE from == mm[current]
           pgdir == lowest(mem.free)
<1>1. /\ c \notin alive /\ alive' = alive \cup {c} /\ current' = current /\ satp' = satp
      /\ c # current /\ c # initproc /\ c \in Thread /\ mm[c] = none
  BY Facts, AddressSpaceAssumption DEF Fork, SatpInv, TypeInv, OnlyTheLiving, Thread
<1>2. CASE from = none
  <2>1. cr3' = [cr3 EXCEPT ![c] = BOOT] /\ mm' = mm /\ mem' = mem
    BY <1>2 DEF Fork
  <2>2. TypeInv'
    BY <1>1, <2>1, Facts DEF SatpInv, TypeInv
  <2>3. Cr3Current' /\ OnlyTheLiving'
    BY <1>1, <2>1, Facts DEF SatpInv, Cr3Current, OnlyTheLiving, root
  <2>4. SatpCurrent'
    BY <1>1, <2>1 DEF SatpInv, SatpCurrent
  <2> QED
    BY <2>2, <2>3, <2>4 DEF SatpInv
<1>3. CASE from # none
  <2> DEFINE new == [from EXCEPT !.pgdir = pgdir]
             copied == dup_mmap(setup_pgdir(mem), pgdir, from)
  <2>1. /\ mem.free # {} /\ mem' = copied
        /\ mm' = [mm EXCEPT ![c] = new] /\ cr3' = [cr3 EXCEPT ![c] = pgdir]
    BY <1>3 DEF Fork, goes
  <2>2. from \in Space
    BY <1>3, Facts
  <2>3. pgdir \in Page
    BY <2>1, Facts, Lowest DEF Mem
  <2>4. new \in Space /\ new.pgdir = pgdir
    <3> HIDE DEF from, pgdir
    <3> QED
      BY <2>2, <2>3 DEF Space
  <2>5. root(new) = pgdir
    <3> HIDE DEF new
    <3> QED
      BY <2>4, SpaceFacts
  <2>6. copied \in Mem
    <3> HIDE DEF from, pgdir
    <3> QED
      BY <2>2, <2>3, Facts, SetupType, DupMmapType
  <2> HIDE DEF from, pgdir, new, copied
  <2>7. TypeInv'
    BY <1>1, <2>1, <2>3, <2>4, <2>6, Facts DEF SatpInv, TypeInv
  <2>8. \A p \in Thread : p # c => mm'[p] = mm[p] /\ cr3'[p] = cr3[p]
    BY <2>1, Facts
  <2>9. mm'[c] = new /\ cr3'[c] = pgdir
    BY <1>1, <2>1, Facts
  <2>10. Cr3Current'
    <3>1. ASSUME NEW p \in alive \cup {c, initproc} PROVE cr3'[p] = root(mm'[p])
      <4>1. CASE p = c
        BY <2>5, <2>9, <4>1
      <4>2. CASE p # c
        BY <2>8, <4>2, Facts DEF SatpInv, Cr3Current
      <4> QED
        BY <4>1, <4>2
    <3> QED
      BY <1>1, <3>1 DEF Cr3Current, root
  <2>11. OnlyTheLiving'
    BY <1>1, <2>8 DEF SatpInv, OnlyTheLiving
  <2>12. SatpCurrent'
    BY <1>1, <2>8, Facts DEF SatpInv, SatpCurrent
  <2> QED
    BY <2>7, <2>10, <2>11, <2>12 DEF SatpInv
<1> QED
  BY <1>2, <1>3

\* do_exit: whoever comes next brings its own page directory.
LEMMA ExitSatp ==
  ASSUME SatpInv, NEW m \in Mem, current # initproc, do_exit(m)
  PROVE  SatpInv'
<1>1. mem' = m /\ mm' = [mm EXCEPT ![current] = none] /\ alive' = alive \ {current} /\ cr3' = cr3
  BY DEF do_exit, goes
<1>2. PICK p \in alive' \cup {initproc} : current' = p /\ satp' = cr3[p]
  BY DEF do_exit
<1>3. p \in alive \cup {initproc} /\ p \in Thread /\ p # current /\ current \in alive
  BY <1>1, <1>2, Facts DEF SatpInv, TypeInv
<1>4. cr3[p] = root(mm[p]) /\ cr3[p] \in Page \cup {BOOT} /\ mm'[p] = mm[p]
  BY <1>1, <1>3, Facts DEF SatpInv, Cr3Current
<1>5. TypeInv'
  BY <1>1, <1>2, <1>3, <1>4, Facts DEF SatpInv, TypeInv
<1>6. Cr3Current'
  <2>1. ASSUME NEW q \in (alive \ {current}) \cup {initproc} PROVE cr3[q] = root(mm'[q])
    <3>1. q # current /\ q \in Thread
      BY Facts
    <3> QED
      BY <1>1, <3>1, Facts DEF SatpInv, Cr3Current
  <2> QED
    BY <1>1, <2>1 DEF Cr3Current, root
<1>7. OnlyTheLiving'
  BY <1>1, Facts DEF SatpInv, OnlyTheLiving
<1>8. SatpCurrent'
  BY <1>2, <1>4 DEF SatpCurrent, root
<1> QED
  BY <1>5, <1>6, <1>7, <1>8 DEF SatpInv

\* A program that is loaded gets the new page directory in all three places.
LEMMA RunSatp ==
  ASSUME SatpInv, current # initproc, NEW m \in Mem, NEW pgdir \in Page, NEW vmas \in Seq(Vma),
         run_program(m, pgdir, vmas)
  PROVE  SatpInv'
<1> DEFINE new == [pgdir |-> pgdir, vmas |-> vmas]
<1>1. /\ mem' = alloc_range(m, pgdir, USERTOP - LOADED, USERTOP)
      /\ mm' = [mm EXCEPT ![current] = new] /\ cr3' = [cr3 EXCEPT ![current] = pgdir]
      /\ satp' = pgdir /\ alive' = alive /\ current' = current
  BY DEF run_program, goes
<1>2. new \in Space /\ new.pgdir = pgdir
  BY DEF Space
<1>3. root(new) = pgdir /\ new # none
  <2> HIDE DEF new
  <2> QED
    BY <1>2, SpaceFacts
<1>4. mem' \in Mem
  <2>1. USERTOP - LOADED \in Addr
    BY AddressSpaceAssumption, Sizes DEF Addr
  <2> QED
    BY <1>1, <2>1, AllocRangeType
<1> HIDE DEF new
<1>5. TypeInv'
  BY <1>1, <1>2, <1>4, Facts DEF SatpInv, TypeInv
<1>6. mm'[current] = new /\ cr3'[current] = pgdir /\ current \in alive
  BY <1>1, Facts DEF SatpInv, TypeInv
<1>7. \A p \in Thread : p # current => mm'[p] = mm[p] /\ cr3'[p] = cr3[p]
  BY <1>1, Facts
<1>8. Cr3Current'
  <2>1. ASSUME NEW p \in alive \cup {initproc} PROVE cr3'[p] = root(mm'[p])
    <3>1. CASE p = current
      BY <1>3, <1>6, <3>1
    <3>2. CASE p # current
      BY <1>7, <3>2, Facts DEF SatpInv, Cr3Current
    <3> QED
      BY <3>1, <3>2
  <2> QED
    BY <1>1, <2>1 DEF Cr3Current, root
<1>9. OnlyTheLiving'
  BY <1>1, <1>6, <1>7, Facts DEF SatpInv, OnlyTheLiving
<1>10. SatpCurrent'
  BY <1>1, <1>2, <1>3, <1>6 DEF SatpCurrent
<1> QED
  BY <1>5, <1>8, <1>9, <1>10 DEF SatpInv

LEMMA ExecSatp ==
  ASSUME SatpInv, NEW prog \in Program, Exec(prog)
  PROVE  SatpInv'
<1> DEFINE d == drop(mem, mm[current])
           pgdir == lowest(d.free)
           s == map_stack(load_segments(setup_pgdir(d), pgdir, prog))
<1>1. current # initproc /\ d.free # {} /\ exec_ends(s, pgdir)
  BY DEF Exec, load_icode
<1>2. d \in Mem
  BY Facts, DropType
<1>3. pgdir \in Page
  BY <1>1, <1>2, Lowest DEF Mem
<1>4. s \in Loading
  <2>1. prog \in Seq(Segment)
    BY AddressSpaceAssumption
  <2> HIDE DEF pgdir, d
  <2> QED
    BY <1>2, <1>3, <2>1, SetupType, LoadSegmentsType, MapStackShape
<1> HIDE DEF d, pgdir, s
<1>5. s.m \in Mem /\ s.vmas \in Seq(Vma)
  BY <1>4 DEF Loading
<1>6. CASE s.ok
  BY <1>1, <1>3, <1>5, <1>6, RunSatp DEF exec_ends
<1>7. CASE ~s.ok
  <2> DEFINE x == drop(s.m, [pgdir |-> pgdir, vmas |-> s.vmas])
  <2>1. x \in Mem
    <3>1. [pgdir |-> pgdir, vmas |-> s.vmas] \in Space
      BY <1>3, <1>5 DEF Space
    <3> QED
      BY <1>5, <3>1, DropType
  <2>2. do_exit(x)
    BY <1>1, <1>7 DEF exec_ends
  <2> HIDE DEF x
  <2> QED
    BY <1>1, <2>1, <2>2, ExitSatp
<1> QED
  BY <1>6, <1>7

LEMMA WriteSatp ==
  ASSUME SatpInv, NEW la \in Written, NEW v \in Value, Write(la, v)
  PROVE  SatpInv'
<1>1. mem' = [mem EXCEPT !.data[pte(mem, satp, la)] = v] /\ UNCHANGED <<mm, cr3, alive, current, satp>>
  BY DEF Write
<1>2. mem' \in Mem
  <2>1. v \in Content
    BY Contents
  <2>2. [mem.data EXCEPT ![pte(mem, satp, la)] = v] \in [Page -> Content]
    BY <2>1, Facts DEF Mem
  <2> QED
    BY <1>1, <2>2, Facts DEF Mem
<1> QED
  BY <1>1, <1>2 DEF SatpInv, TypeInv, Cr3Current, OnlyTheLiving, SatpCurrent, root

LEMMA FaultSatp ==
  ASSUME SatpInv, NEW la \in Addr, Fault(la)
  PROVE  SatpInv'
<1> DEFINE pgdir == mm[current].pgdir
           g == get_pte(mem, pgdir, la)
<1>1. mem' = pgdir_alloc_page(g, pgdir, la) /\ UNCHANGED <<mm, cr3, alive, current, satp>>
  BY DEF Fault, goes
<1>2. pgdir \in Page
  BY Facts, SpaceFacts DEF Fault, in_user
<1>3. g \in Mem
  BY Facts, GetPteType
<1>4. mem' \in Mem
  <2> HIDE DEF pgdir, g
  <2> QED
    BY <1>1, <1>2, <1>3, AllocPageType
<1> QED
  BY <1>1, <1>4 DEF SatpInv, TypeInv, Cr3Current, OnlyTheLiving, SatpCurrent, root

LEMMA NextSatp == SatpInv /\ [Next]_vars => SatpInv'
<1> SUFFICES ASSUME SatpInv, [Next]_vars PROVE SatpInv'
  OBVIOUS
<1>1. CASE Exit
  <2>1. drop(mem, mm[current]) \in Mem
    BY Facts, DropType
  <2>2. current # initproc /\ do_exit(drop(mem, mm[current]))
    BY <1>1 DEF Exit
  <2> QED
    BY <2>1, <2>2, ExitSatp
<1>2. CASE UNCHANGED vars
  BY <1>2 DEF vars, SatpInv, TypeInv, Cr3Current, OnlyTheLiving, SatpCurrent, root
<1> QED
  BY <1>1, <1>2, SwitchSatp, ForkSatp, ExecSatp, WriteSatp, FaultSatp DEF Next

\* cr3 of every process that can run is that of its address space, whatever forks, execs,
\* failed execs and exits there were; dead processes have none.
THEOREM SpacesInvariance == Spec => []SatpInv
<1>1. Init => SatpInv
  BY InitSatp
<1>2. SatpInv /\ [Next]_vars => SatpInv'
  BY NextSatp
<1> QED
  BY <1>1, <1>2, PTL DEF Spec

\* The processor never uses a page directory that was given back: satp is that of the
\* address space of the current process, or boot_cr3.
THEOREM SatpIsCurrent == Spec => []SatpCurrent
<1>1. SatpInv => SatpCurrent
  BY DEF SatpInv
<1> QED
  BY <1>1, SpacesInvariance, PTL

-----------------------------------------------------------------------------
(* Addresses and their indices. *)

\* Quotient and remainder of a number that is written with both.
LEMMA DivMod ==
  ASSUME NEW n \in Nat \ {0}, NEW q \in Nat, NEW r \in 0..(n - 1)
  PROVE  (n * q + r) \div n = q /\ (n * q + r) % n = r
<1> DEFINE a == n * q + r
<1>1. n * q \in Nat /\ a \in Nat
  OBVIOUS
<1>2. PICK x \in Int, y \in 0..(n - 1) : a \div n = x /\ a % n = y /\ a = n * x + y
  BY <1>1
<1>3. ASSUME x >= q + 1 PROVE FALSE
  <2>1. n * x >= n * (q + 1)
    BY <1>3
  <2>2. n * (q + 1) = n * q + n
    OBVIOUS
  <2>3. n * x \in Int
    OBVIOUS
  <2> QED
    BY <1>1, <1>2, <2>1, <2>2, <2>3
<1>4. ASSUME q >= x + 1 PROVE FALSE
  <2>1. n * q >= n * (x + 1)
    BY <1>4
  <2>2. n * (x + 1) = n * x + n
    OBVIOUS
  <2>3. n * x \in Int
    OBVIOUS
  <2> QED
    BY <1>1, <1>2, <2>1, <2>2, <2>3
<1>5. x = q
  BY <1>3, <1>4
<1> QED
  BY <1>1, <1>2, <1>5

\* An address is what its indices say.
LEMMA AddrSum ==
  ASSUME NEW la \in Nat
  PROVE  /\ la = PDSIZE * PDX1(la) + (PTSIZE * PDX0(la) + PTX(la))
         /\ PDX1(la) \in Nat /\ PDX0(la) \in PD0 /\ PTX(la) \in PT
<1> DEFINE x == la \div PTSIZE
           k == la % PTSIZE
           y == x \div NPDEENTRY
           j == x % NPDEENTRY
<1>1. PTSIZE \in Nat \ {0} /\ NPDEENTRY \in Nat \ {0} /\ PTSIZE = NPTEENTRY /\ PDSIZE = PTSIZE * NPDEENTRY
  BY Sizes DEF PTSIZE, PDSIZE
<1>2. ASSUME NEW n \in Nat \ {0}, NEW a \in Nat
      PROVE  a \div n \in Nat /\ a % n \in 0..(n - 1) /\ a = n * (a \div n) + (a % n)
  OBVIOUS
<1>3. x \in Nat /\ k \in 0..(PTSIZE - 1) /\ la = PTSIZE * x + k
  BY <1>1, <1>2
<1> HIDE DEF x, k
<1>4. y \in Nat /\ j \in 0..(NPDEENTRY - 1) /\ x = NPDEENTRY * y + j
  BY <1>1, <1>2, <1>3
<1> HIDE DEF y, j
<1>5. la = PDSIZE * y + (PTSIZE * j + k)
  <2>1. PTSIZE * (NPDEENTRY * y + j) = (PTSIZE * NPDEENTRY) * y + PTSIZE * j
    BY <1>1, <1>4
  <2> QED
    BY <1>1, <1>3, <1>4, <2>1
<1>6. PTSIZE * j + k \in 0..(PDSIZE - 1)
  <2>1. PTSIZE * j \in Nat
    BY <1>1, <1>4
  <2>2. PTSIZE * (j + 1) <= PTSIZE * NPDEENTRY
    BY <1>1, <1>4
  <2>3. PTSIZE * (j + 1) = PTSIZE * j + PTSIZE
    BY <1>1, <1>4
  <2> QED
    BY <1>1, <1>3, <2>1, <2>2, <2>3
<1>7. PDX1(la) = y
  <2>1. (PDSIZE * y + (PTSIZE * j + k)) \div PDSIZE = y
    <3> DEFINE r == PTSIZE * j + k
    <3> HIDE DEF r
    <3> QED
      BY <1>4, <1>6, Sizes, DivMod DEF r
  <2> QED
    BY <1>5, <2>1 DEF PDX1
<1>8. PDX0(la) = j /\ PTX(la) = k
  BY <1>1 DEF PDX0, PTX, x, y, j, k
<1> QED
  BY <1>1, <1>3, <1>4, <1>5, <1>7, <1>8 DEF PD0, PT

\* Two addresses differ in an index.
LEMMA SameAddr ==
  ASSUME NEW la \in Addr, NEW lb \in Addr, PDX1(la) = PDX1(lb), PDX0(la) = PDX0(lb), PTX(la) = PTX(lb)
  PROVE  la = lb
<1>1. la \in Nat /\ lb \in Nat
  BY Sizes DEF Addr
<1> QED
  BY <1>1, AddrSum

\* Each index below USERTOP is one of an address.
LEMMA AddrOf ==
  ASSUME NEW i \in PD1, NEW j \in PD0, NEW k \in PT
  PROVE  \E la \in Addr : PDX1(la) = i /\ PDX0(la) = j /\ PTX(la) = k
<1> DEFINE b == PTSIZE * j + k
           la == PDSIZE * i + b
           x == NPDEENTRY * i + j
<1>1. /\ PTSIZE \in Nat \ {0} /\ NPDEENTRY \in Nat \ {0} /\ NROOT \in Nat \ {0}
      /\ PTSIZE = NPTEENTRY /\ PDSIZE = PTSIZE * NPDEENTRY /\ PDSIZE \in Nat \ {0}
      /\ USERTOP = PDSIZE * NROOT
  BY Sizes DEF PTSIZE, PDSIZE, USERTOP
<1>2. /\ i \in Nat /\ i + 1 <= NROOT /\ j \in Nat /\ j \in 0..(NPDEENTRY - 1) /\ j + 1 <= NPDEENTRY
      /\ k \in Nat /\ k \in 0..(PTSIZE - 1)
  BY <1>1 DEF PD1, PD0, PT
<1>3. b \in 0..(PDSIZE - 1)
  <2>1. PTSIZE * j \in Nat
    BY <1>1, <1>2
  <2>2. PTSIZE * (j + 1) <= PTSIZE * NPDEENTRY
    BY <1>1, <1>2
  <2>3. PTSIZE * (j + 1) = PTSIZE * j + PTSIZE
    BY <1>1, <1>2
  <2> QED
    BY <1>1, <1>2, <2>1, <2>2, <2>3
<1>4. la = PTSIZE * x + k /\ x \in Nat
  <2>1. PTSIZE * (NPDEENTRY * i + j) = (PTSIZE * NPDEENTRY) * i + PTSIZE * j
    BY <1>1, <1>2
  <2> QED
    BY <1>1, <1>2, <2>1
<1>5. la \in Addr
  <2> HIDE DEF b
  <2>1. PDSIZE * i \in Nat /\ PDSIZE * (i + 1) <= PDSIZE * NROOT
    BY <1>1, <1>2
  <2>2. PDSIZE * (i + 1) = PDSIZE * i + PDSIZE
    BY <1>1, <1>2
  <2> QED
    BY <1>1, <1>3, <2>1, <2>2 DEF Addr
<1>6. PDX1(la) = i
  <2> HIDE DEF b
  <2> QED
    BY <1>1, <1>2, <1>3, DivMod DEF PDX1
<1> HIDE DEF la
<1>7. la \div PTSIZE = x /\ la % PTSIZE = k
  <2> HIDE DEF x
  <2> QED
    BY <1>1, <1>2, <1>4, DivMod
<1>8. x % NPDEENTRY = j
  BY <1>1, <1>2, DivMod
<1>9. PDX0(la) = j /\ PTX(la) = k
  BY <1>1, <1>7, <1>8 DEF PDX0, PTX
<1> QED
  BY <1>5, <1>6, <1>9

-----------------------------------------------------------------------------
(* The levels of the page tables. *)

\* The entries of the tables P lie among I and lead to Q, one to each page of it.
Layer(tab, P, I, Q) ==
  /\ \A p \in P, i \in Index : tab[p][i] # invalid => i \in I /\ tab[p][i] \in Q
  /\ \A p, q \in P, i, j \in I : tab[p][i] = tab[q][j] /\ tab[p][i] # invalid => p = q /\ i = j
  /\ \A q \in Q : \E p \in P, i \in I : tab[p][i] = q

\* Tables come without entries.
LEMMA LayerParent ==
  ASSUME NEW tab, NEW P, NEW I \in SUBSET Index, NEW Q, Layer(tab, P, I, Q),
         NEW new, NEW x, \A p \in P : new[p] = tab[p], \A i \in Index : new[x][i] = invalid
  PROVE  Layer(new, P \cup {x}, I, Q)
BY DEF Layer

\* Entry i of p leads to x, and nothing else is new in the tables P.
Adds(new, tab, P, p, i, x) ==
  \A q \in P, j \in Index : new[q][j] = IF q = p /\ j = i THEN x ELSE tab[q][j]

\* An entry comes.
LEMMA LayerChild ==
  ASSUME NEW tab, NEW P, NEW I \in SUBSET Index, NEW Q, Layer(tab, P, I, Q),
         NEW p \in P, NEW i \in I, tab[p][i] = invalid, NEW x, x \notin Q, x # invalid,
         invalid \notin Q, NEW new, Adds(new, tab, P, p, i, x)
  PROVE  Layer(new, P, I, Q \cup {x})
<1> USE DEF Adds
<1>1. \A q \in P, j \in Index : new[q][j] # invalid => j \in I /\ new[q][j] \in Q \cup {x}
  BY DEF Layer
<1>2. \A q \in P, j \in I :
        /\ tab[q][j] # x
        /\ q = p /\ j = i => new[q][j] = x
        /\ ~(q = p /\ j = i) => new[q][j] = tab[q][j]
  BY DEF Layer
<1>3. ASSUME NEW q \in P, NEW r \in P, NEW j \in I, NEW k \in I,
             new[q][j] = new[r][k], new[q][j] # invalid
      PROVE  q = r /\ j = k
  <2>1. CASE new[q][j] = x
    <3>1. q = p /\ j = i
      BY <1>2, <2>1
    <3>2. r = p /\ k = i
      <4>1. new[r][k] = x
        BY <1>3, <2>1
      <4> QED
        BY <1>2, <4>1
    <3> QED
      BY <3>1, <3>2
  <2>2. CASE new[q][j] # x
    <3>1. new[q][j] = tab[q][j] /\ new[r][k] = tab[r][k]
      <4>1. new[r][k] # x
        BY <1>3, <2>2
      <4> QED
        BY <1>2, <2>2, <4>1
    <3>2. tab[q][j] = tab[r][k] /\ tab[q][j] # invalid
      BY <1>3, <3>1
    <3> QED
      BY <3>2 DEF Layer
  <2> QED
    BY <2>1, <2>2
<1>4. ASSUME NEW q \in Q \cup {x} PROVE \E r \in P, j \in I : new[r][j] = q
  <2>1. CASE q = x
    BY <1>2, <2>1
  <2>2. CASE q # x
    <3>1. PICK r \in P, j \in I : tab[r][j] = q
      BY <2>2 DEF Layer
    <3>2. ~(r = p /\ j = i)
      BY <2>2, <3>1
    <3> QED
      BY <1>2, <3>1, <3>2
  <2> QED
    BY <2>1, <2>2
<1> QED
  BY <1>1, <1>3, <1>4 DEF Layer

\* In new only the tables less count, and they have lost all entries but those that lead
\* to left.
Prunes(new, tab, P, I, Q, less, left) ==
  /\ less \subseteq P /\ left \subseteq Q /\ invalid \notin left
  /\ \A p \in less, i \in Index : new[p][i] \in {tab[p][i], invalid}
  /\ \A q \in left : \E p \in less, i \in I : new[p][i] = q
  /\ \A p \in less, i \in I : new[p][i] # invalid => new[p][i] \in left

\* Tables and entries go.
LEMMA LayerLess ==
  ASSUME NEW tab, NEW P, NEW I \in SUBSET Index, NEW Q, Layer(tab, P, I, Q),
         NEW new, NEW less, NEW left, Prunes(new, tab, P, I, Q, less, left)
  PROVE  Layer(new, less, I, left)
<1> USE DEF Prunes
<1>1. \A p \in less, i \in Index : new[p][i] # invalid => new[p][i] = tab[p][i] /\ p \in P
  OBVIOUS
<1>2. \A p \in less, i \in Index : new[p][i] # invalid => i \in I /\ new[p][i] \in left
  BY <1>1 DEF Layer
<1>3. \A p, q \in less, i, j \in I : new[p][i] = new[q][j] /\ new[p][i] # invalid => p = q /\ i = j
  BY <1>1 DEF Layer
<1> QED
  BY <1>2, <1>3 DEF Layer

-----------------------------------------------------------------------------
(* The forest. *)

\* The page directories, and the pages programs have; H are pages a function has in hand.
Roots(m) == {q \in Page \ m.free : m.data[q] = BOOT}
Users(m, H) == {q \in Page \ (m.free \cup H) : m.data[q] \in Value}

\* The directories of level 0, D, and the page tables, T, that are in use: a page directory
\* leads to those in D, these to those in T, these to the pages of programs.
Forest(m, H, D, T) ==
  /\ D \cap T = {} /\ D \subseteq Page /\ T \subseteq Page
  /\ \A q \in D \cup T : q \notin m.free /\ q \notin H /\ m.data[q] = TABLE
  /\ \A q \in m.free : m.ref[q] = 0
  /\ \A q \in m.free \cup H : m.data[q] \in Value /\ \A i \in Index : m.table[q][i] = invalid
  /\ \A q \in Users(m, H) : m.ref[q] = 1 /\ \A i \in Index : m.table[q][i] = invalid
  /\ Layer(m.table, Roots(m), PD1, D)
  /\ Layer(m.table, D, PD0, T)
  /\ Layer(m.table, T, PT, Users(m, H))

Good(m, H) ==
  /\ m \in Mem /\ ~m.panic
  /\ H \subseteq Page /\ \A q \in H : q \notin m.free
  /\ \A q \in Page : m.ref[q] \in Nat
  /\ \E D \in SUBSET Page, T \in SUBSET Page : Forest(m, H, D, T)

\* In n the directory r leads la to the same page as in m, and the page holds the same.
Agrees(m, n, r, la) ==
  /\ pte(n, r, la) = pte(m, r, la)
  /\ pte(m, r, la) # invalid => n.data[pte(m, r, la)] = m.data[pte(m, r, la)]

\* All directories lead all addresses where they did.
SameSpaces(m, n) ==
  /\ Roots(n) = Roots(m)
  /\ \A r \in Roots(m), la \in Addr : Agrees(m, n, r, la)

\* The entries of a table of any level are below those of the largest.
LEMMA IndexSets == PD1 \subseteq Index /\ PD0 \subseteq Index /\ PT \subseteq Index
BY Entries, Sizes DEF PD1, PD0, PT

\* The indices of an address.
LEMMA AddrIndices ==
  ASSUME NEW la \in Addr
  PROVE  /\ PDX1(la) \in PD1 /\ PDX0(la) \in PD0 /\ PTX(la) \in PT
         /\ PDX1(la) \in Index /\ PDX0(la) \in Index /\ PTX(la) \in Index
<1>1. la \in Nat
  BY Sizes DEF Addr
<1>2. PDX1(la) \in PD1 /\ PDX1(la) \in Index
  BY Indices, IndexSets DEF PD1
<1>3. PDX0(la) \in PD0 /\ PTX(la) \in PT
  BY <1>1, AddrSum
<1> QED
  BY <1>2, <1>3, IndexSets

\* The pages of the four kinds are different, and none is free.
Apart(m, H, D, T) ==
  /\ Roots(m) \subseteq Page /\ Users(m, H) \subseteq Page
  /\ D \subseteq Page /\ T \subseteq Page
  /\ \A q \in Roots(m) : q \notin D /\ q \notin T /\ q \notin Users(m, H) /\ q \notin m.free /\ q \notin H
  /\ \A q \in D : q \notin T /\ q \notin Users(m, H) /\ q \notin m.free /\ q \notin H
  /\ \A q \in T : q \notin Users(m, H) /\ q \notin m.free /\ q \notin H
  /\ \A q \in Users(m, H) : q \notin m.free /\ q \notin H
  /\ invalid \notin D /\ invalid \notin T /\ invalid \notin Users(m, H) /\ invalid \notin Roots(m)

\* Directories, page tables, pages of programs, free pages and pages in hand differ.
LEMMA KindsApart ==
  ASSUME NEW m \in Mem, NEW H \in SUBSET Page, NEW D \in SUBSET Page, NEW T \in SUBSET Page,
         Forest(m, H, D, T)
  PROVE  Apart(m, H, D, T)
<1>1. BOOT # TABLE /\ BOOT \notin Value /\ TABLE \notin Value
  BY AddressSpaceAssumption
<1>2. invalid \notin Page
  BY Pages
<1>3. Roots(m) \subseteq Page /\ Users(m, H) \subseteq Page
  BY DEF Roots, Users
<1>4. \A q \in Roots(m) : m.data[q] = BOOT /\ q \notin m.free
  BY DEF Roots
<1>5. \A q \in Users(m, H) : m.data[q] \in Value /\ q \notin m.free /\ q \notin H
  BY DEF Users
<1>6. \A q \in D \cup T : q \notin m.free /\ q \notin H /\ m.data[q] = TABLE
  BY DEF Forest
<1>7. \A q \in H : m.data[q] \in Value
  BY DEF Forest
<1>8. D \cap T = {}
  BY DEF Forest
<1> QED
  BY <1>1, <1>2, <1>3, <1>4, <1>5, <1>6, <1>7, <1>8 DEF Apart

\* A directory leads an address from level to level.
LEMMA Walk ==
  ASSUME NEW m \in Mem, NEW H \in SUBSET Page, NEW D \in SUBSET Page, NEW T \in SUBSET Page,
         Forest(m, H, D, T), NEW r \in Roots(m), NEW la \in Addr
  PROVE  /\ m.table[r][PDX1(la)] \in D \cup {invalid}
         /\ find_pt(m, r, la) \in T \cup {invalid}
         /\ pte(m, r, la) \in Users(m, H) \cup {invalid}
<1>1. PDX1(la) \in Index /\ PDX0(la) \in Index /\ PTX(la) \in Index
  BY AddrIndices
<1>2. m.table[r][PDX1(la)] \in D \cup {invalid}
  BY <1>1 DEF Forest, Layer
<1>3. find_pt(m, r, la) \in T \cup {invalid}
  BY <1>1, <1>2 DEF Forest, Layer, find_pt
<1>4. pte(m, r, la) \in Users(m, H) \cup {invalid}
  BY <1>1, <1>3 DEF Forest, Layer, pte
<1> QED
  BY <1>2, <1>3, <1>4

\* Two ways do not meet.
LEMMA WaysApart ==
  ASSUME NEW m \in Mem, NEW H \in SUBSET Page, NEW D \in SUBSET Page, NEW T \in SUBSET Page,
         Forest(m, H, D, T), NEW r \in Roots(m), NEW la \in Addr, NEW s \in Roots(m), NEW lb \in Addr
  PROVE  /\ find_pt(m, r, la) = find_pt(m, s, lb) /\ find_pt(m, r, la) # invalid =>
              r = s /\ PDX1(la) = PDX1(lb) /\ PDX0(la) = PDX0(lb)
         /\ pte(m, r, la) = pte(m, s, lb) /\ pte(m, r, la) # invalid => r = s /\ la = lb
<1>1. /\ PDX1(la) \in PD1 /\ PDX0(la) \in PD0 /\ PTX(la) \in PT
      /\ PDX1(lb) \in PD1 /\ PDX0(lb) \in PD0 /\ PTX(lb) \in PT
  BY AddrIndices
<1>2. ASSUME find_pt(m, r, la) = find_pt(m, s, lb), find_pt(m, r, la) # invalid
      PROVE  r = s /\ PDX1(la) = PDX1(lb) /\ PDX0(la) = PDX0(lb)
  <2> DEFINE d == m.table[r][PDX1(la)]
             e == m.table[s][PDX1(lb)]
  <2>1. d \in D \cup {invalid} /\ e \in D \cup {invalid}
    BY Walk
  <2>2. /\ find_pt(m, r, la) = IF d = invalid THEN invalid ELSE m.table[d][PDX0(la)]
        /\ find_pt(m, s, lb) = IF e = invalid THEN invalid ELSE m.table[e][PDX0(lb)]
    BY DEF find_pt
  <2>3. d \in D /\ e \in D /\ d # invalid
    BY <1>2, <2>1, <2>2
  <2>4. m.table[d][PDX0(la)] = m.table[e][PDX0(lb)] /\ m.table[d][PDX0(la)] # invalid
    BY <1>2, <2>3 DEF find_pt
  <2> HIDE DEF d, e
  <2>5. d = e /\ PDX0(la) = PDX0(lb)
    BY <1>1, <2>3, <2>4 DEF Forest, Layer
  <2>6. r = s /\ PDX1(la) = PDX1(lb)
    BY <1>1, <2>3, <2>5 DEF Forest, Layer, d, e
  <2> QED
    BY <2>5, <2>6
<1>3. ASSUME pte(m, r, la) = pte(m, s, lb), pte(m, r, la) # invalid
      PROVE  r = s /\ la = lb
  <2> DEFINE t == find_pt(m, r, la)
             u == find_pt(m, s, lb)
  <2>1. t \in T \cup {invalid} /\ u \in T \cup {invalid}
    BY Walk
  <2>2. /\ pte(m, r, la) = IF t = invalid THEN invalid ELSE m.table[t][PTX(la)]
        /\ pte(m, s, lb) = IF u = invalid THEN invalid ELSE m.table[u][PTX(lb)]
    BY DEF pte
  <2>3. t \in T /\ u \in T /\ t # invalid
    BY <1>3, <2>1, <2>2
  <2>4. m.table[t][PTX(la)] = m.table[u][PTX(lb)] /\ m.table[t][PTX(la)] # invalid
    BY <1>3, <2>3 DEF pte
  <2> HIDE DEF t, u
  <2>5. t = u /\ PTX(la) = PTX(lb)
    BY <1>1, <2>3, <2>4 DEF Forest, Layer
  <2>6. r = s /\ PDX1(la) = PDX1(lb) /\ PDX0(la) = PDX0(lb)
    BY <1>2, <2>3, <2>5 DEF t, u
  <2> QED
    BY <2>5, <2>6, SameAddr
<1> QED
  BY <1>2, <1>3

\* A layer stays when the entries of its tables do.
LEMMA SameLayer ==
  ASSUME NEW tab, NEW P, NEW I \in SUBSET Index, NEW Q, Layer(tab, P, I, Q),
         NEW new, \A p \in P, i \in Index : new[p][i] = tab[p][i]
  PROVE  Layer(new, P, I, Q)
<1>1. \A p \in P, i \in I : new[p][i] = tab[p][i]
  OBVIOUS
<1>2. \A p \in P, i \in Index : new[p][i] # invalid => i \in I /\ new[p][i] \in Q
  BY DEF Layer
<1>3. \A p, q \in P, i, j \in I : new[p][i] = new[q][j] /\ new[p][i] # invalid => p = q /\ i = j
  BY <1>1 DEF Layer
<1>4. \A q \in Q : \E p \in P, i \in I : new[p][i] = q
  BY <1>1 DEF Layer
<1> QED
  BY <1>2, <1>3, <1>4 DEF Layer

\* The tables P are the same in m and in n.
SameTables(m, n, P) == \A q \in P, i \in Index : n.table[q][i] = m.table[q][i]

\* Where the tables are the same, they lead to the same pages.
LEMMA SameWalk ==
  ASSUME NEW m \in Mem, NEW H \in SUBSET Page, NEW D \in SUBSET Page, NEW T \in SUBSET Page,
         Forest(m, H, D, T), NEW r \in Roots(m), NEW la \in Addr,
         NEW n, SameTables(m, n, Roots(m)), SameTables(m, n, D), SameTables(m, n, T)
  PROVE  find_pt(n, r, la) = find_pt(m, r, la) /\ pte(n, r, la) = pte(m, r, la)
<1> USE DEF SameTables
<1>1. PDX1(la) \in Index /\ PDX0(la) \in Index /\ PTX(la) \in Index
  BY AddrIndices
<1>2. n.table[r][PDX1(la)] = m.table[r][PDX1(la)] /\ m.table[r][PDX1(la)] \in D \cup {invalid}
  BY <1>1, Walk
<1>3. find_pt(n, r, la) = find_pt(m, r, la)
  <2> DEFINE d == m.table[r][PDX1(la)]
  <2>1. d = invalid \/ n.table[d][PDX0(la)] = m.table[d][PDX0(la)]
    BY <1>1, <1>2
  <2> QED
    BY <1>2, <2>1 DEF find_pt
<1>4. pte(n, r, la) = pte(m, r, la)
  <2> DEFINE t == find_pt(m, r, la)
  <2>1. t \in T \cup {invalid}
    BY Walk
  <2> HIDE DEF t
  <2>2. t = invalid \/ n.table[t][PTX(la)] = m.table[t][PTX(la)]
    BY <1>1, <2>1
  <2> QED
    BY <1>3, <2>2 DEF pte, t
<1> QED
  BY <1>3, <1>4

\* A page is taken in hand.
LEMMA TakeGood ==
  ASSUME NEW m, NEW H, Good(m, H), m.free # {}
  PROVE  LET p == lowest(m.free)
             n == take(m)
         IN  /\ p \in Page /\ p \in m.free /\ p \notin H /\ m.ref[p] = 0
             /\ n.ref = m.ref /\ n.data = m.data /\ n.table = m.table
             /\ Good(n, H \cup {p}) /\ SameSpaces(m, n)
<1> DEFINE p == lowest(m.free)
           n == take(m)
           J == H \cup {p}
<1>1. m \in Mem /\ ~m.panic /\ H \in SUBSET Page
  BY DEF Good
<1>2. PICK D \in SUBSET Page, T \in SUBSET Page : Forest(m, H, D, T)
  BY DEF Good
<1>3. p \in m.free /\ p \in Page
  BY <1>1, Lowest DEF Mem
<1>4. p \notin H /\ m.ref[p] = 0
  BY <1>2, <1>3 DEF Good, Forest
<1>5. n = [free |-> m.free \ {p}, ref |-> m.ref, table |-> m.table, data |-> m.data, panic |-> m.panic]
  <2>1. m = [free |-> m.free, ref |-> m.ref, table |-> m.table, data |-> m.data, panic |-> m.panic]
    BY <1>1 DEF Mem
  <2>2. n = [m EXCEPT !.free = m.free \ {p}]
    BY DEF take
  <2> HIDE DEF n, p
  <2> QED
    BY <2>1, <2>2
<1>6. n \in Mem
  BY <1>1, TakeType
<1> HIDE DEF p, n
<1>7. n.free = m.free \ {p} /\ n.ref = m.ref /\ n.table = m.table /\ n.data = m.data /\ n.panic = m.panic
  BY <1>5
<1>8. p \notin Roots(m) /\ m.data[p] \in Value /\ \A i \in Index : m.table[p][i] = invalid
  BY <1>2, <1>3 DEF Roots, Forest
<1>9. Roots(n) = Roots(m)
  <2>1. m.data[p] # BOOT
    BY <1>8, AddressSpaceAssumption
  <2> QED
    BY <1>7, <2>1 DEF Roots
<1>10. Users(n, J) = Users(m, H)
  BY <1>3, <1>7 DEF Users
<1>11. Forest(n, J, D, T)
  <2>1. m.free \cup H = n.free \cup J
    BY <1>3, <1>7
  <2>2. \A q \in D \cup T : q \notin n.free /\ q \notin J /\ n.data[q] = TABLE
    BY <1>2, <1>3, <1>7 DEF Forest
  <2>3. \A q \in n.free : n.ref[q] = 0
    BY <1>2, <1>7 DEF Forest
  <2>4. \A q \in n.free \cup J : n.data[q] \in Value /\ \A i \in Index : n.table[q][i] = invalid
    BY <1>2, <1>7, <2>1 DEF Forest
  <2>5. D \cap T = {}
    BY <1>2 DEF Forest
  <2>6. /\ \A q \in Users(n, J) : n.ref[q] = 1 /\ \A i \in Index : n.table[q][i] = invalid
        /\ Layer(n.table, Roots(n), PD1, D) /\ Layer(n.table, D, PD0, T)
        /\ Layer(n.table, T, PT, Users(n, J))
    BY <1>2, <1>7, <1>9, <1>10 DEF Forest
  <2> QED
    BY <2>2, <2>3, <2>4, <2>5, <2>6 DEF Forest
<1>12. Good(n, J)
  <2>1. J \subseteq Page /\ \A q \in J : q \notin n.free
    BY <1>1, <1>3, <1>7 DEF Good
  <2>2. \A q \in Page : n.ref[q] \in Nat
    BY <1>7 DEF Good
  <2> QED
    BY <1>1, <1>6, <1>7, <1>11, <2>1, <2>2 DEF Good
<1>13. SameSpaces(m, n)
  <2>1. ASSUME NEW r \in Roots(m), NEW la \in Addr PROVE pte(n, r, la) = pte(m, r, la)
    BY <1>7 DEF pte, find_pt
  <2> QED
    BY <1>7, <1>9, <2>1 DEF SameSpaces, Agrees
<1> QED
  BY <1>3, <1>4, <1>7, <1>12, <1>13 DEF p, n

\* The fields of physical memory.
LEMMA MemFields ==
  ASSUME NEW m \in Mem
  PROVE  /\ m = [free |-> m.free, ref |-> m.ref, table |-> m.table, data |-> m.data, panic |-> m.panic]
         /\ m.free \subseteq Page /\ m.ref \in [Page -> Int] /\ m.table \in [Page -> [Index -> Page \cup {invalid}]]
         /\ m.data \in [Page -> Content] /\ m.panic \in BOOLEAN
BY DEF Mem

\* n is m with the empty table p, entered at entry i of dir.
TableAdded(m, n, dir, i, p) ==
  /\ n \in Mem /\ n.free = m.free /\ n.panic = m.panic
  /\ \A q \in Page : n.ref[q] = IF q = p THEN 1 ELSE m.ref[q]
  /\ \A q \in Page : n.data[q] = IF q = p THEN TABLE ELSE m.data[q]
  /\ \A q \in Page, j \in Index :
       n.table[q][j] = IF q = dir /\ j = i THEN p ELSE IF q = p THEN invalid ELSE m.table[q][j]

\* What a new table changes.
LEMMA AddTableFields ==
  ASSUME NEW m \in Mem, NEW dir \in Page, NEW i \in Index, NEW p \in Page, p # dir
  PROVE  TableAdded(m, add_table(m, dir, i, p), dir, i, p)
<1> DEFINE n == add_table(m, dir, i, p)
           t == [m.table EXCEPT ![p] = empty]
           table == [t EXCEPT ![dir][i] = p]
           ref == [m.ref EXCEPT ![p] = 1]
           data == [m.data EXCEPT ![p] = TABLE]
<1>1. n \in Mem
  BY AddTableType
<1>2. n = [m EXCEPT !.ref = ref, !.data = data, !.table = table]
  BY MemFields DEF add_table
<1>3. n = [free |-> m.free, ref |-> ref, table |-> table, data |-> data, panic |-> m.panic]
  <2> HIDE DEF n, ref, table, data
  <2>1. m = [free |-> m.free, ref |-> m.ref, table |-> m.table, data |-> m.data, panic |-> m.panic]
    BY MemFields
  <2> QED
    BY <1>2, <2>1
<1>4. /\ \A q \in Page : ref[q] = IF q = p THEN 1 ELSE m.ref[q]
      /\ \A q \in Page : data[q] = IF q = p THEN TABLE ELSE m.data[q]
  BY MemFields
<1>5. ASSUME NEW q \in Page, NEW j \in Index
      PROVE  table[q][j] = IF q = dir /\ j = i THEN p ELSE IF q = p THEN invalid ELSE m.table[q][j]
  <2>1. t[q][j] = IF q = p THEN invalid ELSE m.table[q][j]
    <3>1. t[q] = IF q = p THEN empty ELSE m.table[q]
      BY MemFields
    <3>2. empty[j] = invalid
      BY DEF empty
    <3> QED
      BY <3>1, <3>2
  <2>2. t \in [Page -> [Index -> Page \cup {invalid}]]
    BY MemFields, Pages
  <2> HIDE DEF t
  <2>3. table[q][j] = IF q = dir /\ j = i THEN p ELSE t[q][j]
    BY <2>2
  <2> QED
    BY <2>1, <2>3
<1> HIDE DEF n, ref, table, data
<1> QED
  BY <1>1, <1>3, <1>4, <1>5 DEF n, TableAdded

\* A directory of level 0 comes.
LEMMA DirectoryGood ==
  ASSUME NEW m, NEW H, NEW p, p \notin H, Good(m, H \cup {p}), NEW r \in Roots(m), NEW i \in PD1,
         m.table[r][i] = invalid
  PROVE  LET n == add_table(m, r, i, p)
         IN  /\ Good(n, H) /\ SameSpaces(m, n) /\ n.table[r][i] = p /\ p # invalid
             /\ \A q \in H : n.ref[q] = m.ref[q]
<1> DEFINE n == add_table(m, r, i, p)
           J == H \cup {p}
<1>1. m \in Mem /\ ~m.panic /\ J \in SUBSET Page /\ H \in SUBSET Page /\ p \in Page /\ p # invalid
  BY Pages DEF Good
<1>2. PICK D \in SUBSET Page, T \in SUBSET Page : Forest(m, J, D, T)
  BY DEF Good
<1>3. p \in J /\ (\A q \in H : q \in J /\ q # p) /\ (\A q \in J : q \in H \/ q = p) /\ Good(m, J)
  OBVIOUS
<1> HIDE DEF J
<1>4. Apart(m, J, D, T)
  BY <1>1, <1>2, KindsApart
<1>5. r \in Page /\ r # p /\ i \in Index /\ p \notin m.free
  BY <1>3, <1>4, IndexSets DEF Good, Apart
<1>6. p \notin D /\ p \notin T /\ p \notin Users(m, J) /\ p \notin Roots(m) /\ r \notin D /\ r \notin T
  BY <1>3, <1>4 DEF Apart
<1>7. /\ n \in Mem /\ n.free = m.free /\ n.panic = m.panic
      /\ \A q \in Page : n.ref[q] = IF q = p THEN 1 ELSE m.ref[q]
      /\ \A q \in Page : n.data[q] = IF q = p THEN TABLE ELSE m.data[q]
      /\ \A q \in Page, j \in Index :
           n.table[q][j] = IF q = r /\ j = i THEN p ELSE IF q = p THEN invalid ELSE m.table[q][j]
  <2>1. TableAdded(m, n, r, i, p)
    BY <1>1, <1>5, AddTableFields
  <2> HIDE DEF n
  <2> QED
    BY <2>1 DEF TableAdded
<1> HIDE DEF n
<1>8. Roots(n) = Roots(m)
  <2>1. BOOT # TABLE /\ m.data[p] # BOOT
    BY <1>2, <1>3, AddressSpaceAssumption DEF Forest
  <2> QED
    BY <1>1, <1>7, <2>1 DEF Roots
<1>9. Users(n, H) = Users(m, J)
  <2>1. TABLE \notin Value
    BY AddressSpaceAssumption
  <2> QED
    BY <1>1, <1>7, <1>3, <2>1 DEF Users
<1>10. Forest(n, H, D \cup {p}, T)
  <2>1. (D \cup {p}) \cap T = {} /\ D \cup {p} \subseteq Page
    BY <1>1, <1>2, <1>6 DEF Forest
  <2>2. \A q \in (D \cup {p}) \cup T : q \notin n.free /\ q \notin H /\ n.data[q] = TABLE
    <3>1. \A q \in D \cup T : q \in Page /\ q # p /\ q \notin H /\ q \notin m.free /\ m.data[q] = TABLE
      BY <1>2, <1>6, <1>3, <1>4 DEF Forest, Apart
    <3>2. \A q \in D \cup T : n.data[q] = TABLE
      BY <1>7, <3>1
    <3>3. n.data[p] = TABLE
      BY <1>1, <1>7
    <3> QED
      BY <1>5, <1>7, <3>1, <3>2, <3>3
  <2>3. \A q \in n.free : n.ref[q] = 0
    BY <1>1, <1>2, <1>5, <1>7, MemFields DEF Forest
  <2>4. \A q \in n.free \cup H : q \in Page /\ q # p /\ q # r /\ q \in m.free \cup J
    BY <1>1, <1>5, <1>7, <1>3, <1>4, MemFields DEF Apart
  <2>5. \A q \in n.free \cup H : n.data[q] \in Value /\ \A j \in Index : n.table[q][j] = invalid
    <3>1. \A q \in n.free \cup H : m.data[q] \in Value /\ \A j \in Index : m.table[q][j] = invalid
      BY <1>2, <2>4 DEF Forest
    <3> QED
      BY <1>7, <2>4, <3>1
  <2>6. \A q \in Users(n, H) : q \in Page /\ q # p /\ q # r
    BY <1>6, <1>9, <1>4 DEF Apart
  <2>7. \A q \in Users(n, H) : n.ref[q] = 1 /\ \A j \in Index : n.table[q][j] = invalid
    BY <1>2, <1>7, <1>9, <2>6 DEF Forest
  <2>8. Layer(n.table, Roots(n), PD1, D \cup {p})
    <3>1. Layer(m.table, Roots(m), PD1, D)
      BY <1>2 DEF Forest
    <3>2. \A q \in Roots(m), j \in Index : n.table[q][j] = IF q = r /\ j = i THEN p ELSE m.table[q][j]
      <4>1. \A q \in Roots(m) : q \in Page /\ q # p
        BY <1>6 DEF Roots
      <4> QED
        BY <1>7, <4>1
    <3>3. invalid \notin D /\ PD1 \in SUBSET Index
      BY <1>4, IndexSets DEF Apart
    <3> DEFINE tab == m.table
               new == n.table
               P == Roots(m)
    <3> HIDE DEF tab, new, P
    <3>4. Layer(tab, P, PD1, D) /\ r \in P /\ tab[r][i] = invalid
      BY <3>1 DEF tab, P
    <3>5. Adds(new, tab, P, r, i, p)
      BY <3>2 DEF tab, new, P, Adds
    <3>6. Layer(new, P, PD1, D \cup {p})
      BY <1>1, <1>6, <3>3, <3>4, <3>5, LayerChild
    <3> QED
      BY <1>8, <3>6 DEF new, P
  <2>9. Layer(n.table, D \cup {p}, PD0, T)
    <3>1. Layer(m.table, D, PD0, T)
      BY <1>2 DEF Forest
    <3>2. \A q \in D, j \in Index : n.table[q][j] = m.table[q][j]
      BY <1>6, <1>7
    <3>3. \A j \in Index : n.table[p][j] = invalid
      BY <1>1, <1>5, <1>7
    <3>4. Layer(n.table, D, PD0, T)
      BY <3>1, <3>2, IndexSets, SameLayer
    <3> QED
      BY <3>3, <3>4, IndexSets, LayerParent
  <2>10. Layer(n.table, T, PT, Users(n, H))
    <3>1. Layer(m.table, T, PT, Users(m, J))
      BY <1>2 DEF Forest
    <3>2. \A q \in T, j \in Index : n.table[q][j] = m.table[q][j]
      BY <1>6, <1>7
    <3> QED
      BY <1>9, <3>1, <3>2, IndexSets, SameLayer
  <2>11. T \subseteq Page
    OBVIOUS
  <2> QED
    BY <2>1, <2>2, <2>3, <2>5, <2>7, <2>8, <2>9, <2>10, <2>11 DEF Forest
<1>11. Good(n, H)
  <2>1. \A q \in H : q \notin n.free
    BY <1>7 DEF Good
  <2>2. \A q \in Page : n.ref[q] \in Nat
    BY <1>7 DEF Good
  <2>3. D \cup {p} \in SUBSET Page
    BY <1>1
  <2> QED
    BY <1>1, <1>7, <1>10, <2>1, <2>2, <2>3 DEF Good
<1>12. ASSUME NEW s \in Roots(m), NEW la \in Addr PROVE Agrees(m, n, s, la)
  <2>1. PDX1(la) \in Index /\ PDX0(la) \in Index /\ PTX(la) \in Index
    BY AddrIndices
  <2>2. pte(n, s, la) = pte(m, s, la)
    <3>1. s \in Page /\ s # p
      BY <1>6 DEF Roots
    <3>2. CASE s = r /\ PDX1(la) = i
      <4>1. find_pt(m, s, la) = invalid
        BY <3>2 DEF find_pt
      <4>2. n.table[s][PDX1(la)] = p /\ n.table[p][PDX0(la)] = invalid
        BY <1>1, <1>5, <1>7, <2>1, <3>2
      <4>3. find_pt(n, s, la) = invalid
        BY <4>2 DEF find_pt
      <4> QED
        BY <4>1, <4>3 DEF pte
    <3>3. CASE ~(s = r /\ PDX1(la) = i)
      <4> DEFINE d == m.table[s][PDX1(la)]
                 t == find_pt(m, s, la)
      <4>1. n.table[s][PDX1(la)] = d
        BY <1>7, <2>1, <3>1, <3>3
      <4>2. d \in D \cup {invalid} /\ t \in T \cup {invalid}
        BY <1>1, <1>2, Walk
      <4>3. t = IF d = invalid THEN invalid ELSE m.table[d][PDX0(la)]
        BY DEF find_pt
      <4>4. find_pt(n, s, la) = IF d = invalid THEN invalid ELSE n.table[d][PDX0(la)]
        BY <4>1 DEF find_pt
      <4> HIDE DEF d, t
      <4>5. find_pt(n, s, la) = t
        <5>1. d \in D => n.table[d][PDX0(la)] = m.table[d][PDX0(la)]
          BY <1>6, <1>7, <2>1
        <5> QED
          BY <4>2, <4>3, <4>4, <5>1
      <4>6. t \in T => n.table[t][PTX(la)] = m.table[t][PTX(la)]
        BY <1>6, <1>7, <2>1
      <4> QED
        BY <4>2, <4>5, <4>6 DEF pte, t
    <3> QED
      BY <3>2, <3>3
  <2>3. pte(m, s, la) # invalid => pte(m, s, la) \in Page /\ pte(m, s, la) # p
    <3>1. pte(m, s, la) \in Users(m, J) \cup {invalid}
      BY <1>1, <1>2, Walk
    <3> QED
      BY <1>6, <1>4, <3>1 DEF Apart
  <2> QED
    BY <1>7, <2>2, <2>3 DEF Agrees
<1>13. n.table[r][i] = p /\ \A q \in H : n.ref[q] = m.ref[q]
  BY <1>1, <1>5, <1>7
<1>14. SameSpaces(m, n)
  BY <1>8, <1>12 DEF SameSpaces
<1> QED
  BY <1>1, <1>11, <1>13, <1>14 DEF n

\* A page table comes.
LEMMA PageTableGood ==
  ASSUME NEW m, NEW H, NEW p, p \notin H, Good(m, H \cup {p}), NEW r \in Roots(m), NEW la \in Addr,
         NEW d, d = m.table[r][PDX1(la)], d # invalid, m.table[d][PDX0(la)] = invalid
  PROVE  LET n == add_table(m, d, PDX0(la), p)
         IN  /\ Good(n, H) /\ SameSpaces(m, n) /\ find_pt(n, r, la) = p /\ p # invalid
             /\ \A q \in H : n.ref[q] = m.ref[q]
<1> DEFINE J == H \cup {p}
           i == PDX0(la)
           n == add_table(m, d, i, p)
<1>1. m \in Mem /\ ~m.panic /\ J \in SUBSET Page /\ H \in SUBSET Page /\ p \in Page /\ p # invalid
  BY Pages DEF Good
<1>2. PICK D \in SUBSET Page, T \in SUBSET Page : Forest(m, J, D, T)
  BY DEF Good
<1>3. p \in J /\ (\A q \in H : q \in J /\ q # p) /\ (\A q \in J : q \in H \/ q = p) /\ Good(m, J)
  OBVIOUS
<1> HIDE DEF J
<1>4. Apart(m, J, D, T)
  BY <1>1, <1>2, KindsApart
<1>5. i \in PD0 /\ i \in Index /\ PDX1(la) \in Index
  BY AddrIndices
<1>6. d \in D /\ d \in Page
  <2>1. m.table[r][PDX1(la)] \in D \cup {invalid}
    BY <1>1, <1>2, Walk
  <2> QED
    BY <2>1
<1> HIDE DEF i
<1>7. /\ p \notin D /\ p \notin T /\ p \notin Users(m, J) /\ p \notin Roots(m)
      /\ d \notin Roots(m) /\ d \notin T /\ d \notin Users(m, J) /\ d # p
  BY <1>3, <1>4, <1>6 DEF Apart
<1>8. p \notin m.free /\ d \notin m.free /\ d \notin J
  BY <1>3, <1>4, <1>6 DEF Good, Apart
<1>9. /\ n \in Mem /\ n.free = m.free /\ n.panic = m.panic
      /\ \A q \in Page : n.ref[q] = IF q = p THEN 1 ELSE m.ref[q]
      /\ \A q \in Page : n.data[q] = IF q = p THEN TABLE ELSE m.data[q]
      /\ \A q \in Page, j \in Index :
           n.table[q][j] = IF q = d /\ j = i THEN p ELSE IF q = p THEN invalid ELSE m.table[q][j]
  <2>1. m \in Mem /\ d \in Page /\ i \in Index /\ p \in Page /\ p # d
    BY <1>1, <1>7, <1>5, <1>6
  <2>2. TableAdded(m, n, d, i, p)
    BY <2>1, AddTableFields
  <2> HIDE DEF n
  <2> QED
    BY <2>2 DEF TableAdded
<1> HIDE DEF n
<1>10. Roots(n) = Roots(m)
  <2>1. BOOT # TABLE /\ m.data[p] # BOOT
    BY <1>2, <1>3, AddressSpaceAssumption DEF Forest
  <2> QED
    BY <1>1, <1>9, <2>1 DEF Roots
<1>11. Users(n, H) = Users(m, J)
  <2>1. TABLE \notin Value
    BY AddressSpaceAssumption
  <2> QED
    BY <1>1, <1>9, <1>3, <2>1 DEF Users
<1>12. Forest(n, H, D, T \cup {p})
  <2>1. D \cap (T \cup {p}) = {} /\ T \cup {p} \subseteq Page
    BY <1>1, <1>2, <1>7 DEF Forest
  <2>2. \A q \in D \cup (T \cup {p}) : q \notin n.free /\ q \notin H /\ n.data[q] = TABLE
    <3>1. \A q \in D \cup T : q \in Page /\ q # p /\ q \notin H /\ q \notin m.free /\ m.data[q] = TABLE
      BY <1>2, <1>7, <1>3, <1>4 DEF Forest, Apart
    <3>2. \A q \in D \cup T : n.data[q] = TABLE
      BY <1>9, <3>1
    <3>3. n.data[p] = TABLE
      BY <1>1, <1>9
    <3> QED
      BY <1>8, <1>9, <3>1, <3>2, <3>3
  <2>3. \A q \in n.free : n.ref[q] = 0
    BY <1>1, <1>2, <1>8, <1>9, MemFields DEF Forest
  <2>4. \A q \in n.free \cup H : q \in Page /\ q # p /\ q # d /\ q \in m.free \cup J
    BY <1>1, <1>8, <1>9, <1>3, <1>4, MemFields DEF Apart
  <2>5. \A q \in n.free \cup H : n.data[q] \in Value /\ \A j \in Index : n.table[q][j] = invalid
    <3>1. \A q \in n.free \cup H : m.data[q] \in Value /\ \A j \in Index : m.table[q][j] = invalid
      BY <1>2, <2>4 DEF Forest
    <3> QED
      BY <1>9, <2>4, <3>1
  <2>6. \A q \in Users(n, H) : q \in Page /\ q # p /\ q # d
    BY <1>7, <1>11, <1>4 DEF Apart
  <2>7. \A q \in Users(n, H) : n.ref[q] = 1 /\ \A j \in Index : n.table[q][j] = invalid
    BY <1>2, <1>9, <1>11, <2>6 DEF Forest
  <2>8. Layer(n.table, Roots(n), PD1, D)
    <3>1. Layer(m.table, Roots(m), PD1, D)
      BY <1>2 DEF Forest
    <3>2. \A q \in Roots(m), j \in Index : n.table[q][j] = m.table[q][j]
      <4>1. \A q \in Roots(m) : q \in Page /\ q # p /\ q # d
        BY <1>7 DEF Roots
      <4> QED
        BY <1>9, <4>1
    <3> QED
      BY <1>10, <3>1, <3>2, IndexSets, SameLayer
  <2>9. Layer(n.table, D, PD0, T \cup {p})
    <3>1. Layer(m.table, D, PD0, T)
      BY <1>2 DEF Forest
    <3>2. \A q \in D, j \in Index : n.table[q][j] = IF q = d /\ j = i THEN p ELSE m.table[q][j]
      <4>1. \A q \in D : q \in Page /\ q # p
        BY <1>7
      <4> QED
        BY <1>9, <4>1
    <3>3. invalid \notin T /\ PD0 \in SUBSET Index /\ m.table[d][i] = invalid
      BY <1>4, IndexSets DEF Apart, i
    <3> DEFINE tab == m.table
               new == n.table
    <3> HIDE DEF tab, new
    <3>4. Layer(tab, D, PD0, T) /\ tab[d][i] = invalid
      BY <3>1, <3>3 DEF tab
    <3>5. Adds(new, tab, D, d, i, p)
      BY <3>2 DEF tab, new, Adds
    <3>6. Layer(new, D, PD0, T \cup {p})
      BY <1>1, <1>7, <1>5, <1>6, <3>3, <3>4, <3>5, LayerChild
    <3> QED
      BY <3>6 DEF new
  <2>10. Layer(n.table, T \cup {p}, PT, Users(n, H))
    <3>1. Layer(m.table, T, PT, Users(m, J))
      BY <1>2 DEF Forest
    <3>2. \A q \in T, j \in Index : n.table[q][j] = m.table[q][j]
      BY <1>7, <1>9
    <3>3. \A j \in Index : n.table[p][j] = invalid
      BY <1>1, <1>7, <1>9
    <3>4. Layer(n.table, T, PT, Users(n, H))
      BY <1>11, <3>1, <3>2, IndexSets, SameLayer
    <3> QED
      BY <3>3, <3>4, IndexSets, LayerParent
  <2>11. D \subseteq Page
    OBVIOUS
  <2> QED
    BY <2>1, <2>2, <2>3, <2>5, <2>7, <2>8, <2>9, <2>10, <2>11 DEF Forest
<1>13. Good(n, H)
  <2>1. \A q \in H : q \notin n.free
    BY <1>9 DEF Good
  <2>2. \A q \in Page : n.ref[q] \in Nat
    BY <1>9 DEF Good
  <2>3. T \cup {p} \in SUBSET Page
    BY <1>1
  <2> QED
    BY <1>1, <1>9, <1>12, <2>1, <2>2, <2>3 DEF Good
<1>14. ASSUME NEW s \in Roots(m), NEW lb \in Addr PROVE Agrees(m, n, s, lb)
  <2>1. PDX1(lb) \in Index /\ PDX0(lb) \in Index /\ PTX(lb) \in Index
    BY AddrIndices
  <2>2. pte(n, s, lb) = pte(m, s, lb)
    <3> DEFINE e == m.table[s][PDX1(lb)]
               t == find_pt(m, s, lb)
    <3>1. s \in Page /\ s # p /\ s # d
      BY <1>7 DEF Roots
    <3>2. n.table[s][PDX1(lb)] = e
      BY <1>9, <2>1, <3>1
    <3>3. e \in D \cup {invalid} /\ t \in T \cup {invalid}
      BY <1>1, <1>2, Walk
    <3>4. t = IF e = invalid THEN invalid ELSE m.table[e][PDX0(lb)]
      BY DEF find_pt
    <3>5. find_pt(n, s, lb) = IF e = invalid THEN invalid ELSE n.table[e][PDX0(lb)]
      BY <3>2 DEF find_pt
    <3>6. pte(m, s, lb) = IF t = invalid THEN invalid ELSE m.table[t][PTX(lb)]
      BY DEF pte
    <3> HIDE DEF e, t
    <3>7. CASE e = d /\ PDX0(lb) = i
      <4>1. t = invalid
        BY <3>4, <3>7 DEF i
      <4>2. find_pt(n, s, lb) = p /\ n.table[p][PTX(lb)] = invalid
        <5>1. n.table[e][PDX0(lb)] = p /\ n.table[p][PTX(lb)] = invalid
          BY <1>1, <1>7, <1>9, <1>5, <1>6, <2>1, <3>7
        <5>2. e # invalid
          BY <3>7
        <5> QED
          BY <3>5, <5>1, <5>2
      <4> QED
        BY <3>6, <4>1, <4>2 DEF pte
    <3>8. CASE ~(e = d /\ PDX0(lb) = i)
      <4>1. e \in D => n.table[e][PDX0(lb)] = m.table[e][PDX0(lb)]
        BY <1>7, <1>9, <2>1, <3>8
      <4>2. find_pt(n, s, lb) = t
        BY <3>3, <3>4, <3>5, <4>1
      <4>3. t \in T => n.table[t][PTX(lb)] = m.table[t][PTX(lb)]
        BY <1>7, <1>9, <2>1
      <4> QED
        BY <3>3, <3>6, <4>2, <4>3 DEF pte
    <3> QED
      BY <3>7, <3>8
  <2>3. pte(m, s, lb) # invalid => pte(m, s, lb) \in Page /\ pte(m, s, lb) # p
    <3>1. pte(m, s, lb) \in Users(m, J) \cup {invalid}
      BY <1>1, <1>2, Walk
    <3> QED
      BY <1>7, <1>4, <3>1 DEF Apart
  <2> QED
    BY <1>9, <2>2, <2>3 DEF Agrees
<1>15. find_pt(n, r, la) = p
  <2>1. r \in Page /\ r # p /\ r # d
    BY <1>7 DEF Roots
  <2>2. n.table[r][PDX1(la)] = d
    BY <1>9, <1>5, <2>1
  <2>3. n.table[d][PDX0(la)] = p
    BY <1>9, <1>5, <1>6 DEF i
  <2> QED
    BY <2>2, <2>3 DEF find_pt
<1>16. \A q \in H : n.ref[q] = m.ref[q]
  BY <1>1, <1>9
<1>17. SameSpaces(m, n)
  BY <1>10, <1>14 DEF SameSpaces
<1> QED
  BY <1>1, <1>13, <1>15, <1>17, <1>16 DEF n, i

\* n is m with more tables, maybe: all that is mapped is as it was, and so are the pages in hand.
Serves(m, n, H) ==
  /\ Good(n, H) /\ SameSpaces(m, n)
  /\ \A q \in H : n.ref[q] = m.ref[q]

\* Two functions one after the other.
LEMMA SameSpacesTwice ==
  ASSUME NEW m, NEW n, NEW o, SameSpaces(m, n), SameSpaces(n, o)
  PROVE  SameSpaces(m, o)
BY DEF SameSpaces, Agrees

\* The first step of get_pte.
LEMMA AllocDirectoryGood ==
  ASSUME NEW m, NEW H, Good(m, H), NEW r \in Roots(m), NEW i \in PD1
  PROVE  LET n == alloc_table(m, r, i)
         IN  n.panic \/ (Serves(m, n, H) /\ n.table[r][i] # invalid)
<1> DEFINE n == alloc_table(m, r, i)
           p == lowest(m.free)
           t == take(m)
<1>1. m \in Mem
  BY DEF Good
<1>2. CASE m.table[r][i] # invalid
  BY <1>2 DEF alloc_table, Serves, SameSpaces, Agrees
<1>3. CASE m.table[r][i] = invalid /\ m.free = {}
  BY <1>1, <1>3, StopType DEF alloc_table
<1>4. CASE m.table[r][i] = invalid /\ m.free # {}
  <2> DEFINE a == add_table(t, r, i, p)
  <2>1. n = a
    BY <1>4 DEF alloc_table
  <2> HIDE DEF n
  <2>2. /\ p \in Page /\ p \in m.free /\ p \notin H /\ m.ref[p] = 0
        /\ t.ref = m.ref /\ t.data = m.data /\ t.table = m.table
        /\ Good(t, H \cup {p}) /\ SameSpaces(m, t)
    BY <1>4, TakeGood
  <2> HIDE DEF p, t
  <2>3. r \in Roots(t) /\ t.table[r][i] = invalid
    BY <1>4, <2>2 DEF SameSpaces
  <2>4. /\ Good(a, H) /\ SameSpaces(t, a) /\ a.table[r][i] = p /\ p # invalid
        /\ \A q \in H : a.ref[q] = t.ref[q]
    BY <2>2, <2>3, DirectoryGood
  <2> HIDE DEF a
  <2>5. SameSpaces(m, a)
    BY <2>2, <2>4, SameSpacesTwice
  <2> QED
    BY <2>1, <2>2, <2>4, <2>5 DEF Serves, n
<1> QED
  BY <1>2, <1>3, <1>4

\* The second.
LEMMA AllocPageTableGood ==
  ASSUME NEW m, NEW H, Good(m, H), NEW r \in Roots(m), NEW la \in Addr,
         NEW d, d = m.table[r][PDX1(la)], d # invalid
  PROVE  LET n == alloc_table(m, d, PDX0(la))
         IN  n.panic \/ (Serves(m, n, H) /\ find_pt(n, r, la) # invalid)
<1> DEFINE i == PDX0(la)
           n == alloc_table(m, d, i)
           p == lowest(m.free)
           t == take(m)
<1>1. m \in Mem
  BY DEF Good
<1>2. CASE m.table[d][i] # invalid
  <2>1. n = m
    BY <1>2 DEF alloc_table
  <2>2. Serves(m, m, H)
    BY DEF Serves, SameSpaces, Agrees
  <2>3. find_pt(m, r, la) # invalid
    BY <1>2 DEF find_pt
  <2> QED
    BY <2>1, <2>2, <2>3
<1>3. CASE m.table[d][i] = invalid /\ m.free = {}
  BY <1>1, <1>3, StopType DEF alloc_table
<1>4. CASE m.table[d][i] = invalid /\ m.free # {}
  <2> DEFINE a == add_table(t, d, i, p)
  <2>1. n = a
    BY <1>4 DEF alloc_table
  <2> HIDE DEF n
  <2>2. /\ p \in Page /\ p \in m.free /\ p \notin H /\ m.ref[p] = 0
        /\ t.ref = m.ref /\ t.data = m.data /\ t.table = m.table
        /\ Good(t, H \cup {p}) /\ SameSpaces(m, t)
    BY <1>4, TakeGood
  <2> HIDE DEF p, t
  <2>3. r \in Roots(t) /\ d = t.table[r][PDX1(la)] /\ t.table[d][PDX0(la)] = invalid
    BY <1>4, <2>2 DEF SameSpaces
  <2>4. /\ Good(a, H) /\ SameSpaces(t, a) /\ find_pt(a, r, la) = p /\ p # invalid
        /\ \A q \in H : a.ref[q] = t.ref[q]
    BY <2>2, <2>3, PageTableGood
  <2> HIDE DEF a
  <2>5. SameSpaces(m, a)
    BY <2>2, <2>4, SameSpacesTwice
  <2> QED
    BY <2>1, <2>2, <2>4, <2>5 DEF Serves, n
<1> QED
  BY <1>2, <1>3, <1>4

\* get_pte makes the tables that are missing, or panics; no address space changes.
LEMMA GetPteGood ==
  ASSUME NEW m, NEW H, Good(m, H), NEW r \in Roots(m), NEW la \in Addr
  PROVE  LET n == get_pte(m, r, la)
         IN  n.panic \/ (Serves(m, n, H) /\ find_pt(n, r, la) # invalid)
<1> DEFINE a == alloc_table(m, r, PDX1(la))
           d == a.table[r][PDX1(la)]
           n == get_pte(m, r, la)
           b == alloc_table(a, d, PDX0(la))
<1>1. PDX1(la) \in PD1
  BY AddrIndices
<1>2. a.panic \/ (Serves(m, a, H) /\ d # invalid)
  BY <1>1, AllocDirectoryGood
<1>3. n = IF a.panic THEN a ELSE b
  BY DEF get_pte, get_pt
<1> HIDE DEF a, n
<1>4. CASE a.panic
  BY <1>3, <1>4 DEF n
<1>5. CASE ~a.panic
  <2>1. Good(a, H) /\ SameSpaces(m, a) /\ d # invalid /\ \A q \in H : a.ref[q] = m.ref[q]
    BY <1>2, <1>5 DEF Serves
  <2>2. r \in Roots(a)
    BY <2>1 DEF SameSpaces
  <2>3. b.panic \/ (Serves(a, b, H) /\ find_pt(b, r, la) # invalid)
    <3> HIDE DEF d
    <3>1. d = a.table[r][PDX1(la)]
      BY DEF d
    <3> QED
      BY <2>1, <2>2, <3>1, AllocPageTableGood
  <2> HIDE DEF b
  <2>4. Serves(a, b, H) => Serves(m, b, H)
    <3> SUFFICES ASSUME Serves(a, b, H) PROVE Serves(m, b, H)
      OBVIOUS
    <3>1. Good(b, H) /\ SameSpaces(a, b) /\ \A q \in H : b.ref[q] = a.ref[q]
      BY DEF Serves
    <3>2. SameSpaces(m, b)
      BY <2>1, <3>1, SameSpacesTwice
    <3> QED
      BY <2>1, <3>1, <3>2 DEF Serves
  <2> QED
    BY <1>3, <1>5, <2>3, <2>4 DEF n
<1> QED
  BY <1>4, <1>5
-----------------------------------------------------------------------------
(* A mapping goes, or comes. *)

\* What a mapping that goes changes when it was the only one of its page.
LEMMA ClearFields ==
  ASSUME NEW m \in Mem, NEW t \in Page, NEW i \in Index, NEW p \in Page, p = m.table[t][i],
         m.ref[p] = 1, m.data[p] # TABLE
  PROVE  LET n == clear_pte(m, t, i)
         IN  /\ n \in Mem /\ n.free = m.free \cup {p} /\ n.panic = m.panic /\ n.data = m.data
             /\ \A q \in Page : n.ref[q] = IF q = p THEN 0 ELSE m.ref[q]
             /\ \A q \in Page, j \in Index :
                  n.table[q][j] = IF q = p \/ (q = t /\ j = i) THEN invalid ELSE m.table[q][j]
<1> DEFINE c == [m EXCEPT !.table[t][i] = invalid]
           ct == [m.table EXCEPT ![t][i] = invalid]
           n == free_page(c, p)
           ref == [m.ref EXCEPT ![p] = 0]
           data == [m.data EXCEPT ![p] = IF m.data[p] = TABLE THEN ZERO ELSE m.data[p]]
           table == [ct EXCEPT ![p] = empty]
<1>1. c = [free |-> m.free, ref |-> m.ref, table |-> ct, data |-> m.data, panic |-> m.panic]
  <2>1. m = [free |-> m.free, ref |-> m.ref, table |-> m.table, data |-> m.data, panic |-> m.panic]
    BY MemFields
  <2>2. c = [m EXCEPT !.table = ct]
    BY MemFields
  <2> HIDE DEF c, ct
  <2> QED
    BY <2>1, <2>2
<1>2. c \in Mem
  BY SetEntryType
<1>3. ct \in [Page -> [Index -> Page \cup {invalid}]]
  <2> HIDE DEF c, ct
  <2>1. c.table = ct
    BY <1>1
  <2> QED
    BY <1>2, <2>1, MemFields
<1>4. ASSUME NEW q \in Page, NEW j \in Index
      PROVE  table[q][j] = IF q = p \/ (q = t /\ j = i) THEN invalid ELSE m.table[q][j]
  <2>1. ct[q][j] = IF q = t /\ j = i THEN invalid ELSE m.table[q][j]
    BY MemFields
  <2> HIDE DEF ct
  <2>2. table[q] = IF q = p THEN empty ELSE ct[q]
    BY <1>3
  <2>3. empty[j] = invalid
    BY DEF empty
  <2> HIDE DEF table
  <2> QED
    BY <2>1, <2>2, <2>3
<1>5. data = m.data
  BY MemFields
<1>6. \A q \in Page : ref[q] = IF q = p THEN 0 ELSE m.ref[q]
  BY MemFields
<1> HIDE DEF c, ct
<1>7. n = [c EXCEPT !.free = m.free \cup {p}, !.ref = ref, !.table = table, !.data = data]
  <2>1. c.free = m.free /\ c.ref = m.ref /\ c.table = ct /\ c.data = m.data
    BY <1>1
  <2> QED
    BY <2>1 DEF free_page
<1>8. n \in Mem
  BY <1>2, FreeType
<1>9. clear_pte(m, t, i) = n
  <2>1. c.ref[p] = 1
    BY <1>1
  <2>2. clear_pte(m, t, i) = unref(c, p)
    BY DEF clear_pte, c
  <2> QED
    BY <2>1, <2>2 DEF unref
<1> HIDE DEF n, ref, data, table
<1>10. n = [free |-> m.free \cup {p}, ref |-> ref, table |-> table, data |-> data, panic |-> m.panic]
  BY <1>1, <1>7
<1> QED
  BY <1>4, <1>5, <1>6, <1>8, <1>9, <1>10

\* n is m but for what the directory r leads the addresses A to.
Edited(m, n, r, A) ==
  /\ Roots(n) = Roots(m)
  /\ \A s \in Roots(m), la \in Addr : ~(s = r /\ la \in A) => Agrees(m, n, s, la)

\* page_remove: the page that was mapped is free.
LEMMA RemoveGood ==
  ASSUME NEW m, NEW H, Good(m, H), NEW r \in Roots(m), NEW la \in Addr
  PROVE  LET n == page_remove(m, r, la)
         IN  /\ Good(n, H) /\ Edited(m, n, r, {la}) /\ pte(n, r, la) = invalid
             /\ find_pt(n, r, la) = find_pt(m, r, la)
             /\ \A q \in H : n.ref[q] = m.ref[q]
<1> DEFINE n == page_remove(m, r, la)
           p == pte(m, r, la)
           t == find_pt(m, r, la)
           i == PTX(la)
<1>1. CASE p = invalid
  BY <1>1 DEF page_remove, Edited, Agrees
<1>2. CASE p # invalid
  <2>1. m \in Mem /\ ~m.panic /\ H \in SUBSET Page
    BY DEF Good
  <2>2. PICK D \in SUBSET Page, T \in SUBSET Page : Forest(m, H, D, T)
    BY DEF Good
  <2>3. Apart(m, H, D, T)
    BY <2>1, <2>2, KindsApart
  <2>4. i \in PT /\ i \in Index
    BY AddrIndices
  <2>5. t \in T \cup {invalid} /\ p \in Users(m, H) \cup {invalid}
    BY <2>1, <2>2, Walk
  <2>6. p = IF t = invalid THEN invalid ELSE m.table[t][i]
    BY DEF pte
  <2>7. n = clear_pte(m, t, i)
    BY <1>2 DEF page_remove
  <2> HIDE DEF n, p, t, i
  <2>8. /\ t \in T /\ t \in Page /\ p \in Users(m, H) /\ p \in Page /\ p = m.table[t][i] /\ p # t
        /\ p \notin D /\ p \notin T /\ p \notin Roots(m) /\ p \notin H /\ t \notin D /\ t \notin Roots(m)
    BY <1>2, <2>3, <2>5, <2>6 DEF Apart
  <2>9. m.ref[p] = 1 /\ m.data[p] \in Value /\ m.data[p] # TABLE
    BY <2>2, <2>8, AddressSpaceAssumption DEF Forest, Users
  <2>10. /\ n \in Mem /\ n.free = m.free \cup {p} /\ n.panic = m.panic /\ n.data = m.data
         /\ \A q \in Page : n.ref[q] = IF q = p THEN 0 ELSE m.ref[q]
         /\ \A q \in Page, j \in Index :
              n.table[q][j] = IF q = p \/ (q = t /\ j = i) THEN invalid ELSE m.table[q][j]
    BY <2>1, <2>4, <2>7, <2>8, <2>9, ClearFields
  <2>11. Roots(n) = Roots(m)
    BY <2>8, <2>10 DEF Roots
  <2>12. Users(n, H) = Users(m, H) \ {p}
    BY <2>10 DEF Users
  <2>13. Layer(m.table, Roots(m), PD1, D) /\ Layer(m.table, D, PD0, T) /\ Layer(m.table, T, PT, Users(m, H))
    BY <2>2 DEF Forest
  <2>14. Forest(n, H, D, T)
    <3>1. D \cap T = {} /\ \A q \in D \cup T : q \notin n.free /\ q \notin H /\ n.data[q] = TABLE
      BY <2>2, <2>8, <2>10 DEF Forest
    <3>2. \A q \in n.free : n.ref[q] = 0
      BY <2>1, <2>2, <2>10, MemFields DEF Forest
    <3>3. \A q \in n.free \cup H : n.data[q] \in Value /\ \A j \in Index : n.table[q][j] = invalid
      <4>1. \A q \in n.free \cup H : q \in Page /\ (q = p \/ q \in m.free \cup H)
        BY <2>1, <2>8, <2>10, MemFields
      <4>2. \A q \in m.free \cup H : m.data[q] \in Value /\ \A j \in Index : m.table[q][j] = invalid
        BY <2>2 DEF Forest
      <4> QED
        BY <2>9, <2>10, <4>1, <4>2
    <3>4. \A q \in Users(n, H) : n.ref[q] = 1 /\ \A j \in Index : n.table[q][j] = invalid
      <4>1. \A q \in Users(n, H) : q \in Users(m, H) /\ q # p /\ q \in Page
        BY <2>3, <2>12 DEF Apart
      <4>2. \A q \in Users(m, H) : m.ref[q] = 1 /\ \A j \in Index : m.table[q][j] = invalid
        BY <2>2 DEF Forest
      <4> QED
        BY <2>10, <4>1, <4>2
    <3>5. Layer(n.table, Roots(n), PD1, D)
      <4>1. \A q \in Roots(m), j \in Index : n.table[q][j] = m.table[q][j]
        <5>1. \A q \in Roots(m) : q \in Page /\ q # p /\ q # t
          BY <2>8 DEF Roots
        <5> QED
          BY <2>10, <5>1
      <4> QED
        BY <2>11, <2>13, <4>1, IndexSets, SameLayer
    <3>6. Layer(n.table, D, PD0, T)
      <4>1. \A q \in D, j \in Index : n.table[q][j] = m.table[q][j]
        BY <2>8, <2>10
      <4> QED
        BY <2>13, <4>1, IndexSets, SameLayer
    <3>7. Layer(n.table, T, PT, Users(n, H))
      <4>1. \A q \in T, j \in Index : n.table[q][j] = IF q = t /\ j = i THEN invalid ELSE m.table[q][j]
        BY <2>8, <2>10
      <4>2. ASSUME NEW q \in T, NEW j \in Index, n.table[q][j] # invalid
            PROVE  j \in PT /\ n.table[q][j] = m.table[q][j] /\ m.table[q][j] \in Users(m, H) /\ m.table[q][j] # p
        <5>1. n.table[q][j] = m.table[q][j] /\ ~(q = t /\ j = i)
          BY <4>1, <4>2
        <5>2. j \in PT /\ m.table[q][j] \in Users(m, H)
          BY <2>13, <4>2, <5>1 DEF Layer
        <5>3. m.table[q][j] # p
          <6> SUFFICES ASSUME m.table[q][j] = m.table[t][i] PROVE FALSE
            BY <2>8
          <6>1. q = t /\ j = i
            BY <2>4, <2>8, <2>13, <4>2, <5>1, <5>2 DEF Layer
          <6> QED
            BY <5>1, <6>1
        <5> QED
          BY <5>1, <5>2, <5>3
      <4>3. ASSUME NEW q \in Users(m, H) \ {p} PROVE \E u \in T, j \in PT : n.table[u][j] = q
        <5>1. PICK u \in T, j \in PT : m.table[u][j] = q
          BY <2>13 DEF Layer
        <5>2. ~(u = t /\ j = i) /\ j \in Index
          BY <2>8, <5>1, IndexSets
        <5> QED
          BY <4>1, <5>1, <5>2
      <4>4. \A u, q \in T, j, k \in PT :
              n.table[u][j] = n.table[q][k] /\ n.table[u][j] # invalid => u = q /\ j = k
        <5> SUFFICES ASSUME NEW u \in T, NEW q \in T, NEW j \in PT, NEW k \in PT,
                            n.table[u][j] = n.table[q][k], n.table[u][j] # invalid
                     PROVE  u = q /\ j = k
          OBVIOUS
        <5>1. j \in Index /\ k \in Index
          BY IndexSets
        <5>2. m.table[u][j] = m.table[q][k] /\ m.table[u][j] # invalid
          BY <4>2, <5>1
        <5> QED
          BY <2>13, <5>2 DEF Layer
      <4>5. \A q \in T, j \in Index : n.table[q][j] # invalid => j \in PT /\ n.table[q][j] \in Users(n, H)
        BY <2>12, <4>2
      <4> QED
        BY <2>12, <4>3, <4>4, <4>5 DEF Layer
    <3> QED
      BY <3>1, <3>2, <3>3, <3>4, <3>5, <3>6, <3>7 DEF Forest
  <2>15. Good(n, H)
    <3>1. \A q \in H : q \notin n.free
      BY <2>8, <2>10 DEF Good
    <3>2. \A q \in Page : n.ref[q] \in Nat
      BY <2>10 DEF Good
    <3> QED
      BY <2>1, <2>10, <2>14, <3>1, <3>2 DEF Good
  <2>16. ASSUME NEW s \in Roots(m), NEW lb \in Addr
         PROVE  /\ find_pt(n, s, lb) = find_pt(m, s, lb)
                /\ pte(n, s, lb) = IF s = r /\ lb = la THEN invalid ELSE pte(m, s, lb)
    <3> DEFINE e == m.table[s][PDX1(lb)]
               u == find_pt(m, s, lb)
    <3>1. PDX1(lb) \in Index /\ PDX0(lb) \in Index /\ PTX(lb) \in Index
      BY AddrIndices
    <3>2. n.table[s][PDX1(lb)] = e
      <4>1. s \in Page /\ s # p /\ s # t
        BY <2>8 DEF Roots
      <4> QED
        BY <2>10, <3>1, <4>1
    <3>3. e \in D \cup {invalid} /\ u \in T \cup {invalid}
      BY <2>1, <2>2, Walk
    <3>4. /\ u = IF e = invalid THEN invalid ELSE m.table[e][PDX0(lb)]
          /\ find_pt(n, s, lb) = IF e = invalid THEN invalid ELSE n.table[e][PDX0(lb)]
      BY <3>2 DEF find_pt
    <3>5. pte(m, s, lb) = IF u = invalid THEN invalid ELSE m.table[u][PTX(lb)]
      BY DEF pte
    <3>6. s = r /\ lb = la => u = t /\ PTX(lb) = i
      BY DEF t, i
    <3>7. u = t /\ PTX(lb) = i => s = r /\ lb = la
      <4> SUFFICES ASSUME u = t, PTX(lb) = i PROVE s = r /\ lb = la
        OBVIOUS
      <4>1. pte(m, s, lb) = pte(m, r, la) /\ pte(m, s, lb) # invalid
        BY <1>2, <2>6, <3>5 DEF p
      <4> QED
        BY <2>1, <2>2, <4>1, WaysApart
    <3> HIDE DEF e, u
    <3>8. find_pt(n, s, lb) = u
      <4>1. e \in D => n.table[e][PDX0(lb)] = m.table[e][PDX0(lb)]
        BY <2>8, <2>10, <3>1
      <4> QED
        BY <3>3, <3>4, <4>1
    <3>9. u \in T => n.table[u][PTX(lb)] = IF u = t /\ PTX(lb) = i THEN invalid ELSE m.table[u][PTX(lb)]
      BY <2>8, <2>10, <3>1
    <3>10. pte(n, s, lb) = IF u = invalid THEN invalid ELSE n.table[u][PTX(lb)]
      BY <3>8 DEF pte
    <3>11. find_pt(n, s, lb) = find_pt(m, s, lb)
      BY <3>8 DEF u
    <3> QED
      BY <2>8, <3>3, <3>5, <3>6, <3>7, <3>9, <3>10, <3>11
  <2>17. Edited(m, n, r, {la})
    <3>1. ASSUME NEW s \in Roots(m), NEW lb \in Addr, ~(s = r /\ lb = la) PROVE Agrees(m, n, s, lb)
      <4>1. pte(n, s, lb) = pte(m, s, lb)
        BY <2>16, <3>1
      <4> QED
        BY <2>10, <4>1 DEF Agrees
    <3> QED
      BY <2>11, <3>1 DEF Edited
  <2>18. pte(n, r, la) = invalid /\ find_pt(n, r, la) = find_pt(m, r, la)
    BY <2>16
  <2>19. \A q \in H : n.ref[q] = m.ref[q]
    BY <2>1, <2>8, <2>10
  <2> QED
    BY <2>15, <2>17, <2>18, <2>19 DEF n
<1> QED
  BY <1>1, <1>2

\* What an entry that is set changes.
LEMMA SetFields ==
  ASSUME NEW m \in Mem, NEW t \in Page, NEW i \in Index, NEW p \in Page
  PROVE  LET n == [m EXCEPT !.table[t][i] = p]
         IN  /\ n \in Mem /\ n.free = m.free /\ n.panic = m.panic /\ n.data = m.data /\ n.ref = m.ref
             /\ \A q \in Page, j \in Index : n.table[q][j] = IF q = t /\ j = i THEN p ELSE m.table[q][j]
<1> DEFINE table == [m.table EXCEPT ![t][i] = p]
           n == [m EXCEPT !.table[t][i] = p]
<1>1. n \in Mem
  BY SetEntryType
<1>2. n = [m EXCEPT !.table = table]
  BY MemFields
<1>3. \A q \in Page, j \in Index : table[q][j] = IF q = t /\ j = i THEN p ELSE m.table[q][j]
  BY MemFields
<1> HIDE DEF table, n
<1>4. n = [free |-> m.free, ref |-> m.ref, table |-> table, data |-> m.data, panic |-> m.panic]
  <2>1. m = [free |-> m.free, ref |-> m.ref, table |-> m.table, data |-> m.data, panic |-> m.panic]
    BY MemFields
  <2> QED
    BY <1>2, <2>1
<1> QED
  BY <1>1, <1>3, <1>4 DEF n

\* A page in hand is mapped where nothing is.
LEMMA SetGood ==
  ASSUME NEW m, NEW p, Good(m, {p}), m.ref[p] = 1, NEW r \in Roots(m), NEW la \in Addr,
         find_pt(m, r, la) # invalid, pte(m, r, la) = invalid
  PROVE  LET n == set_pte(m, r, p, la)
         IN  Good(n, {}) /\ Edited(m, n, r, {la}) /\ pte(n, r, la) = p /\ p # invalid
<1> DEFINE n == set_pte(m, r, p, la)
           t == find_pt(m, r, la)
           i == PTX(la)
           H == {p}
<1>1. m \in Mem /\ ~m.panic /\ H \in SUBSET Page /\ p \in Page /\ p # invalid /\ p \notin m.free
  BY Pages DEF Good
<1>2. PICK D \in SUBSET Page, T \in SUBSET Page : Forest(m, H, D, T)
  BY DEF Good
<1>3. Apart(m, H, D, T)
  BY <1>1, <1>2, KindsApart
<1>4. i \in PT /\ i \in Index
  BY AddrIndices
<1>5. t \in T /\ t \in Page
  <2>1. t \in T \cup {invalid}
    BY <1>1, <1>2, Walk
  <2> QED
    BY <2>1
<1>6. m.table[t][i] = invalid
  BY DEF pte
<1>7. n = [m EXCEPT !.table[t][i] = p]
  BY DEF set_pte
<1>8. p \in H
  OBVIOUS
<1> HIDE DEF n, t, i
<1>9. /\ p # t /\ p \notin D /\ p \notin T /\ p \notin Roots(m) /\ p \notin Users(m, H)
      /\ t \notin D /\ t \notin Roots(m) /\ t \notin Users(m, H) /\ t \notin m.free /\ t # p
  BY <1>3, <1>5, <1>8 DEF Apart
<1>10. /\ n \in Mem /\ n.free = m.free /\ n.panic = m.panic /\ n.data = m.data /\ n.ref = m.ref
       /\ \A q \in Page, j \in Index : n.table[q][j] = IF q = t /\ j = i THEN p ELSE m.table[q][j]
  BY <1>1, <1>4, <1>5, <1>7, SetFields
<1>11. Roots(n) = Roots(m)
  BY <1>10 DEF Roots
<1>12. m.data[p] \in Value /\ \A j \in Index : m.table[p][j] = invalid
  BY <1>2, <1>8 DEF Forest
<1>13. Users(n, {}) = Users(m, H) \cup {p}
  BY <1>1, <1>10, <1>12 DEF Users
<1>14. Layer(m.table, Roots(m), PD1, D) /\ Layer(m.table, D, PD0, T) /\ Layer(m.table, T, PT, Users(m, H))
  BY <1>2 DEF Forest
<1>15. Forest(n, {}, D, T)
  <2>1. D \cap T = {} /\ \A q \in D \cup T : q \notin n.free /\ n.data[q] = TABLE
    BY <1>2, <1>10 DEF Forest
  <2>2. \A q \in n.free : n.ref[q] = 0
    BY <1>2, <1>10 DEF Forest
  <2>3. \A q \in n.free : n.data[q] \in Value /\ \A j \in Index : n.table[q][j] = invalid
    <3>1. \A q \in m.free : q \in Page /\ q # t
      BY <1>1, <1>9, MemFields
    <3>2. \A q \in m.free : m.data[q] \in Value /\ \A j \in Index : m.table[q][j] = invalid
      BY <1>2 DEF Forest
    <3> QED
      BY <1>10, <3>1, <3>2
  <2>4. \A q \in Users(n, {}) : n.ref[q] = 1 /\ \A j \in Index : n.table[q][j] = invalid
    <3>1. \A q \in Users(m, H) : q \in Page /\ q # t /\ m.ref[q] = 1 /\ \A j \in Index : m.table[q][j] = invalid
      BY <1>2, <1>3, <1>9 DEF Forest, Apart
    <3>2. \A j \in Index : n.table[p][j] = invalid
      BY <1>1, <1>9, <1>10, <1>12
    <3>3. n.ref[p] = 1
      BY <1>10
    <3>4. ASSUME NEW q \in Users(m, H) PROVE n.ref[q] = 1 /\ \A j \in Index : n.table[q][j] = invalid
      <4>1. q \in Page /\ q # t /\ m.ref[q] = 1
        BY <3>1
      <4>2. \A j \in Index : m.table[q][j] = invalid
        BY <3>1
      <4> QED
        BY <1>10, <4>1, <4>2
    <3> QED
      BY <1>13, <3>2, <3>3, <3>4
  <2>5. Layer(n.table, Roots(n), PD1, D)
    <3>1. \A q \in Roots(m), j \in Index : n.table[q][j] = m.table[q][j]
      <4>1. \A q \in Roots(m) : q \in Page /\ q # t
        BY <1>9 DEF Roots
      <4> QED
        BY <1>10, <4>1
    <3> QED
      BY <1>11, <1>14, <3>1, IndexSets, SameLayer
  <2>6. Layer(n.table, D, PD0, T)
    <3>1. \A q \in D, j \in Index : n.table[q][j] = m.table[q][j]
      BY <1>9, <1>10
    <3> QED
      BY <1>14, <3>1, IndexSets, SameLayer
  <2>7. Layer(n.table, T, PT, Users(n, {}))
    <3> DEFINE tab == m.table
               new == n.table
               U == Users(m, H)
    <3>1. invalid \notin U /\ PT \in SUBSET Index
      BY <1>3, IndexSets DEF Apart
    <3>2. Layer(tab, T, PT, U) /\ tab[t][i] = invalid
      BY <1>6, <1>14
    <3>3. Adds(new, tab, T, t, i, p)
      BY <1>10 DEF Adds
    <3>4. p \notin U
      BY <1>9
    <3> HIDE DEF tab, new, U
    <3>5. Layer(new, T, PT, U \cup {p})
      BY <1>1, <1>4, <1>5, <3>1, <3>2, <3>3, <3>4, LayerChild
    <3> QED
      BY <1>13, <3>5 DEF new, U
  <2> QED
    BY <2>1, <2>2, <2>3, <2>4, <2>5, <2>6, <2>7 DEF Forest
<1>16. Good(n, {})
  <2>1. \A q \in Page : n.ref[q] \in Nat
    BY <1>10 DEF Good
  <2> QED
    BY <1>1, <1>10, <1>15, <2>1 DEF Good
<1>17. ASSUME NEW s \in Roots(m), NEW lb \in Addr
       PROVE  pte(n, s, lb) = IF s = r /\ lb = la THEN p ELSE pte(m, s, lb)
  <2> DEFINE e == m.table[s][PDX1(lb)]
             u == find_pt(m, s, lb)
  <2>1. PDX1(lb) \in Index /\ PDX0(lb) \in Index /\ PTX(lb) \in Index
    BY AddrIndices
  <2>2. n.table[s][PDX1(lb)] = e
    <3>1. s \in Page /\ s # t
      BY <1>9 DEF Roots
    <3> QED
      BY <1>10, <2>1, <3>1
  <2>3. e \in D \cup {invalid} /\ u \in T \cup {invalid}
    BY <1>1, <1>2, Walk
  <2>4. /\ u = IF e = invalid THEN invalid ELSE m.table[e][PDX0(lb)]
        /\ find_pt(n, s, lb) = IF e = invalid THEN invalid ELSE n.table[e][PDX0(lb)]
    BY <2>2 DEF find_pt
  <2>5. pte(m, s, lb) = IF u = invalid THEN invalid ELSE m.table[u][PTX(lb)]
    BY DEF pte
  <2>6. s = r /\ lb = la => u = t /\ PTX(lb) = i
    BY DEF t, i
  <2>7. u = t /\ PTX(lb) = i => s = r /\ lb = la
    <3> SUFFICES ASSUME u = t, PTX(lb) = i PROVE s = r /\ lb = la
      OBVIOUS
    <3>1. find_pt(m, s, lb) = find_pt(m, r, la) /\ find_pt(m, s, lb) # invalid
      BY DEF t
    <3>2. s = r /\ PDX1(lb) = PDX1(la) /\ PDX0(lb) = PDX0(la)
      BY <1>1, <1>2, <3>1, WaysApart
    <3> QED
      BY <3>2, SameAddr DEF i
  <2> HIDE DEF e, u
  <2>8. find_pt(n, s, lb) = u
    <3>1. e \in D => n.table[e][PDX0(lb)] = m.table[e][PDX0(lb)]
      BY <1>9, <1>10, <2>1
    <3> QED
      BY <2>3, <2>4, <3>1
  <2>9. u \in T => n.table[u][PTX(lb)] = IF u = t /\ PTX(lb) = i THEN p ELSE m.table[u][PTX(lb)]
    BY <1>10, <2>1
  <2>10. pte(n, s, lb) = IF u = invalid THEN invalid ELSE n.table[u][PTX(lb)]
    BY <2>8 DEF pte
  <2>11. invalid \notin T
    BY <1>3 DEF Apart
  <2> QED
    BY <1>5, <2>3, <2>5, <2>6, <2>7, <2>9, <2>10, <2>11
<1>18. Edited(m, n, r, {la})
  <2>1. ASSUME NEW s \in Roots(m), NEW lb \in Addr, ~(s = r /\ lb = la) PROVE Agrees(m, n, s, lb)
    <3>1. pte(n, s, lb) = pte(m, s, lb)
      BY <1>17, <2>1
    <3> QED
      BY <1>10, <3>1 DEF Agrees
  <2> QED
    BY <1>11, <2>1 DEF Edited
<1>19. pte(n, r, la) = p
  BY <1>17
<1> QED
  BY <1>1, <1>16, <1>18, <1>19 DEF n

\* Two edits of a directory one after the other,
LEMMA EditedTwice ==
  ASSUME NEW m, NEW n, NEW o, NEW r, NEW A, NEW B, Edited(m, n, r, A), Edited(n, o, r, B)
  PROVE  Edited(m, o, r, A \cup B)
BY DEF Edited, Agrees

\* none at all,
LEMMA SameEdited ==
  ASSUME NEW m, NEW n, NEW r, NEW A, SameSpaces(m, n)
  PROVE  Edited(m, n, r, A)
BY DEF SameSpaces, Edited

\* and one that is said to be of more than it was.
LEMMA EditedMore ==
  ASSUME NEW m, NEW n, NEW r, NEW A, Edited(m, n, r, A), NEW B, A \subseteq B
  PROVE  Edited(m, n, r, B)
BY DEF Edited

\* page_insert of a page in hand.
LEMMA MapGood ==
  ASSUME NEW m, NEW p, Good(m, {p}), m.ref[p] = 0, NEW r \in Roots(m), NEW la \in Addr,
         find_pt(m, r, la) # invalid
  PROVE  LET n == map_page(m, r, p, la)
         IN  Good(n, {}) /\ Edited(m, n, r, {la}) /\ pte(n, r, la) = p /\ p # invalid
<1> DEFINE n == map_page(m, r, p, la)
           c == [m EXCEPT !.ref[p] = @ + 1]
           ref == [m.ref EXCEPT ![p] = m.ref[p] + 1]
           x == page_remove(c, r, la)
<1>1. m \in Mem /\ ~m.panic /\ {p} \in SUBSET Page /\ p \in Page /\ p \notin m.free
  BY DEF Good
<1>2. PICK D \in SUBSET Page, T \in SUBSET Page : Forest(m, {p}, D, T)
  BY DEF Good
<1>3. p \notin Users(m, {p}) /\ pte(m, r, la) # p
  <2>1. pte(m, r, la) \in Users(m, {p}) \cup {invalid}
    BY <1>1, <1>2, Walk
  <2>2. p # invalid /\ p \notin Users(m, {p})
    BY <1>1, Pages DEF Users
  <2> QED
    BY <2>1, <2>2
<1>4. n = set_pte(x, r, p, la)
  BY <1>1, <1>3 DEF map_page
<1>5. c = [free |-> m.free, ref |-> ref, table |-> m.table, data |-> m.data, panic |-> m.panic]
  <2>1. m = [free |-> m.free, ref |-> m.ref, table |-> m.table, data |-> m.data, panic |-> m.panic]
    BY <1>1, MemFields
  <2>2. c = [m EXCEPT !.ref = ref]
    BY <1>1, MemFields
  <2> HIDE DEF c, ref
  <2> QED
    BY <2>1, <2>2
<1>6. ref[p] = 1 /\ \A q \in Page : q # p => ref[q] = m.ref[q]
  BY <1>1, MemFields
<1>7. ref \in [Page -> Int]
  <2>1. m.ref[p] + 1 \in Int
    BY <1>1
  <2> QED
    BY <1>1, <2>1, MemFields
<1> HIDE DEF c, ref, n, x
<1>8. c \in Mem
  BY <1>1, <1>5, <1>7 DEF Mem
<1>9. c.free = m.free /\ c.table = m.table /\ c.data = m.data /\ ~c.panic /\ c.ref = ref
  BY <1>1, <1>5
<1>10. Roots(c) = Roots(m) /\ Users(c, {p}) = Users(m, {p})
  BY <1>9 DEF Roots, Users
<1>11. Forest(c, {p}, D, T)
  <2>1. \A q \in m.free : c.ref[q] = m.ref[q]
    BY <1>1, <1>6, <1>9, MemFields
  <2>2. \A q \in Users(m, {p}) : c.ref[q] = m.ref[q]
    BY <1>3, <1>6, <1>9 DEF Users
  <2>3. /\ Layer(m.table, Roots(m), PD1, D) /\ Layer(m.table, D, PD0, T)
        /\ Layer(m.table, T, PT, Users(m, {p}))
    BY <1>2 DEF Forest
  <2>4. /\ Layer(c.table, Roots(c), PD1, D) /\ Layer(c.table, D, PD0, T)
        /\ Layer(c.table, T, PT, Users(c, {p}))
    BY <1>9, <1>10, <2>3
  <2>5. \A q \in Users(m, {p}) : m.ref[q] = 1 /\ \A i \in Index : m.table[q][i] = invalid
    BY <1>2 DEF Forest
  <2>6. \A q \in Users(c, {p}) : c.ref[q] = 1 /\ \A i \in Index : c.table[q][i] = invalid
    BY <1>9, <1>10, <2>2, <2>5
  <2>7. /\ D \cap T = {} /\ \A q \in D \cup T : q \notin c.free /\ q \notin {p} /\ c.data[q] = TABLE
        /\ \A q \in c.free : c.ref[q] = 0
    BY <1>2, <1>9, <2>1 DEF Forest
  <2>8. \A q \in c.free \cup {p} : c.data[q] \in Value /\ \A i \in Index : c.table[q][i] = invalid
    BY <1>2, <1>9 DEF Forest
  <2> QED
    BY <2>4, <2>6, <2>7, <2>8 DEF Forest
<1>12. Good(c, {p})
  <2>1. \A q \in Page : c.ref[q] \in Nat
    BY <1>6, <1>9 DEF Good
  <2> QED
    BY <1>1, <1>8, <1>9, <1>11, <2>1 DEF Good
<1>13. \A s, lb : pte(c, s, lb) = pte(m, s, lb) /\ find_pt(c, s, lb) = find_pt(m, s, lb)
  BY <1>9 DEF pte, find_pt
<1>14. SameSpaces(m, c)
  BY <1>9, <1>10, <1>13 DEF SameSpaces, Agrees
<1>15. Edited(m, c, r, {la})
  BY <1>14, SameEdited
<1>16. /\ Good(x, {p}) /\ Edited(c, x, r, {la}) /\ pte(x, r, la) = invalid
       /\ find_pt(x, r, la) = find_pt(c, r, la)
       /\ \A q \in {p} : x.ref[q] = c.ref[q]
  BY <1>10, <1>12, RemoveGood DEF x
<1>17. x.ref[p] = 1 /\ find_pt(x, r, la) # invalid /\ r \in Roots(x)
  BY <1>6, <1>9, <1>10, <1>13, <1>16 DEF Edited
<1>18. Good(n, {}) /\ Edited(x, n, r, {la}) /\ pte(n, r, la) = p /\ p # invalid
  BY <1>4, <1>16, <1>17, SetGood
<1>19. Edited(m, n, r, {la})
  <2> DEFINE A == {la}
  <2>1. A \cup A = A
    OBVIOUS
  <2>2. Edited(m, c, r, A) /\ Edited(c, x, r, A) /\ Edited(x, n, r, A)
    BY <1>15, <1>16, <1>18
  <2> HIDE DEF A
  <2>3. Edited(m, x, r, A \cup A)
    BY <2>2, EditedTwice
  <2>4. Edited(m, n, r, (A \cup A) \cup A)
    BY <2>2, <2>3, EditedTwice
  <2>5. Edited(m, n, r, A)
    BY <2>1, <2>4
  <2> QED
    BY <2>5 DEF A
<1> QED
  BY <1>18, <1>19 DEF n

\* A kernel that has panicked stays so.
LEMMA PanicStays ==
  ASSUME NEW m \in Mem, m.panic, NEW r, NEW la
  PROVE  /\ pgdir_alloc_page(m, r, la).panic
         /\ \A v : new_page(m, r, la, v).panic
<1>1. ASSUME NEW x \in Mem, x.panic, NEW d, NEW i PROVE alloc_table(x, d, i).panic
  <2>1. stop(x).panic
    BY StopType
  <2>2. ASSUME x.free # {} PROVE add_table(take(x), d, i, lowest(x.free)).panic
    <3> DEFINE t == take(x)
               p == lowest(x.free)
               a == add_table(t, d, i, p)
    <3>1. t.panic /\ t \in Mem
      BY <1>1, TakeType DEF take, Mem
    <3> HIDE DEF t, p
    <3>2. a.panic = t.panic
      BY <3>1 DEF add_table, Mem
    <3> QED
      BY <3>1, <3>2 DEF t, p
  <2> QED
    BY <1>1, <2>1, <2>2 DEF alloc_table
<1>2. pgdir_alloc_page(m, r, la).panic
  <2>1. stop(m).panic
    BY StopType
  <2>2. ASSUME m.free # {} PROVE page_insert(take(m), r, lowest(m.free), la).panic
    <3> DEFINE t == take(m)
               p == lowest(m.free)
               a == alloc_table(t, r, PDX1(la))
    <3>1. t.panic /\ t \in Mem
      BY TakeType DEF take, Mem
    <3> HIDE DEF t
    <3>2. a.panic
      BY <1>1, <3>1
    <3> HIDE DEF a
    <3>3. get_pte(t, r, la) = a
      BY <3>2 DEF get_pte, get_pt, a
    <3> QED
      BY <3>2, <3>3 DEF page_insert, map_page, t
  <2> QED
    BY <2>1, <2>2 DEF pgdir_alloc_page
<1>3. ASSUME NEW v PROVE new_page(m, r, la, v).panic
  BY <1>2 DEF new_page, fill
<1> QED
  BY <1>2, <1>3

\* page_insert of a page in hand makes the page tables first.
LEMMA InsertGood ==
  ASSUME NEW m, NEW p, Good(m, {p}), m.ref[p] = 0, NEW r \in Roots(m), NEW la \in Addr
  PROVE  LET n == page_insert(m, r, p, la)
         IN  n.panic \/ (Good(n, {}) /\ Edited(m, n, r, {la}) /\ pte(n, r, la) # invalid)
<1> DEFINE g == get_pte(m, r, la)
           n == page_insert(m, r, p, la)
<1>1. n = map_page(g, r, p, la)
  BY DEF page_insert
<1>2. g.panic \/ (Serves(m, g, {p}) /\ find_pt(g, r, la) # invalid)
  BY GetPteGood
<1> HIDE DEF g, n
<1>3. CASE g.panic
  BY <1>1, <1>3 DEF map_page, n
<1>4. CASE ~g.panic
  <2>1. Good(g, {p}) /\ SameSpaces(m, g) /\ g.ref[p] = 0 /\ find_pt(g, r, la) # invalid
    BY <1>2, <1>4 DEF Serves
  <2>2. r \in Roots(g)
    BY <2>1 DEF SameSpaces
  <2>3. Good(n, {}) /\ Edited(g, n, r, {la}) /\ pte(n, r, la) = p /\ p # invalid
    <3> DEFINE x == map_page(g, r, p, la)
    <3>1. Good(x, {}) /\ Edited(g, x, r, {la}) /\ pte(x, r, la) = p /\ p # invalid
      BY <2>1, <2>2, MapGood
    <3> QED
      BY <1>1, <3>1
  <2>4. Edited(m, n, r, {la})
    <3> DEFINE A == {la}
    <3>1. A \cup A = A /\ Edited(g, n, r, A)
      BY <2>3
    <3> HIDE DEF A
    <3>2. Edited(m, g, r, A)
      BY <2>1, SameEdited
    <3>3. Edited(m, n, r, A \cup A)
      BY <3>1, <3>2, EditedTwice
    <3>4. Edited(m, n, r, A)
      BY <3>1, <3>3
    <3> QED
      BY <3>4 DEF A
  <2> QED
    BY <2>3, <2>4 DEF n
<1> QED
  BY <1>3, <1>4

\* What a function leaves that gives the directory r a page for la, or panics.
Gives(m, n, r, la) ==
  n.panic \/ (Good(n, {}) /\ Edited(m, n, r, {la}) /\ pte(n, r, la) # invalid)

\* pgdir_alloc_page.
LEMMA AllocPageGood ==
  ASSUME NEW m, Good(m, {}), NEW r \in Roots(m), NEW la \in Addr
  PROVE  Gives(m, pgdir_alloc_page(m, r, la), r, la)
<1> DEFINE n == pgdir_alloc_page(m, r, la)
           p == lowest(m.free)
           t == take(m)
<1>1. m \in Mem
  BY DEF Good
<1>2. CASE m.free = {}
  BY <1>1, <1>2, StopType DEF pgdir_alloc_page, Gives
<1>3. CASE m.free # {}
  <2>1. n = page_insert(t, r, p, la)
    BY <1>3 DEF pgdir_alloc_page
  <2>2. /\ m.ref[p] = 0 /\ t.ref = m.ref
        /\ Good(t, {} \cup {p}) /\ SameSpaces(m, t)
    BY <1>3, TakeGood
  <2>3. Good(t, {p})
    <3>1. {} \cup {p} = {p}
      OBVIOUS
    <3> HIDE DEF p, t
    <3> QED
      BY <2>2, <3>1
  <2> HIDE DEF p, t, n
  <2>4. r \in Roots(t) /\ t.ref[p] = 0
    BY <2>2 DEF SameSpaces
  <2>5. n.panic \/ (Good(n, {}) /\ Edited(t, n, r, {la}) /\ pte(n, r, la) # invalid)
    BY <2>1, <2>3, <2>4, InsertGood
  <2>6. Edited(t, n, r, {la}) => Edited(m, n, r, {la})
    <3> DEFINE A == {la}
    <3>1. A \cup A = A
      OBVIOUS
    <3> HIDE DEF A
    <3>2. Edited(m, t, r, A)
      BY <2>2, SameEdited
    <3>3. Edited(t, n, r, A) => Edited(m, n, r, A \cup A)
      BY <3>2, EditedTwice
    <3>4. Edited(t, n, r, A) => Edited(m, n, r, A)
      BY <3>1, <3>3
    <3> QED
      BY <3>4 DEF A
  <2> QED
    BY <2>5, <2>6 DEF Gives, n
<1> QED
  BY <1>2, <1>3

\* The program, or the kernel for it, writes to a page that is mapped.
LEMMA StoreGood ==
  ASSUME NEW m, Good(m, {}), NEW r \in Roots(m), NEW la \in Addr, pte(m, r, la) # invalid, NEW v \in Value
  PROVE  LET n == [m EXCEPT !.data[pte(m, r, la)] = v]
         IN  /\ Good(n, {}) /\ Edited(m, n, r, {la})
             /\ n.table = m.table /\ n.data[pte(n, r, la)] = v /\ pte(n, r, la) = pte(m, r, la)
<1> DEFINE p == pte(m, r, la)
           data == [m.data EXCEPT ![p] = v]
           n == [m EXCEPT !.data[p] = v]
<1>1. m \in Mem /\ ~m.panic /\ {} \in SUBSET Page
  BY DEF Good
<1>2. PICK D \in SUBSET Page, T \in SUBSET Page : Forest(m, {}, D, T)
  BY DEF Good
<1>3. Apart(m, {}, D, T)
  BY <1>1, <1>2, KindsApart
<1>4. p \in Users(m, {}) /\ p \in Page
  <2>1. p \in Users(m, {}) \cup {invalid}
    BY <1>1, <1>2, Walk
  <2> QED
    BY <1>3, <2>1 DEF Apart
<1>5. n = [free |-> m.free, ref |-> m.ref, table |-> m.table, data |-> data, panic |-> m.panic]
  <2>1. m = [free |-> m.free, ref |-> m.ref, table |-> m.table, data |-> m.data, panic |-> m.panic]
    BY <1>1, MemFields
  <2>2. n = [m EXCEPT !.data = data]
    BY <1>1, MemFields
  <2> HIDE DEF n, data
  <2> QED
    BY <2>1, <2>2
<1> HIDE DEF p
<1>6. data \in [Page -> Content] /\ data[p] = v /\ \A q \in Page : q # p => data[q] = m.data[q]
  BY <1>1, <1>4, MemFields, Contents
<1> HIDE DEF n, data
<1>7. n \in Mem /\ n.free = m.free /\ n.ref = m.ref /\ n.table = m.table /\ n.data = data /\ ~n.panic
  BY <1>1, <1>5, <1>6 DEF Mem
<1>8. m.data[p] \in Value /\ v # BOOT /\ v # TABLE /\ m.data[p] # BOOT
  BY <1>4, AddressSpaceAssumption DEF Users
<1>9. Roots(n) = Roots(m) /\ Users(n, {}) = Users(m, {})
  BY <1>6, <1>7, <1>8 DEF Roots, Users
<1>10. Forest(n, {}, D, T)
  <2>1. \A q \in m.free \cup (D \cup T) : q \in Page /\ q # p
    BY <1>1, <1>3, <1>4, MemFields DEF Apart
  <2> QED
    BY <1>2, <1>6, <1>7, <1>9, <2>1 DEF Forest
<1>11. Good(n, {})
  <2>1. \A q \in Page : n.ref[q] \in Nat
    BY <1>7 DEF Good
  <2> QED
    BY <1>1, <1>7, <1>10, <2>1 DEF Good
<1>12. \A s, lb : pte(n, s, lb) = pte(m, s, lb)
  BY <1>7 DEF pte, find_pt
<1>13. ASSUME NEW s \in Roots(m), NEW lb \in Addr, ~(s = r /\ lb \in {la}) PROVE Agrees(m, n, s, lb)
  <2>1. pte(m, s, lb) # invalid => pte(m, s, lb) # p
    <3> SUFFICES ASSUME pte(m, s, lb) = pte(m, r, la), pte(m, s, lb) # invalid PROVE FALSE
      BY DEF p
    <3>1. pte(m, s, lb) = pte(m, r, la) /\ pte(m, s, lb) # invalid => s = r /\ lb = la
      <4>1. m \in Mem /\ {} \in SUBSET Page /\ Forest(m, {}, D, T)
        BY <1>1, <1>2
      <4> QED
        BY <4>1, WaysApart
    <3> QED
      BY <1>13, <3>1
  <2>2. pte(m, s, lb) \in Users(m, {}) \cup {invalid}
    BY <1>1, <1>2, Walk
  <2>3. pte(m, s, lb) # invalid => pte(m, s, lb) \in Page
    BY <1>3, <2>2 DEF Apart
  <2> QED
    BY <1>6, <1>7, <1>12, <2>1, <2>3 DEF Agrees
<1>14. Edited(m, n, r, {la})
  BY <1>9, <1>13 DEF Edited
<1>15. pte(n, r, la) = p
  BY <1>12 DEF p
<1> QED
  BY <1>6, <1>7, <1>11, <1>14, <1>15 DEF n, p

\* A page with v in it.
LEMMA NewPageGood ==
  ASSUME NEW m, Good(m, {}), NEW r \in Roots(m), NEW la \in Addr, NEW v \in Value
  PROVE  LET n == new_page(m, r, la, v)
         IN  Gives(m, n, r, la) /\ (n.panic \/ n.data[pte(n, r, la)] = v)
<1> DEFINE a == pgdir_alloc_page(m, r, la)
           n == new_page(m, r, la, v)
           f == [a EXCEPT !.data[pte(a, r, la)] = v]
<1>1. n = IF a.panic THEN a ELSE f
  BY DEF new_page, fill
<1>2. Gives(m, a, r, la)
  BY AllocPageGood
<1> HIDE DEF a, n
<1>3. CASE a.panic
  BY <1>1, <1>3 DEF Gives, n
<1>4. CASE ~a.panic
  <2>1. Good(a, {}) /\ Edited(m, a, r, {la}) /\ pte(a, r, la) # invalid
    BY <1>2, <1>4 DEF Gives
  <2>2. r \in Roots(a)
    BY <2>1 DEF Edited
  <2>3. /\ Good(f, {}) /\ Edited(a, f, r, {la})
        /\ f.table = a.table /\ f.data[pte(f, r, la)] = v /\ pte(f, r, la) = pte(a, r, la)
    BY <2>1, <2>2, StoreGood
  <2> HIDE DEF f
  <2>4. Edited(m, f, r, {la})
    <3> DEFINE A == {la}
    <3>1. A \cup A = A /\ Edited(m, a, r, A) /\ Edited(a, f, r, A)
      BY <2>1, <2>3
    <3> HIDE DEF A
    <3>2. Edited(m, f, r, A \cup A)
      BY <3>1, EditedTwice
    <3>3. Edited(m, f, r, A)
      BY <3>1, <3>2
    <3> QED
      BY <3>3 DEF A
  <2>5. n = f
    BY <1>1, <1>4
  <2> QED
    BY <2>1, <2>3, <2>4, <2>5 DEF Gives, n
<1> QED
  BY <1>3, <1>4

\* What is mapped in a good memory.
LEMMA MappedFacts ==
  ASSUME NEW m, NEW H, Good(m, H), NEW r \in Roots(m), NEW la \in Addr, pte(m, r, la) # invalid
  PROVE  pte(m, r, la) \in Page /\ m.data[pte(m, r, la)] \in Value /\ r \in Page
<1>1. m \in Mem /\ ~m.panic /\ H \in SUBSET Page
  BY DEF Good
<1>2. PICK D \in SUBSET Page, T \in SUBSET Page : Forest(m, H, D, T)
  BY DEF Good
<1>3. pte(m, r, la) \in Users(m, H) \cup {invalid}
  BY <1>1, <1>2, Walk
<1> QED
  BY <1>3 DEF Users, Roots

\* A page of the child's own with what the parent has at la in it.
LEMMA CopyPageGood ==
  ASSUME NEW m, Good(m, {}), NEW to \in Roots(m), NEW from \in Roots(m), NEW la \in Addr,
         pte(m, from, la) # invalid
  PROVE  LET n == copy_page(m, to, from, la)
         IN  Gives(m, n, to, la) /\ (n.panic \/ n.data[pte(n, to, la)] = m.data[pte(m, from, la)])
<1> DEFINE g == get_pte(m, to, la)
           v == m.data[pte(m, from, la)]
           n == copy_page(m, to, from, la)
<1>1. n = new_page(g, to, la, v)
  BY DEF copy_page
<1>2. v \in Value
  BY MappedFacts
<1>3. g.panic \/ (Serves(m, g, {}) /\ find_pt(g, to, la) # invalid)
  BY GetPteGood
<1>4. g \in Mem
  BY GetPteType DEF Good
<1> HIDE DEF g, n, v
<1>5. CASE g.panic
  <2>1. n.panic
    BY <1>1, <1>4, <1>5, PanicStays
  <2> QED
    BY <2>1 DEF Gives, n
<1>6. CASE ~g.panic
  <2>1. Good(g, {}) /\ SameSpaces(m, g)
    BY <1>3, <1>6 DEF Serves
  <2>2. to \in Roots(g)
    BY <2>1 DEF SameSpaces
  <2>3. Gives(g, n, to, la) /\ (n.panic \/ n.data[pte(n, to, la)] = v)
    BY <1>1, <1>2, <2>1, <2>2, NewPageGood
  <2>4. Edited(g, n, to, {la}) => Edited(m, n, to, {la})
    <3> DEFINE A == {la}
    <3>1. A \cup A = A
      OBVIOUS
    <3> HIDE DEF A
    <3>2. Edited(m, g, to, A)
      BY <2>1, SameEdited
    <3>3. Edited(g, n, to, A) => Edited(m, n, to, A \cup A)
      BY <3>2, EditedTwice
    <3>4. Edited(g, n, to, A) => Edited(m, n, to, A)
      BY <3>1, <3>3
    <3> QED
      BY <3>4 DEF A
  <2> QED
    BY <2>3, <2>4 DEF Gives, n, v
<1> QED
  BY <1>5, <1>6
-----------------------------------------------------------------------------
(* What the loops leave mapped. *)

\* The addresses of an area.
Extent(v) == v.vm_start..(v.vm_end - 1)

\* unmap_range leaves nothing mapped in its area, and every other mapping as it was.
LEMMA UnmapRangeGood ==
  ASSUME NEW m, Good(m, {}), NEW r \in Roots(m), NEW v \in Vma
  PROVE  LET n == unmap_range(m, r, v.vm_start, v.vm_end)
         IN  /\ Good(n, {}) /\ Edited(m, n, r, Extent(v))
             /\ \A la \in Extent(v) : pte(n, r, la) = invalid
<1> DEFINE a == v.vm_start
           b == v.vm_end
           A == Extent(v)
           n == unmap_range(m, r, a, b)
           Unmapped(x, i) == \A la \in a..(i - 1) : pte(x, r, la) = invalid
<1>1. m \in Mem /\ r \in Page
  BY DEF Good, Roots
<1>2. PICK done : /\ Runs(done, a, b, m, n)
                  /\ \A i \in (a + 1)..b : done[i] = page_remove(done[i - 1], r, i - 1)
  BY <1>1, UnmapRangeLoop
<1>3. a \in Nat /\ b \in Nat /\ a < b /\ A = a..(b - 1) /\ \A i \in (a + 1)..b : i - 1 \in Addr
  BY VmaFacts DEF Extent
<1> HIDE DEF a, b, n, A
<1> DEFINE T == {i \in a..b : Good(done[i], {}) /\ Edited(m, done[i], r, A) /\ Unmapped(done[i], i)}
<1>4. a \in T
  <2>1. done[a] = m /\ a..(a - 1) = {} /\ a \in a..b
    BY <1>2, <1>3 DEF Runs
  <2>2. Edited(m, m, r, A)
    BY DEF Edited, Agrees
  <2> QED
    BY <2>1, <2>2
<1>5. ASSUME NEW i \in a..(b - 1), i \in T PROVE i + 1 \in T
  <2> DEFINE x == done[i]
             y == done[i + 1]
  <2>1. i + 1 \in (a + 1)..b /\ i + 1 \in a..b /\ (i + 1) - 1 = i /\ i \in Addr /\ i \in A /\ i \in a..b
    <3>1. i + 1 \in (a + 1)..b /\ i + 1 \in a..b /\ (i + 1) - 1 = i /\ i \in a..b
      BY <1>3
    <3> QED
      BY <1>3, <3>1
  <2>2. y = page_remove(x, r, i)
    BY <1>2, <2>1
  <2>3. Good(x, {}) /\ Edited(m, x, r, A) /\ Unmapped(x, i) /\ r \in Roots(x)
    BY <1>5 DEF Edited
  <2> HIDE DEF x, y
  <2>4. Good(y, {}) /\ Edited(x, y, r, {i}) /\ pte(y, r, i) = invalid
    BY <2>1, <2>2, <2>3, RemoveGood
  <2>5. Edited(m, y, r, A)
    <3>1. A \cup {i} = A
      BY <2>1
    <3>2. Edited(m, y, r, A \cup {i})
      BY <2>3, <2>4, EditedTwice
    <3> QED
      BY <3>1, <3>2
  <2>6. Unmapped(y, i + 1)
    <3>1. ASSUME NEW la \in a..((i + 1) - 1), la # i PROVE pte(y, r, la) = invalid
      <4>1. la \in a..(i - 1) /\ la \in Addr
        <5>1. la \in a..(i - 1) /\ la + 1 \in (a + 1)..b /\ (la + 1) - 1 = la
          BY <1>3, <3>1
        <5> QED
          BY <1>3, <5>1
      <4>2. pte(x, r, la) = invalid
        BY <2>3, <4>1
      <4>3. Agrees(x, y, r, la)
        BY <2>3, <2>4, <3>1, <4>1 DEF Edited
      <4> QED
        BY <4>2, <4>3 DEF Agrees
    <3> QED
      BY <2>4, <3>1
  <2> QED
    BY <2>1, <2>4, <2>5, <2>6 DEF y
<1> HIDE DEF T
<1>6. b \in T
  <2>1. \A i \in a..b : i \in T
    BY <1>3, <1>4, <1>5, Induction
  <2> QED
    BY <1>3, <2>1
<1>7. done[b] = n
  BY <1>2 DEF Runs
<1>8. Good(n, {}) /\ Edited(m, n, r, A) /\ Unmapped(n, b)
  BY <1>6, <1>7 DEF T
<1> QED
  BY <1>3, <1>8 DEF n, A, a, b

\* The pages of the stack.
LEMMA AllocRangeGood ==
  ASSUME NEW m, Good(m, {}), NEW r \in Roots(m), NEW start \in Addr
  PROVE  LET n == alloc_range(m, r, start, USERTOP)
         IN  n.panic \/ ( /\ Good(n, {}) /\ Edited(m, n, r, start..(USERTOP - 1))
                          /\ \A la \in start..(USERTOP - 1) : pte(n, r, la) # invalid )
<1> DEFINE a == start
           b == USERTOP
           A == start..(USERTOP - 1)
           n == alloc_range(m, r, a, b)
           Mapped(x, i) == \A la \in a..(i - 1) : pte(x, r, la) # invalid
           Fine(x, i) == Good(x, {}) /\ Edited(m, x, r, A) /\ Mapped(x, i)
<1>1. m \in Mem /\ r \in Page
  BY DEF Good, Roots
<1>2. PICK done : /\ Runs(done, a, b, m, n)
                  /\ \A i \in (a + 1)..b : done[i] = pgdir_alloc_page(done[i - 1], r, i - 1)
  BY <1>1, AllocRangeLoop
<1>3. a \in Nat /\ b \in Nat /\ a < b /\ A = a..(b - 1) /\ \A i \in a..(b - 1) : i \in Addr
  BY Sizes DEF Addr
<1> HIDE DEF a, b, n, A
<1> DEFINE T == {i \in a..b : done[i].panic \/ Fine(done[i], i)}
<1>4. a \in T
  <2>1. done[a] = m /\ a..(a - 1) = {} /\ a \in a..b
    BY <1>2, <1>3 DEF Runs
  <2>2. Edited(m, m, r, A)
    BY DEF Edited, Agrees
  <2> QED
    BY <2>1, <2>2
<1>5. ASSUME NEW i \in a..(b - 1), i \in T PROVE i + 1 \in T
  <2> DEFINE x == done[i]
             y == done[i + 1]
  <2>1. i + 1 \in (a + 1)..b /\ i + 1 \in a..b /\ (i + 1) - 1 = i /\ i \in Addr /\ i \in A /\ i \in a..b
    <3>1. i + 1 \in (a + 1)..b /\ i + 1 \in a..b /\ (i + 1) - 1 = i /\ i \in a..b
      BY <1>3
    <3> QED
      BY <1>3, <3>1
  <2>2. y = pgdir_alloc_page(x, r, i) /\ x \in Mem
    BY <1>2, <2>1 DEF Runs
  <2>3. CASE x.panic
    <3>1. y.panic
      <4> HIDE DEF x, y
      <4> QED
        BY <2>2, <2>3, PanicStays
    <3> QED
      BY <2>1, <3>1
  <2>4. CASE ~x.panic
    <3>1. Good(x, {}) /\ Edited(m, x, r, A) /\ Mapped(x, i) /\ r \in Roots(x)
      BY <1>5, <2>4 DEF Edited
    <3> HIDE DEF x, y
    <3>2. Gives(x, y, r, i)
      BY <2>1, <2>2, <3>1, AllocPageGood
    <3>3. CASE y.panic
      BY <2>1, <3>3 DEF y
    <3>4. CASE ~y.panic
      <4>1. Good(y, {}) /\ Edited(x, y, r, {i}) /\ pte(y, r, i) # invalid
        BY <3>2, <3>4 DEF Gives
      <4>2. Edited(m, y, r, A)
        <5>1. A \cup {i} = A
          BY <2>1
        <5>2. Edited(m, y, r, A \cup {i})
          BY <3>1, <4>1, EditedTwice
        <5> QED
          BY <5>1, <5>2
      <4>3. Mapped(y, i + 1)
        <5>1. ASSUME NEW la \in a..((i + 1) - 1), la # i PROVE pte(y, r, la) # invalid
          <6>1. la \in a..(i - 1) /\ la \in a..(b - 1)
            BY <1>3, <5>1
          <6>2. pte(x, r, la) # invalid /\ la \in Addr
            BY <1>3, <3>1, <6>1
          <6>3. Agrees(x, y, r, la)
            BY <3>1, <4>1, <5>1, <6>2 DEF Edited
          <6> QED
            BY <6>2, <6>3 DEF Agrees
        <5> QED
          BY <4>1, <5>1
      <4> QED
        BY <2>1, <4>1, <4>2, <4>3 DEF y
    <3> QED
      BY <3>3, <3>4
  <2> QED
    BY <2>3, <2>4
<1> HIDE DEF T
<1>6. b \in T
  <2>1. \A i \in a..b : i \in T
    BY <1>3, <1>4, <1>5, Induction
  <2> QED
    BY <1>3, <2>1
<1>7. done[b] = n
  BY <1>2 DEF Runs
<1>8. n.panic \/ Fine(n, b)
  BY <1>6, <1>7 DEF T
<1> QED
  BY <1>3, <1>8 DEF n, A, a, b

\* The pages of a segment have its content.
LEMMA LoadRangeGood ==
  ASSUME NEW m, Good(m, {}), NEW r \in Roots(m), NEW seg \in Segment
  PROVE  LET n == load_range(m, r, seg)
         IN  n.panic \/ ( /\ Good(n, {}) /\ Edited(m, n, r, Extent(seg))
                          /\ \A la \in Extent(seg) : pte(n, r, la) # invalid /\ n.data[pte(n, r, la)] = seg.image )
<1> DEFINE a == seg.vm_start
           b == seg.vm_end
           A == Extent(seg)
           n == load_range(m, r, seg)
           Loaded(x, i) == \A la \in a..(i - 1) : pte(x, r, la) # invalid /\ x.data[pte(x, r, la)] = seg.image
           Fine(x, i) == Good(x, {}) /\ Edited(m, x, r, A) /\ Loaded(x, i)
<1>1. m \in Mem /\ r \in Page
  BY DEF Good, Roots
<1>2. PICK done : /\ Runs(done, a, b, m, n)
                  /\ \A i \in (a + 1)..b : done[i] = new_page(done[i - 1], r, i - 1, seg.image)
  BY <1>1, LoadRangeLoop
<1>3. a \in Nat /\ b \in Nat /\ a < b /\ A = a..(b - 1) /\ (\A i \in a..(b - 1) : i \in Addr) /\ seg.image \in Value
  BY Sizes DEF Segment, Addr, Extent
<1> HIDE DEF a, b, n, A
<1> DEFINE T == {i \in a..b : done[i].panic \/ Fine(done[i], i)}
<1>4. a \in T
  <2>1. done[a] = m /\ a..(a - 1) = {} /\ a \in a..b
    BY <1>2, <1>3 DEF Runs
  <2>2. Edited(m, m, r, A)
    BY DEF Edited, Agrees
  <2> QED
    BY <2>1, <2>2
<1>5. ASSUME NEW i \in a..(b - 1), i \in T PROVE i + 1 \in T
  <2> DEFINE x == done[i]
             y == done[i + 1]
  <2>1. i + 1 \in (a + 1)..b /\ i + 1 \in a..b /\ (i + 1) - 1 = i /\ i \in Addr /\ i \in A /\ i \in a..b
    <3>1. i + 1 \in (a + 1)..b /\ i + 1 \in a..b /\ (i + 1) - 1 = i /\ i \in a..b
      BY <1>3
    <3> QED
      BY <1>3, <3>1
  <2>2. y = new_page(x, r, i, seg.image) /\ x \in Mem
    BY <1>2, <2>1 DEF Runs
  <2>3. CASE x.panic
    <3>1. y.panic
      <4> HIDE DEF x, y
      <4> QED
        BY <2>2, <2>3, PanicStays
    <3> QED
      BY <2>1, <3>1
  <2>4. CASE ~x.panic
    <3>1. Good(x, {}) /\ Edited(m, x, r, A) /\ Loaded(x, i) /\ r \in Roots(x)
      BY <1>5, <2>4 DEF Edited
    <3> HIDE DEF x, y
    <3>2. Gives(x, y, r, i) /\ (y.panic \/ y.data[pte(y, r, i)] = seg.image)
      BY <1>3, <2>1, <2>2, <3>1, NewPageGood
    <3>3. CASE y.panic
      BY <2>1, <3>3 DEF y
    <3>4. CASE ~y.panic
      <4>1. Good(y, {}) /\ Edited(x, y, r, {i}) /\ pte(y, r, i) # invalid /\ y.data[pte(y, r, i)] = seg.image
        BY <3>2, <3>4 DEF Gives
      <4>2. Edited(m, y, r, A)
        <5>1. A \cup {i} = A
          BY <2>1
        <5>2. Edited(m, y, r, A \cup {i})
          BY <3>1, <4>1, EditedTwice
        <5> QED
          BY <5>1, <5>2
      <4>3. Loaded(y, i + 1)
        <5>1. ASSUME NEW la \in a..((i + 1) - 1), la # i
              PROVE  pte(y, r, la) # invalid /\ y.data[pte(y, r, la)] = seg.image
          <6>1. la \in a..(i - 1) /\ la \in a..(b - 1)
            BY <1>3, <5>1
          <6>2. pte(x, r, la) # invalid /\ x.data[pte(x, r, la)] = seg.image /\ la \in Addr
            BY <1>3, <3>1, <6>1
          <6>3. Agrees(x, y, r, la)
            BY <3>1, <4>1, <5>1, <6>2 DEF Edited
          <6> QED
            BY <6>2, <6>3 DEF Agrees
        <5> QED
          BY <4>1, <5>1
      <4> QED
        BY <2>1, <4>1, <4>2, <4>3 DEF y
    <3> QED
      BY <3>3, <3>4
  <2> QED
    BY <2>3, <2>4
<1> HIDE DEF T
<1>6. b \in T
  <2>1. \A i \in a..b : i \in T
    BY <1>3, <1>4, <1>5, Induction
  <2> QED
    BY <1>3, <2>1
<1>7. done[b] = n
  BY <1>2 DEF Runs
<1>8. n.panic \/ Fine(n, b)
  BY <1>6, <1>7 DEF T
<1> QED
  BY <1>3, <1>8 DEF n, A, a, b

\* copy_range does not come back from a panic.
LEMMA CopyRangePanics ==
  ASSUME NEW m \in Mem, m.panic, NEW to \in Page, NEW from \in Page, NEW v \in Vma
  PROVE  copy_range(m, to, from, v.vm_start, v.vm_end).panic
<1> DEFINE a == v.vm_start
           b == v.vm_end
           n == copy_range(m, to, from, a, b)
           X == {x \in Mem : x.panic}
<1>1. PICK done : /\ Runs(done, a, b, m, n)
                  /\ \A i \in (a + 1)..b :
                       done[i] = IF done[i - 1].panic \/ pte(done[i - 1], from, i - 1) = invalid THEN done[i - 1]
                                 ELSE copy_page(done[i - 1], to, from, i - 1)
  BY CopyRangeLoop
<1>2. a \in Nat /\ b \in Nat /\ a <= b /\ b \in a..b
  BY VmaFacts
<1> HIDE DEF a, b, n
<1>3. done[a] \in X /\ done[b] = n
  BY <1>1 DEF Runs
<1>4. ASSUME NEW i \in (a + 1)..b, done[i - 1] \in X PROVE done[i] \in X
  BY <1>1, <1>4
<1> HIDE DEF X
<1>5. \A i \in a..b : done[i] \in X
  BY <1>2, <1>3, <1>4, LoopKeeps
<1> QED
  BY <1>2, <1>3, <1>5 DEF X, n, a, b

\* What `to' has mapped is a copy of what `from' has; and it has copies of all in B.
CopyOf(m, to, from) ==
  \A la \in Addr : pte(m, to, la) # invalid =>
    pte(m, from, la) # invalid /\ m.data[pte(m, to, la)] = m.data[pte(m, from, la)]
HasCopies(m, to, from, B) == \A la \in B : pte(m, from, la) # invalid => pte(m, to, la) # invalid

\* copy_page maps a copy of the page at i, and keeps the copies that were made.
LEMMA CopyPageCopies ==
  ASSUME NEW m, Good(m, {}), NEW to \in Roots(m), NEW from \in Roots(m), to # from, NEW i \in Addr,
         pte(m, from, i) # invalid, CopyOf(m, to, from), NEW B \in SUBSET Addr, HasCopies(m, to, from, B)
  PROVE  LET n == copy_page(m, to, from, i)
         IN  n.panic \/ ( /\ Good(n, {}) /\ Edited(m, n, to, {i})
                          /\ CopyOf(n, to, from) /\ HasCopies(n, to, from, B \cup {i}) )
<1> DEFINE n == copy_page(m, to, from, i)
<1>1. Gives(m, n, to, i) /\ (n.panic \/ n.data[pte(n, to, i)] = m.data[pte(m, from, i)])
  BY CopyPageGood
<1> SUFFICES ASSUME ~n.panic
             PROVE  /\ Good(n, {}) /\ Edited(m, n, to, {i})
                    /\ CopyOf(n, to, from) /\ HasCopies(n, to, from, B \cup {i})
  OBVIOUS
<1> HIDE DEF n
<1>2. /\ Good(n, {}) /\ Edited(m, n, to, {i}) /\ pte(n, to, i) # invalid
      /\ n.data[pte(n, to, i)] = m.data[pte(m, from, i)]
  BY <1>1 DEF Gives
<1>3. \A la \in Addr : Agrees(m, n, from, la) /\ (la # i => Agrees(m, n, to, la))
  BY <1>2 DEF Edited
<1>4. CopyOf(n, to, from)
  <2> SUFFICES ASSUME NEW la \in Addr, pte(n, to, la) # invalid
               PROVE  pte(n, from, la) # invalid /\ n.data[pte(n, to, la)] = n.data[pte(n, from, la)]
    BY DEF CopyOf
  <2>1. pte(n, from, la) = pte(m, from, la)
        /\ (pte(m, from, la) # invalid => n.data[pte(n, from, la)] = m.data[pte(m, from, la)])
    BY <1>3 DEF Agrees
  <2>2. CASE la = i
    BY <1>2, <2>1, <2>2
  <2>3. CASE la # i
    <3>1. pte(n, to, la) = pte(m, to, la) /\ n.data[pte(n, to, la)] = m.data[pte(m, to, la)]
      BY <1>3, <2>3 DEF Agrees
    <3>2. pte(m, from, la) # invalid /\ m.data[pte(m, to, la)] = m.data[pte(m, from, la)]
      BY <3>1 DEF CopyOf
    <3> QED
      BY <2>1, <3>1, <3>2
  <2> QED
    BY <2>2, <2>3
<1>5. HasCopies(n, to, from, B \cup {i})
  <2> SUFFICES ASSUME NEW la \in B \cup {i}, pte(n, from, la) # invalid PROVE pte(n, to, la) # invalid
    BY DEF HasCopies
  <2>1. CASE la = i
    BY <1>2, <2>1
  <2>2. CASE la # i
    <3>1. la \in B /\ la \in Addr
      BY <2>2
    <3>2. pte(n, from, la) = pte(m, from, la) /\ pte(n, to, la) = pte(m, to, la)
      BY <1>3, <2>2, <3>1 DEF Agrees
    <3> QED
      BY <3>1, <3>2 DEF HasCopies
  <2> QED
    BY <2>1, <2>2
<1> QED
  BY <1>2, <1>4, <1>5

\* copy_range copies what an area has, and keeps the copies that were made.
LEMMA CopyRangeGood ==
  ASSUME NEW m, Good(m, {}), NEW to \in Roots(m), NEW from \in Roots(m), to # from, NEW v \in Vma,
         CopyOf(m, to, from), NEW B \in SUBSET Addr, HasCopies(m, to, from, B)
  PROVE  LET n == copy_range(m, to, from, v.vm_start, v.vm_end)
         IN  n.panic \/ ( /\ Good(n, {}) /\ Edited(m, n, to, Addr)
                          /\ CopyOf(n, to, from) /\ HasCopies(n, to, from, B \cup Extent(v)) )
<1> DEFINE a == v.vm_start
           b == v.vm_end
           n == copy_range(m, to, from, a, b)
           C(i) == B \cup (a..(i - 1))
           Fine(x, i) == /\ Good(x, {}) /\ Edited(m, x, to, Addr)
                         /\ CopyOf(x, to, from) /\ HasCopies(x, to, from, C(i))
<1>1. m \in Mem /\ to \in Page /\ from \in Page
  BY DEF Good, Roots
<1>2. PICK done : /\ Runs(done, a, b, m, n)
                  /\ \A i \in (a + 1)..b :
                       done[i] = IF done[i - 1].panic \/ pte(done[i - 1], from, i - 1) = invalid THEN done[i - 1]
                                 ELSE copy_page(done[i - 1], to, from, i - 1)
  BY <1>1, CopyRangeLoop
<1>3. a \in Nat /\ b \in Nat /\ a < b /\ Extent(v) = a..(b - 1) /\ (\A i \in a..(b - 1) : i \in Addr)
  BY Sizes DEF Vma, Addr, Extent
<1> HIDE DEF a, b, n
<1> DEFINE T == {i \in a..b : done[i].panic \/ Fine(done[i], i)}
<1>4. a \in T
  <2>1. done[a] = m /\ a..(a - 1) = {} /\ a \in a..b
    BY <1>2, <1>3 DEF Runs
  <2>2. Edited(m, m, to, Addr)
    BY DEF Edited, Agrees
  <2>3. C(a) = B
    BY <2>1
  <2> QED
    BY <2>1, <2>2, <2>3
<1>5. ASSUME NEW i \in a..(b - 1), i \in T PROVE i + 1 \in T
  <2> DEFINE x == done[i]
             y == done[i + 1]
  <2>1. i + 1 \in (a + 1)..b /\ i + 1 \in a..b /\ (i + 1) - 1 = i /\ i \in Addr /\ i \in a..b
    <3>1. i + 1 \in (a + 1)..b /\ i + 1 \in a..b /\ (i + 1) - 1 = i /\ i \in a..b
      BY <1>3
    <3> QED
      BY <1>3, <3>1
  <2>2. y = IF x.panic \/ pte(x, from, i) = invalid THEN x ELSE copy_page(x, to, from, i)
    BY <1>2, <2>1
  <2>3. C(i + 1) = C(i) \cup {i} /\ C(i) \in SUBSET Addr
    <3>1. a..((i + 1) - 1) = (a..(i - 1)) \cup {i}
      BY <1>3
    <3>2. \A la \in a..(i - 1) : la \in a..(b - 1)
      BY <1>3
    <3> QED
      BY <1>3, <3>1, <3>2
  <2>4. CASE x.panic
    BY <2>1, <2>2, <2>4
  <2>5. CASE ~x.panic
    <3>1. /\ Good(x, {}) /\ Edited(m, x, to, Addr) /\ to \in Roots(x) /\ from \in Roots(x)
          /\ CopyOf(x, to, from) /\ HasCopies(x, to, from, C(i))
      BY <1>5, <2>5 DEF Edited
    <3> HIDE DEF x, y, C
    <3>2. CASE pte(x, from, i) = invalid
      <4>1. y = x
        BY <2>2, <3>2
      <4>2. HasCopies(x, to, from, C(i + 1))
        BY <2>3, <3>1, <3>2 DEF HasCopies
      <4> QED
        BY <2>1, <3>1, <4>1, <4>2 DEF y
    <3>3. CASE pte(x, from, i) # invalid
      <4>1. y = copy_page(x, to, from, i)
        BY <2>2, <2>5, <3>3
      <4> HIDE DEF Fine
      <4>2. y.panic \/ ( /\ Good(y, {}) /\ Edited(x, y, to, {i})
                         /\ CopyOf(y, to, from) /\ HasCopies(y, to, from, C(i) \cup {i}) )
        BY <2>1, <2>3, <3>1, <3>3, <4>1, CopyPageCopies
      <4>3. Edited(x, y, to, {i}) => Edited(m, y, to, Addr)
        <5>1. Addr \cup {i} = Addr
          BY <2>1
        <5>2. Edited(x, y, to, {i}) => Edited(m, y, to, Addr \cup {i})
          BY <3>1, EditedTwice
        <5> QED
          BY <5>1, <5>2
      <4>4. y.panic \/ Fine(y, i + 1)
        BY <2>3, <4>2, <4>3 DEF Fine
      <4> QED
        BY <2>1, <4>4 DEF y
    <3> QED
      BY <3>2, <3>3
  <2> QED
    BY <2>4, <2>5
<1> HIDE DEF T
<1>6. b \in T
  <2>1. \A i \in a..b : i \in T
    BY <1>3, <1>4, <1>5, Induction
  <2> QED
    BY <1>3, <2>1
<1>7. done[b] = n
  BY <1>2 DEF Runs
<1>8. n.panic \/ Fine(n, b)
  BY <1>6, <1>7 DEF T
<1> QED
  BY <1>3, <1>8 DEF n, a, b

\* The addresses of the areas from k on.
Extents(vmas, k) == UNION {Extent(vmas[i]) : i \in k..Len(vmas)}

\* Areas are of addresses.
LEMMA ExtentInAddr ==
  ASSUME NEW v \in Vma
  PROVE  Extent(v) \subseteq Addr
BY Sizes DEF Vma, Addr, Extent

\* dup_mmap, for a directory that leads nowhere yet: what the areas have is copied, and
\* nothing else comes.
LEMMA DupMmapGood ==
  ASSUME NEW m, Good(m, {}), NEW to \in Roots(m), NEW s \in Space, s.pgdir \in Roots(m), to # s.pgdir,
         \A la \in Addr : pte(m, to, la) = invalid
  PROVE  LET n == dup_mmap(m, to, s)
         IN  n.panic \/ ( /\ Good(n, {}) /\ Edited(m, n, to, Addr)
                          /\ CopyOf(n, to, s.pgdir) /\ HasCopies(n, to, s.pgdir, Extents(s.vmas, 1)) )
<1> DEFINE from == s.pgdir
           len == Len(s.vmas)
           n == dup_mmap(m, to, s)
           E(i) == Extents(s.vmas, i)
           Fine(x, i) == /\ Good(x, {}) /\ Edited(m, x, to, Addr)
                         /\ CopyOf(x, to, from) /\ HasCopies(x, to, from, E(i))
<1>1. m \in Mem /\ to \in Page /\ from \in Page /\ len \in Nat /\ \A i \in 1..len : s.vmas[i] \in Vma
  BY SpaceFacts DEF Good, Roots
<1>2. PICK done :
        /\ done[len + 1] = m /\ done[1] = n
        /\ \A i \in 1..(len + 1) : done[i] \in Mem
        /\ \A i \in 1..len :
             done[i] = copy_range(done[i + 1], to, from, s.vmas[i].vm_start, s.vmas[i].vm_end)
  <2>1. m \in Mem /\ to \in Page
    BY <1>1
  <2> QED
    BY <2>1, DupMmapLoop
<1>3. ASSUME NEW i \in 1..(len + 1) PROVE E(i) \in SUBSET Addr
  <2>1. \A k \in i..len : k \in 1..len
    BY <1>1
  <2>2. \A k \in i..len : Extent(s.vmas[k]) \subseteq Addr
    BY <1>1, <2>1, ExtentInAddr
  <2> QED
    BY <2>2 DEF Extents
<1>4. ASSUME NEW i \in 1..len PROVE E(i) = E(i + 1) \cup Extent(s.vmas[i])
  <2>1. i..len = ((i + 1)..len) \cup {i}
    BY <1>1
  <2> QED
    BY <2>1 DEF Extents
<1>5. E(len + 1) = {}
  <2>1. (len + 1)..len = {}
    BY <1>1
  <2> QED
    BY <2>1 DEF Extents
<1> HIDE DEF n, E, len, from
<1> DEFINE T == {k \in 0..len : done[len + 1 - k].panic \/ Fine(done[len + 1 - k], len + 1 - k)}
<1>6. 0 \in T
  <2>1. len + 1 - 0 = len + 1 /\ 0 \in 0..len
    BY <1>1
  <2>2. Edited(m, m, to, Addr)
    BY DEF Edited, Agrees
  <2>3. CopyOf(m, to, from) /\ HasCopies(m, to, from, {})
    BY DEF CopyOf, HasCopies
  <2>4. Fine(done[len + 1], len + 1)
    BY <1>2, <1>5, <2>2, <2>3
  <2> QED
    BY <2>1, <2>4
<1>7. ASSUME NEW k \in 0..(len - 1), k \in T PROVE k + 1 \in T
  <2> DEFINE i == len + 1 - (k + 1)
             x == done[i + 1]
             y == done[i]
  <2>1. i \in 1..len /\ i \in 1..(len + 1) /\ i + 1 \in 1..(len + 1) /\ i + 1 = len + 1 - k /\ k + 1 \in 0..len
    BY <1>1
  <2> HIDE DEF i
  <2>2. x.panic \/ Fine(x, i + 1)
    BY <1>7, <2>1
  <2>3. y = copy_range(x, to, from, s.vmas[i].vm_start, s.vmas[i].vm_end) /\ x \in Mem
    BY <1>2, <2>1
  <2> HIDE DEF x, y
  <2>4. s.vmas[i] \in Vma
    BY <1>1, <2>1
  <2>5. CASE x.panic
    <3>1. y.panic
      BY <1>1, <2>3, <2>4, <2>5, CopyRangePanics
    <3> QED
      BY <2>1, <3>1 DEF y, i
  <2>6. CASE ~x.panic
    <3>1. /\ Good(x, {}) /\ Edited(m, x, to, Addr) /\ to \in Roots(x) /\ from \in Roots(x) /\ to # from
          /\ CopyOf(x, to, from) /\ HasCopies(x, to, from, E(i + 1))
      BY <2>2, <2>6 DEF Edited, from
    <3> HIDE DEF Fine
    <3>2. E(i + 1) \in SUBSET Addr
      BY <1>3, <2>1
    <3>3. y.panic \/ ( /\ Good(y, {}) /\ Edited(x, y, to, Addr)
                       /\ CopyOf(y, to, from) /\ HasCopies(y, to, from, E(i + 1) \cup Extent(s.vmas[i])) )
      BY <2>3, <2>4, <3>1, <3>2, CopyRangeGood
    <3>4. Edited(x, y, to, Addr) => Edited(m, y, to, Addr)
      <4>1. Addr \cup Addr = Addr
        OBVIOUS
      <4>2. Edited(x, y, to, Addr) => Edited(m, y, to, Addr \cup Addr)
        BY <3>1, EditedTwice
      <4> QED
        BY <4>1, <4>2
    <3>5. y.panic \/ Fine(y, i)
      BY <1>4, <2>1, <3>3, <3>4 DEF Fine
    <3> QED
      BY <2>1, <3>5 DEF y, i
  <2> QED
    BY <2>5, <2>6
<1> HIDE DEF T
<1>8. len \in T
  <2>1. \A k \in 0..len : k \in T
    BY <1>1, <1>6, <1>7, Induction
  <2> QED
    BY <1>1, <2>1
<1>9. n.panic \/ Fine(n, 1)
  <2>1. len + 1 - len = 1
    BY <1>1
  <2> QED
    BY <1>2, <1>8, <2>1 DEF T
<1> QED
  BY <1>9 DEF n, E, from
-----------------------------------------------------------------------------
(* An address space goes. *)

\* The directory r maps nothing but addresses in A.
Within(m, r, A) == \A la \in Addr : pte(m, r, la) # invalid => la \in A

\* The first loop of exit_mmap leaves a directory that maps nothing.
LEMMA UnmapAllGood ==
  ASSUME NEW m, Good(m, {}), NEW s \in Space, s.pgdir \in Roots(m), Within(m, s.pgdir, Extents(s.vmas, 1))
  PROVE  LET n == unmap_all(m, s)
         IN  Good(n, {}) /\ Edited(m, n, s.pgdir, Addr) /\ Within(n, s.pgdir, {})
<1> DEFINE r == s.pgdir
           len == Len(s.vmas)
           n == unmap_all(m, s)
           E(i) == Extents(s.vmas, i)
           Fine(x, i) == Good(x, {}) /\ Edited(m, x, r, Addr) /\ Within(x, r, E(i + 1))
<1>1. m \in Mem /\ r \in Page /\ len \in Nat /\ \A i \in 1..len : s.vmas[i] \in Vma
  BY SpaceFacts DEF Good
<1>2. PICK done :
        /\ Runs(done, 0, len, m, n)
        /\ \A i \in (0 + 1)..len : done[i] = unmap_range(done[i - 1], r, s.vmas[i].vm_start, s.vmas[i].vm_end)
  BY <1>1, UnmapAllLoop
<1>3. ASSUME NEW i \in 1..len PROVE E(i) = E(i + 1) \cup Extent(s.vmas[i])
  <2>1. i..len = ((i + 1)..len) \cup {i}
    BY <1>1
  <2> QED
    BY <2>1 DEF Extents
<1>4. E(len + 1) = {}
  <2>1. (len + 1)..len = {}
    BY <1>1
  <2> QED
    BY <2>1 DEF Extents
<1>5. Within(m, r, E(1))
  OBVIOUS
<1>6. r \in Roots(m)
  OBVIOUS
<1> HIDE DEF n, E, len, r
<1> DEFINE T == {i \in 0..len : Fine(done[i], i)}
<1>7. 0 \in T
  <2>1. done[0] = m /\ 0 \in 0..len /\ 0 + 1 = 1
    BY <1>1, <1>2 DEF Runs
  <2>2. Edited(m, m, r, Addr)
    BY DEF Edited, Agrees
  <2>3. Fine(m, 0)
    BY <1>5, <2>2, <2>1
  <2> QED
    BY <2>1, <2>3
<1>8. ASSUME NEW i \in 0..(len - 1), i \in T PROVE i + 1 \in T
  <2> DEFINE x == done[i]
             y == done[i + 1]
             v == s.vmas[i + 1]
             j == i + 1
  <2>1. j \in 1..len /\ j \in 0..len /\ j \in (0 + 1)..len /\ j - 1 = i /\ i \in Nat
    BY <1>1
  <2>2. Good(x, {}) /\ Edited(m, x, r, Addr) /\ Within(x, r, E(j)) /\ r \in Roots(x)
    BY <1>6, <1>8 DEF Edited
  <2>3. y = unmap_range(x, r, v.vm_start, v.vm_end)
    BY <1>2, <2>1
  <2>4. v \in Vma
    BY <1>1, <2>1
  <2>5. E(j) = E(j + 1) \cup Extent(v)
    BY <1>3, <2>1
  <2> HIDE DEF x, y, v, j
  <2>6. Good(y, {}) /\ Edited(x, y, r, Extent(v)) /\ \A la \in Extent(v) : pte(y, r, la) = invalid
    BY <2>2, <2>3, <2>4, UnmapRangeGood
  <2>7. Edited(m, y, r, Addr)
    <3>1. Edited(m, y, r, Addr \cup Extent(v))
      BY <2>2, <2>6, EditedTwice
    <3>2. Addr \cup Extent(v) = Addr
      BY <2>4, ExtentInAddr
    <3> QED
      BY <3>1, <3>2
  <2>8. Within(y, r, E(j + 1))
    <3>1. ASSUME NEW la \in Addr, pte(y, r, la) # invalid PROVE la \in E(j + 1)
      <4>1. la \notin Extent(v)
        BY <2>6, <3>1
      <4>2. pte(x, r, la) # invalid
        BY <2>2, <2>6, <3>1, <4>1 DEF Edited, Agrees
      <4> QED
        BY <2>2, <2>5, <4>1, <4>2 DEF Within
    <3> QED
      BY <3>1 DEF Within
  <2>9. Fine(y, j)
    BY <2>6, <2>7, <2>8
  <2> QED
    BY <2>1, <2>9 DEF y, j
<1> HIDE DEF T
<1>9. len \in T
  <2>1. \A i \in 0..len : i \in T
    BY <1>1, <1>7, <1>8, Induction
  <2> QED
    BY <1>1, <2>1
<1>10. done[len] = n
  BY <1>2 DEF Runs
<1>11. Fine(n, len)
  BY <1>9, <1>10 DEF T
<1> QED
  BY <1>4, <1>11 DEF n, r

\* What exit_pd0 does to the pages: those in gone are free.
Frees(m, n, pgdir, pd0, gone) ==
  /\ n \in Mem /\ n.free = m.free \cup gone /\ n.panic = m.panic
  /\ \A q \in gone : q = pd0 \/ \E i \in Index : m.table[pd0][i] = q
  /\ \A q \in Page : /\ n.ref[q] = IF q \in gone THEN 0 ELSE m.ref[q]
                     /\ n.data[q] = IF q \in gone THEN ZERO ELSE m.data[q]
  /\ \A q \in gone, i \in Index : n.table[q][i] = invalid
  /\ \A q \in Page, i \in Index : n.table[q][i] \in {m.table[q][i], invalid}
  /\ \A q \in Page \ gone : q # pd0 /\ q # pgdir => n.table[q] = m.table[q]

\* What one directory of exit_range changes.
LEMMA ExitPd0Fields ==
  ASSUME NEW m \in Mem, NEW pgdir \in Page, NEW d1 \in Index, m.table[pgdir][d1] # invalid,
         NEW visited \in SUBSET Index
  PROVE  \E gone \in SUBSET Page :
           Frees(m, exit_pd0(m, pgdir, d1, visited), pgdir, m.table[pgdir][d1], gone)
<1> DEFINE pd0 == m.table[pgdir][d1]
           pts == {i \in visited : m.table[pd0][i] # invalid /\ unused(m, m.table[pd0][i])}
           free_pd0 == \A i \in visited : m.table[pd0][i] # invalid
           gone == {m.table[pd0][i] : i \in pts} \cup {p \in {pd0} : free_pd0}
           ref == [p \in Page |-> IF p \in gone THEN 0 ELSE m.ref[p]]
           data == [p \in Page |-> IF p \in gone THEN ZERO ELSE m.data[p]]
           table == [p \in Page |->
                       IF p \in gone THEN empty
                       ELSE IF p = pd0 THEN [i \in Index |-> IF i \in pts THEN invalid ELSE m.table[p][i]]
                       ELSE IF p = pgdir /\ free_pd0 THEN [m.table[p] EXCEPT ![d1] = invalid]
                       ELSE m.table[p]]
           n == exit_pd0(m, pgdir, d1, visited)
<1>1. m.table \in [Page -> [Index -> Page \cup {invalid}]]
  BY MemFields
<1>2. pd0 \in Page
  BY <1>1
<1>3. pts \subseteq Index
  OBVIOUS
<1>4. \A i \in pts : m.table[pd0][i] \in Page
  BY <1>1, <1>2
<1>5. n = [m EXCEPT !.free = m.free \cup gone, !.ref = ref, !.data = data, !.table = table]
  BY DEF exit_pd0
<1>6. n \in Mem
  BY ExitPd0Type
<1>7. gone \in SUBSET Page
  <2> HIDE DEF pts, pd0, free_pd0
  <2> QED
    BY <1>2, <1>4
<1>8. \A q \in gone : q = pd0 \/ \E i \in Index : m.table[pd0][i] = q
  <2> HIDE DEF pts, pd0, free_pd0
  <2> QED
    BY <1>3
<1> HIDE DEF pts, free_pd0, gone, pd0, n
<1>9. ASSUME NEW q \in Page, NEW i \in Index
      PROVE  table[q][i] \in {m.table[q][i], invalid}
  <2>1. CASE q \in gone
    <3>1. table[q] = empty
      BY <2>1
    <3> QED
      BY <3>1 DEF empty
  <2>2. CASE q \notin gone /\ q = pd0
    <3>1. table[q] = [j \in Index |-> IF j \in pts THEN invalid ELSE m.table[q][j]]
      BY <2>2
    <3> QED
      BY <3>1
  <2>3. CASE q \notin gone /\ q # pd0 /\ q = pgdir /\ free_pd0
    <3>1. table[q] = [m.table[q] EXCEPT ![d1] = invalid]
      BY <2>3
    <3> QED
      BY <1>1, <3>1
  <2>4. CASE q \notin gone /\ q # pd0 /\ ~(q = pgdir /\ free_pd0)
    BY <2>4
  <2> QED
    BY <2>1, <2>2, <2>3, <2>4
<1>10. \A q \in Page \ gone : q # pd0 /\ q # pgdir => table[q] = m.table[q]
  OBVIOUS
<1>11. ASSUME NEW q \in gone, NEW i \in Index PROVE table[q][i] = invalid
  <2>1. q \in Page
    BY <1>7
  <2>2. table[q] = empty
    BY <2>1
  <2> QED
    BY <2>2 DEF empty
<1>12. \A q \in Page : ref[q] = (IF q \in gone THEN 0 ELSE m.ref[q]) /\ data[q] = (IF q \in gone THEN ZERO ELSE m.data[q])
  OBVIOUS
<1> HIDE DEF ref, data, table
<1>13. n = [free |-> m.free \cup gone, ref |-> ref, table |-> table, data |-> data, panic |-> m.panic]
  <2>1. m = [free |-> m.free, ref |-> m.ref, table |-> m.table, data |-> m.data, panic |-> m.panic]
    BY MemFields
  <2> QED
    BY <1>5, <2>1
<1>14. n.free = m.free \cup gone /\ n.ref = ref /\ n.table = table /\ n.data = data /\ n.panic = m.panic
  BY <1>13
<1>15. Frees(m, n, pgdir, pd0, gone)
  BY <1>6, <1>7, <1>8, <1>9, <1>10, <1>11, <1>12, <1>14 DEF Frees
<1> QED
  BY <1>7, <1>15 DEF n, pd0

\* x is m after the page directory r has lost some of its directories, E, and these some of
\* their page tables, U.
Exits(m, x, r, E, U) ==
  /\ x \in Mem /\ x.panic = m.panic
  /\ \A q \in Page \ (E \cup U) : (q \in x.free <=> q \in m.free) /\ x.ref[q] = m.ref[q] /\ x.data[q] = m.data[q]
  /\ \A q \in Page \ (E \cup U) : q # r => x.table[q] = m.table[q]
  /\ \A i \in Index : x.table[r][i] \in E \cup {invalid}
  /\ \A d \in E, i \in Index : x.table[d][i] \in U \cup {invalid}
  /\ \A q \in E \cup U : q \notin x.free => x.ref[q] = m.ref[q] /\ x.data[q] = m.data[q]
  /\ \A q \in E \cup U : q \in x.free => /\ x.ref[q] = 0 /\ x.data[q] = ZERO
                                         /\ \A i \in Index : x.table[q][i] = invalid

\* exit_range, one directory of it,
LEMMA ExitPd0Exits ==
  ASSUME NEW m, NEW x, NEW r \in Page, NEW E \in SUBSET Page, NEW U \in SUBSET Page, r \notin E \cup U,
         Exits(m, x, r, E, U), NEW d1 \in Index, x.table[r][d1] # invalid, NEW visited \in SUBSET Index
  PROVE  Exits(m, exit_pd0(x, r, d1, visited), r, E, U)
<1> DEFINE y == exit_pd0(x, r, d1, visited)
           pd0 == x.table[r][d1]
<1>1. x \in Mem
  BY DEF Exits
<1>2. PICK gone \in SUBSET Page : Frees(x, y, r, pd0, gone)
  BY <1>1, ExitPd0Fields
<1>3. pd0 \in E
  BY DEF Exits
<1> HIDE DEF y, pd0
<1>4. \A q \in gone : q \in E \cup U
  <2>1. \A q \in gone : q \in Page /\ q # invalid
    BY Pages
  <2>2. \A i \in Index : x.table[pd0][i] \in U \cup {invalid}
    BY <1>3 DEF Exits
  <2> QED
    BY <1>2, <1>3, <2>1, <2>2 DEF Frees
<1>5. y \in Mem /\ y.panic = m.panic
  BY <1>2 DEF Frees, Exits
<1>6. \A q \in Page \ (E \cup U) : (q \in y.free <=> q \in m.free) /\ y.ref[q] = m.ref[q] /\ y.data[q] = m.data[q]
  BY <1>2, <1>4 DEF Frees, Exits
<1>7. \A q \in Page \ (E \cup U) : q # r => y.table[q] = m.table[q]
  BY <1>2, <1>3, <1>4 DEF Frees, Exits
<1>8. \A q \in Page, i \in Index : y.table[q][i] \in {x.table[q][i], invalid}
  BY <1>2 DEF Frees
<1>9. \A i \in Index : y.table[r][i] \in E \cup {invalid}
  BY <1>8 DEF Exits
<1>10. \A d \in E, i \in Index : y.table[d][i] \in U \cup {invalid}
  BY <1>8 DEF Exits
<1>11. \A q \in E \cup U : q \notin y.free => y.ref[q] = m.ref[q] /\ y.data[q] = m.data[q]
  BY <1>2 DEF Frees, Exits
<1>12. ASSUME NEW q \in E \cup U, q \in y.free
       PROVE  y.ref[q] = 0 /\ y.data[q] = ZERO /\ \A i \in Index : y.table[q][i] = invalid
  <2>1. CASE q \in gone
    BY <1>2, <2>1 DEF Frees
  <2>2. CASE q \notin gone
    <3>1. q \in x.free
      BY <1>2, <1>12, <2>2 DEF Frees
    <3>2. x.ref[q] = 0 /\ x.data[q] = ZERO /\ \A i \in Index : x.table[q][i] = invalid
      BY <3>1 DEF Exits
    <3> QED
      BY <1>2, <1>8, <2>2, <3>2 DEF Frees
  <2> QED
    BY <2>1, <2>2
<1>13. Exits(m, y, r, E, U)
  BY <1>5, <1>6, <1>7, <1>9, <1>10, <1>11, <1>12 DEF Exits
<1> QED
  BY <1>13 DEF y

\* all of them,
LEMMA ExitRangeExits ==
  ASSUME NEW m, NEW x, NEW r \in Page, NEW E \in SUBSET Page, NEW U \in SUBSET Page, r \notin E \cup U,
         Exits(m, x, r, E, U), NEW v \in Vma
  PROVE  Exits(m, exit_range(x, r, v.vm_start, v.vm_end), r, E, U)
<1> DEFINE n == exit_range(x, r, v.vm_start, v.vm_end)
           a == PDX1(v.vm_start)
           b == PDX1(v.vm_end - 1) + 1
<1>1. x \in Mem
  BY DEF Exits
<1>2. PICK done :
        /\ Runs(done, a, b, x, n)
        /\ \A i \in (a + 1)..b : done[i] = IF done[i - 1].table[r][i - 1] = invalid THEN done[i - 1]
                                           ELSE exit_pd0(done[i - 1], r, i - 1, Visited(v, i - 1))
  BY <1>1, ExitRangeLoop
<1>3. a \in Nat /\ b \in Nat /\ a <= b /\ b \in a..b
  BY AreaDirectories
<1>4. \A i \in a..(b - 1) : i \in Index
  <2>1. v.vm_end - 1 \in Addr
    BY Sizes DEF Vma, Addr
  <2>2. PDX1(v.vm_end - 1) \in Index
    BY <2>1, Indices
  <2> QED
    BY <1>3, <2>2, Entries
<1>5. \A i \in Index : Visited(v, i) \in SUBSET Index
  <2>1. \A la \in v.vm_start..(v.vm_end - 1) : la \in Addr
    BY Sizes DEF Vma, Addr
  <2> QED
    BY <2>1, Indices DEF Visited
<1> HIDE DEF n, a, b
<1> DEFINE T == {i \in a..b : Exits(m, done[i], r, E, U)}
<1>6. a \in T
  BY <1>2, <1>3 DEF Runs
<1>7. ASSUME NEW i \in a..(b - 1), i \in T PROVE i + 1 \in T
  <2> DEFINE y == done[i]
             z == done[i + 1]
  <2>1. i + 1 \in (a + 1)..b /\ i + 1 \in a..b /\ (i + 1) - 1 = i /\ i \in Index
    BY <1>3, <1>4
  <2>2. z = IF y.table[r][i] = invalid THEN y ELSE exit_pd0(y, r, i, Visited(v, i))
    BY <1>2, <2>1
  <2>3. Exits(m, y, r, E, U) /\ Visited(v, i) \in SUBSET Index
    BY <1>5, <1>7, <2>1
  <2> HIDE DEF y, z
  <2>4. Exits(m, z, r, E, U)
    BY <2>1, <2>2, <2>3, ExitPd0Exits
  <2> QED
    BY <2>1, <2>4 DEF z
<1> HIDE DEF T
<1>8. b \in T
  <2>1. \A i \in a..b : i \in T
    BY <1>3, <1>6, <1>7, Induction
  <2> QED
    BY <1>3, <2>1
<1>9. Exits(m, n, r, E, U)
  BY <1>2, <1>8 DEF T, Runs
<1> QED
  BY <1>9 DEF n

\* and for every area.
LEMMA ExitMmapExits ==
  ASSUME NEW m \in Mem, NEW s \in Space, NEW E \in SUBSET Page, NEW U \in SUBSET Page, s.pgdir \notin E \cup U,
         NEW o, Exits(o, unmap_all(m, s), s.pgdir, E, U)
  PROVE  Exits(o, exit_mmap(m, s), s.pgdir, E, U)
<1> DEFINE r == s.pgdir
           len == Len(s.vmas)
           n == exit_mmap(m, s)
           x == unmap_all(m, s)
<1>1. r \in Page /\ len \in Nat /\ \A i \in 1..len : s.vmas[i] \in Vma
  BY SpaceFacts
<1>2. PICK done :
        /\ Runs(done, 0, len, x, n)
        /\ \A i \in (0 + 1)..len : done[i] = exit_range(done[i - 1], r, s.vmas[i].vm_start, s.vmas[i].vm_end)
  BY ExitMmapLoop
<1>3. Exits(o, x, r, E, U) /\ r \notin E \cup U
  OBVIOUS
<1> HIDE DEF n, r, len, x
<1> DEFINE T == {i \in 0..len : Exits(o, done[i], r, E, U)}
<1>4. 0 \in T
  BY <1>1, <1>2, <1>3 DEF Runs
<1>5. ASSUME NEW i \in 0..(len - 1), i \in T PROVE i + 1 \in T
  <2> DEFINE v == s.vmas[i + 1]
  <2>1. i + 1 \in (0 + 1)..len /\ i + 1 \in 0..len /\ i + 1 \in 1..len /\ (i + 1) - 1 = i
    BY <1>1
  <2>2. done[i + 1] = exit_range(done[i], r, v.vm_start, v.vm_end) /\ v \in Vma
    BY <1>1, <1>2, <2>1
  <2>3. Exits(o, done[i], r, E, U)
    BY <1>5
  <2> HIDE DEF v
  <2>4. Exits(o, done[i + 1], r, E, U)
    BY <1>1, <1>3, <2>2, <2>3, ExitRangeExits
  <2> QED
    BY <2>1, <2>4
<1> HIDE DEF T
<1>6. len \in T
  <2>1. \A i \in 0..len : i \in T
    BY <1>1, <1>4, <1>5, Induction
  <2> QED
    BY <1>1, <2>1
<1>7. Exits(o, n, r, E, U)
  BY <1>2, <1>6 DEF T, Runs
<1> QED
  BY <1>7 DEF n, r

\* The page directory goes.
LEMMA GiveBackFields ==
  ASSUME NEW m \in Mem, NEW p \in Page
  PROVE  LET n == [free_page(m, p) EXCEPT !.data[p] = ZERO]
         IN  /\ n \in Mem /\ n.free = m.free \cup {p} /\ n.panic = m.panic
             /\ \A q \in Page : /\ n.ref[q] = IF q = p THEN 0 ELSE m.ref[q]
                                /\ n.data[q] = IF q = p THEN ZERO ELSE m.data[q]
             /\ \A q \in Page, i \in Index : n.table[q][i] = IF q = p THEN invalid ELSE m.table[q][i]
<1> DEFINE f == free_page(m, p)
           n == [f EXCEPT !.data[p] = ZERO]
           ref == [m.ref EXCEPT ![p] = 0]
           table == [m.table EXCEPT ![p] = empty]
           d1 == [m.data EXCEPT ![p] = IF m.data[p] = TABLE THEN ZERO ELSE m.data[p]]
           d2 == [d1 EXCEPT ![p] = ZERO]
<1>1. f \in Mem
  BY FreeType
<1>2. \A q \in Page : /\ ref[q] = IF q = p THEN 0 ELSE m.ref[q]
                      /\ d2[q] = IF q = p THEN ZERO ELSE m.data[q]
  BY MemFields
<1>3. ASSUME NEW q \in Page, NEW i \in Index
      PROVE  table[q][i] = IF q = p THEN invalid ELSE m.table[q][i]
  <2>1. table[q] = IF q = p THEN empty ELSE m.table[q]
    BY MemFields
  <2>2. empty[i] = invalid
    BY DEF empty
  <2> HIDE DEF table
  <2> QED
    BY <2>1, <2>2
<1>4. f = [m EXCEPT !.free = m.free \cup {p}, !.ref = ref, !.table = table, !.data = d1]
  BY DEF free_page
<1>5. d2 \in [Page -> Content]
  BY MemFields, Contents
<1> HIDE DEF f, ref, table, d1
<1>6. f = [free |-> m.free \cup {p}, ref |-> ref, table |-> table, data |-> d1, panic |-> m.panic]
  <2>1. m = [free |-> m.free, ref |-> m.ref, table |-> m.table, data |-> m.data, panic |-> m.panic]
    BY MemFields
  <2> QED
    BY <1>4, <2>1
<1>7. n = [free |-> m.free \cup {p}, ref |-> ref, table |-> table, data |-> d2, panic |-> m.panic]
  <2>1. f.data = d1
    BY <1>6
  <2>2. n = [f EXCEPT !.data = d2]
    BY <2>1
  <2> HIDE DEF d2, n
  <2> QED
    BY <1>6, <2>2
<1>8. n \in Mem
  <2> HIDE DEF d2, n
  <2> QED
    BY <1>1, <1>5, <1>6, <1>7 DEF Mem
<1> HIDE DEF d2, n
<1>9. /\ n \in Mem /\ n.free = m.free \cup {p} /\ n.panic = m.panic
      /\ \A q \in Page : /\ n.ref[q] = IF q = p THEN 0 ELSE m.ref[q]
                         /\ n.data[q] = IF q = p THEN ZERO ELSE m.data[q]
      /\ \A q \in Page, i \in Index : n.table[q][i] = IF q = p THEN invalid ELSE m.table[q][i]
  BY <1>2, <1>3, <1>7, <1>8
<1> QED
  BY <1>9 DEF n, f

\* An address space that is given back leaves the others as they are.
LEMMA DropGood ==
  ASSUME NEW m, Good(m, {}), NEW s \in Space, s.pgdir \in Roots(m), Within(m, s.pgdir, Extents(s.vmas, 1))
  PROVE  LET n == drop(m, s)
         IN  /\ Good(n, {}) /\ Roots(n) = Roots(m) \ {s.pgdir}
             /\ \A q \in Roots(n), la \in Addr : Agrees(m, n, q, la)
<1> DEFINE r == s.pgdir
           o == unmap_all(m, s)
           e == exit_mmap(m, s)
           n == drop(m, s)
           F == {d \in Page : \E i \in Index : d = o.table[r][i]}
           U == {t \in Page : \E d \in F, j \in Index : t = o.table[d][j]}
<1>1. Good(o, {}) /\ Edited(m, o, r, Addr) /\ Within(o, r, {})
  BY UnmapAllGood
<1>2. r \in Page /\ m \in Mem /\ r \in Roots(m)
  BY SpaceFacts DEF Good
<1>3. n = [free_page(e, r) EXCEPT !.data[r] = ZERO]
  BY SpaceFacts DEF drop
<1>4. \A x \in SUBSET Page, y \in SUBSET Page : r \notin x \cup y /\ Exits(o, o, r, x, y) => Exits(o, e, r, x, y)
  BY <1>2, ExitMmapExits
<1> HIDE DEF r, o, e, n
<1>5. o \in Mem /\ ~o.panic /\ {} \in SUBSET Page
  BY <1>1 DEF Good
<1>6. PICK D \in SUBSET Page, T \in SUBSET Page : Forest(o, {}, D, T)
  BY <1>1 DEF Good
<1>7. Apart(o, {}, D, T)
  BY <1>5, <1>6, KindsApart
<1>8. Layer(o.table, Roots(o), PD1, D) /\ Layer(o.table, D, PD0, T) /\ Layer(o.table, T, PT, Users(o, {}))
  BY <1>6 DEF Forest
<1>9. r \in Roots(o) /\ Roots(o) = Roots(m)
  BY <1>1, <1>2 DEF Edited
<1>10. F \subseteq D /\ \A i \in Index : o.table[r][i] \in F \cup {invalid}
  <2>1. \A i \in Index : o.table[r][i] # invalid => o.table[r][i] \in D
    BY <1>8, <1>9 DEF Layer
  <2> QED
    BY <2>1, Pages
<1>11. U \subseteq T /\ \A d \in F, i \in Index : o.table[d][i] \in U \cup {invalid}
  <2>1. \A d \in F, i \in Index : o.table[d][i] # invalid => o.table[d][i] \in T
    BY <1>8, <1>10 DEF Layer
  <2> HIDE DEF F
  <2>2. T \subseteq Page
    OBVIOUS
  <2>3. U \subseteq T
    BY <2>1, Pages
  <2>4. ASSUME NEW d \in F, NEW i \in Index, o.table[d][i] # invalid PROVE o.table[d][i] \in U
    BY <2>1, <2>2, <2>4
  <2> QED
    BY <2>3, <2>4
<1>12. \A p \in Roots(o) \ {r}, i \in Index : o.table[p][i] \notin F
  <2> SUFFICES ASSUME NEW p \in Roots(o) \ {r}, NEW i \in Index, NEW j \in Index,
                      o.table[p][i] = o.table[r][j], o.table[p][i] # invalid
               PROVE  FALSE
    BY Pages
  <2>1. i \in PD1 /\ j \in PD1
    BY <1>8, <1>9 DEF Layer
  <2> QED
    BY <1>8, <1>9, <2>1 DEF Layer
<1>13. \A d \in D \ F, i \in Index : o.table[d][i] \notin U
  <2> SUFFICES ASSUME NEW d \in D \ F, NEW i \in Index, NEW c \in F, NEW j \in Index,
                      o.table[d][i] = o.table[c][j], o.table[d][i] # invalid
               PROVE  FALSE
    BY Pages
  <2> HIDE DEF F
  <2>1. c \in D
    BY <1>10
  <2>2. i \in PD0 /\ j \in PD0
    BY <1>8, <2>1 DEF Layer
  <2> QED
    BY <1>8, <2>1, <2>2 DEF Layer
<1>14. \A t \in U, k \in PT : o.table[t][k] = invalid
  <2> SUFFICES ASSUME NEW i \in Index, NEW j \in Index, NEW k \in PT, NEW d \in F, d = o.table[r][i],
                      NEW t \in Page, t = o.table[d][j], o.table[t][k] # invalid
               PROVE  FALSE
    OBVIOUS
  <2>1. d # invalid /\ t # invalid
    BY Pages
  <2>2. i \in PD1 /\ d \in D
    BY <1>8, <1>9, <2>1 DEF Layer
  <2>3. j \in PD0
    BY <1>8, <2>1, <2>2 DEF Layer
  <2>4. PICK la \in Addr : PDX1(la) = i /\ PDX0(la) = j /\ PTX(la) = k
    BY <2>2, <2>3, AddrOf
  <2>5. find_pt(o, r, la) = t
    BY <2>1, <2>4 DEF find_pt
  <2>6. pte(o, r, la) # invalid
    BY <2>1, <2>4, <2>5 DEF pte
  <2> QED
    BY <1>1, <2>6 DEF Within
<1>15. F \in SUBSET Page /\ U \in SUBSET Page
  OBVIOUS
<1> HIDE DEF F, U
<1>16. r \notin F \cup U /\ F \cap U = {}
  BY <1>6, <1>7, <1>9, <1>10, <1>11 DEF Apart, Forest
<1>17. \A q \in F \cup U : q \notin o.free /\ o.data[q] = TABLE
  BY <1>6, <1>10, <1>11 DEF Forest
<1>18. Exits(o, o, r, F, U)
  BY <1>5, <1>10, <1>11, <1>17 DEF Exits
<1>19. Exits(o, e, r, F, U)
  BY <1>4, <1>15, <1>16, <1>18
<1>20. e \in Mem /\ e.panic = o.panic
  BY <1>19 DEF Exits
<1>21. /\ n \in Mem /\ n.free = e.free \cup {r} /\ n.panic = e.panic
       /\ \A q \in Page : /\ n.ref[q] = IF q = r THEN 0 ELSE e.ref[q]
                          /\ n.data[q] = IF q = r THEN ZERO ELSE e.data[q]
       /\ \A q \in Page, i \in Index : n.table[q][i] = IF q = r THEN invalid ELSE e.table[q][i]
  BY <1>2, <1>3, <1>20, GiveBackFields

\* Elsewhere nothing has changed.
<1>22. ASSUME NEW q \in Page, q \notin F, q \notin U, q # r
       PROVE  /\ q \in n.free <=> q \in o.free
              /\ n.ref[q] = o.ref[q] /\ n.data[q] = o.data[q]
              /\ \A i \in Index : n.table[q][i] = o.table[q][i]
  <2>1. /\ q \in e.free <=> q \in o.free
        /\ e.ref[q] = o.ref[q] /\ e.data[q] = o.data[q] /\ e.table[q] = o.table[q]
    BY <1>19, <1>22 DEF Exits
  <2> QED
    BY <1>21, <1>22, <2>1

\* What was r's is free, or a table that is lost.
<1>23. ASSUME NEW q \in F \cup U
       PROVE  /\ q \notin n.free => n.ref[q] = o.ref[q] /\ n.data[q] = TABLE
              /\ q \in n.free => n.ref[q] = 0 /\ n.data[q] = ZERO /\ \A i \in Index : n.table[q][i] = invalid
  <2>1. q \in Page /\ q # r
    BY <1>15, <1>16
  <2>2. q \in n.free <=> q \in e.free
    BY <1>21, <2>1
  <2>3. q \notin e.free => e.ref[q] = o.ref[q] /\ e.data[q] = TABLE
    BY <1>17, <1>19 DEF Exits
  <2>4. q \in e.free => e.ref[q] = 0 /\ e.data[q] = ZERO /\ \A i \in Index : e.table[q][i] = invalid
    BY <1>19 DEF Exits
  <2> QED
    BY <1>21, <2>1, <2>2, <2>3, <2>4
<1>24. /\ r \in n.free /\ n.ref[r] = 0 /\ n.data[r] = ZERO
       /\ \A i \in Index : n.table[r][i] = invalid
  BY <1>2, <1>21
<1>25. TABLE # BOOT /\ ZERO # BOOT /\ TABLE \notin Value /\ ZERO \in Value
  BY AddressSpaceAssumption
<1>26. Roots(n) = Roots(o) \ {r}
  <2>1. ASSUME NEW q \in Page PROVE q \in Roots(n) <=> q \in Roots(o) /\ q # r
    <3>1. CASE q \in F \cup U
      <4>1. q \notin Roots(n)
        BY <1>23, <1>25, <3>1 DEF Roots
      <4>2. q \notin Roots(o)
        BY <1>17, <1>25, <3>1 DEF Roots
      <4> QED
        BY <4>1, <4>2
    <3>2. CASE q = r
      BY <1>24, <3>2 DEF Roots
    <3>3. CASE q \notin F \cup U /\ q # r
      BY <1>22, <3>3 DEF Roots
    <3> QED
      BY <3>1, <3>2, <3>3
  <2> QED
    BY <2>1 DEF Roots
<1>27. Users(n, {}) = Users(o, {})
  <2>1. ASSUME NEW q \in Page PROVE q \in Users(n, {}) <=> q \in Users(o, {})
    <3>1. CASE q \in F \cup U
      <4>1. q \notin Users(n, {})
        BY <1>23, <1>25, <3>1 DEF Users
      <4>2. q \notin Users(o, {})
        BY <1>17, <1>25, <3>1 DEF Users
      <4> QED
        BY <4>1, <4>2
    <3>2. CASE q = r
      <4>1. q \notin Users(o, {})
        BY <1>7, <1>9, <3>2 DEF Apart
      <4> QED
        BY <1>24, <3>2, <4>1 DEF Users
    <3>3. CASE q \notin F \cup U /\ q # r
      BY <1>22, <3>3 DEF Users
    <3> QED
      BY <3>1, <3>2, <3>3
  <2> QED
    BY <2>1 DEF Users
<1>28. /\ \A q \in Roots(o) \ {r} : q \in Page /\ q \notin F /\ q \notin U /\ q # r
       /\ \A q \in D \ F : q \in Page /\ q \notin F /\ q \notin U /\ q # r
       /\ \A q \in T \ U : q \in Page /\ q \notin F /\ q \notin U /\ q # r
       /\ \A q \in Users(o, {}) : q \in Page /\ q \notin F /\ q \notin U /\ q # r
  BY <1>7, <1>9, <1>10, <1>11 DEF Apart
<1>29. \A q \in (Roots(o) \ {r}) \cup (D \ F) \cup (T \ U), i \in Index : n.table[q][i] = o.table[q][i]
  BY <1>22, <1>28
<1>30. Forest(n, {}, D \ F, T \ U)
  <2>1. (D \ F) \cap (T \ U) = {}
    BY <1>6 DEF Forest
  <2>2. \A q \in (D \ F) \cup (T \ U) : q \notin n.free /\ q \notin {} /\ n.data[q] = TABLE
    <3>1. \A q \in D \cup T : q \notin o.free /\ o.data[q] = TABLE
      BY <1>6 DEF Forest
    <3> QED
      BY <1>22, <1>28, <3>1
  <2>3. ASSUME NEW q \in n.free
        PROVE  n.ref[q] = 0 /\ n.data[q] \in Value /\ \A i \in Index : n.table[q][i] = invalid
    <3>1. q \in Page
      BY <1>21, MemFields
    <3>2. CASE q \in F \cup U
      BY <1>23, <1>25, <2>3, <3>2
    <3>3. CASE q = r
      BY <1>24, <1>25, <3>3
    <3>4. CASE q \notin F \cup U /\ q # r
      <4>1. q \in o.free
        BY <1>22, <2>3, <3>1, <3>4
      <4>2. o.ref[q] = 0 /\ o.data[q] \in Value /\ \A i \in Index : o.table[q][i] = invalid
        BY <1>6, <4>1 DEF Forest
      <4> QED
        BY <1>22, <3>1, <3>4, <4>2
    <3> QED
      BY <3>2, <3>3, <3>4
  <2>4. \A q \in Users(n, {}) : n.ref[q] = 1 /\ \A i \in Index : n.table[q][i] = invalid
    <3>1. \A q \in Users(o, {}) : o.ref[q] = 1 /\ \A i \in Index : o.table[q][i] = invalid
      BY <1>6 DEF Forest
    <3> QED
      BY <1>22, <1>27, <1>28, <3>1
  <2>5. Layer(n.table, Roots(n), PD1, D \ F)
    <3> DEFINE less == Roots(o) \ {r}
               left == D \ F
    <3>1. \A p \in less, i \in Index : n.table[p][i] = o.table[p][i]
      BY <1>29
    <3>2. \A q \in left : q # invalid /\ q \in D /\ \E p \in less, i \in PD1 : n.table[p][i] = q
      <4> SUFFICES ASSUME NEW q \in left PROVE q # invalid /\ \E p \in less, i \in PD1 : n.table[p][i] = q
        OBVIOUS
      <4>1. PICK p \in Roots(o), i \in PD1 : o.table[p][i] = q
        BY <1>8 DEF Layer
      <4>2. i \in Index /\ q # invalid
        BY <1>28, Pages, IndexSets
      <4>3. p # r
        BY <1>10, <4>1, <4>2
      <4> QED
        BY <3>1, <4>1, <4>2, <4>3
    <3>3. \A p \in less, i \in PD1 : n.table[p][i] # invalid => n.table[p][i] \in left
      BY <1>8, <1>12, <3>1, IndexSets DEF Layer
    <3>4. PD1 \in SUBSET Index /\ less \subseteq Roots(o) /\ \A p \in less, i \in Index : n.table[p][i] \in {o.table[p][i], invalid}
      BY <3>1, IndexSets
    <3> HIDE DEF less, left
    <3>5. Prunes(n.table, o.table, Roots(o), PD1, D, less, left)
      BY <3>2, <3>3, <3>4 DEF Prunes
    <3>6. Layer(n.table, less, PD1, left)
      BY <1>8, <3>4, <3>5, LayerLess
    <3> QED
      BY <1>26, <3>6 DEF less, left
  <2>6. Layer(n.table, D \ F, PD0, T \ U)
    <3> DEFINE less == D \ F
               left == T \ U
    <3>1. \A p \in less, i \in Index : n.table[p][i] = o.table[p][i]
      BY <1>29
    <3>2. \A q \in left : q # invalid /\ q \in T /\ \E p \in less, i \in PD0 : n.table[p][i] = q
      <4> SUFFICES ASSUME NEW q \in left PROVE q # invalid /\ \E p \in less, i \in PD0 : n.table[p][i] = q
        OBVIOUS
      <4>1. PICK p \in D, i \in PD0 : o.table[p][i] = q
        BY <1>8 DEF Layer
      <4>2. i \in Index /\ q # invalid
        BY <1>28, Pages, IndexSets
      <4>3. p \notin F
        BY <1>11, <4>1, <4>2
      <4> QED
        BY <3>1, <4>1, <4>2, <4>3
    <3>3. \A p \in less, i \in PD0 : n.table[p][i] # invalid => n.table[p][i] \in left
      BY <1>8, <1>13, <3>1, IndexSets DEF Layer
    <3>4. PD0 \in SUBSET Index /\ less \subseteq D /\ \A p \in less, i \in Index : n.table[p][i] \in {o.table[p][i], invalid}
      BY <3>1, IndexSets
    <3> HIDE DEF less, left
    <3>5. Prunes(n.table, o.table, D, PD0, T, less, left)
      BY <3>2, <3>3, <3>4 DEF Prunes
    <3>6. Layer(n.table, less, PD0, left)
      BY <1>8, <3>4, <3>5, LayerLess
    <3> QED
      BY <3>6 DEF less, left
  <2>7. Layer(n.table, T \ U, PT, Users(n, {}))
    <3> DEFINE less == T \ U
               left == Users(o, {})
    <3>1. \A p \in less, i \in Index : n.table[p][i] = o.table[p][i]
      BY <1>29
    <3>2. \A q \in left : q # invalid /\ q \in left /\ \E p \in less, i \in PT : n.table[p][i] = q
      <4> SUFFICES ASSUME NEW q \in left PROVE q # invalid /\ \E p \in less, i \in PT : n.table[p][i] = q
        OBVIOUS
      <4>1. PICK p \in T, i \in PT : o.table[p][i] = q
        BY <1>8 DEF Layer
      <4>2. i \in Index /\ q # invalid
        BY <1>28, Pages, IndexSets
      <4>3. p \notin U
        BY <1>14, <4>1, <4>2
      <4> QED
        BY <3>1, <4>1, <4>2, <4>3
    <3>3. \A p \in less, i \in PT : n.table[p][i] # invalid => n.table[p][i] \in left
      BY <1>8, <3>1, IndexSets DEF Layer
    <3>4. PT \in SUBSET Index /\ less \subseteq T /\ \A p \in less, i \in Index : n.table[p][i] \in {o.table[p][i], invalid}
      BY <3>1, IndexSets
    <3>5. Layer(o.table, T, PT, left)
      BY <1>8
    <3> HIDE DEF less, left
    <3>6. Prunes(n.table, o.table, T, PT, left, less, left)
      BY <3>2, <3>3, <3>4 DEF Prunes
    <3>7. Layer(n.table, less, PT, left)
      BY <3>4, <3>5, <3>6, LayerLess
    <3> QED
      BY <1>27, <3>7 DEF less, left
  <2> QED
    BY <1>15, <2>1, <2>2, <2>3, <2>4, <2>5, <2>6, <2>7 DEF Forest
<1>31. Good(n, {})
  <2>1. \A q \in Page : n.ref[q] \in Nat
    <3>1. \A q \in Page : o.ref[q] \in Nat
      BY <1>1 DEF Good
    <3> QED
      BY <1>22, <1>23, <1>24, <3>1
  <2> QED
    BY <1>5, <1>20, <1>21, <1>30, <2>1 DEF Good
<1>32. ASSUME NEW q \in Roots(n), NEW la \in Addr PROVE Agrees(m, n, q, la)
  <2> DEFINE d == o.table[q][PDX1(la)]
             t == find_pt(o, q, la)
             p == pte(o, q, la)
  <2>1. PDX1(la) \in Index /\ PDX0(la) \in Index /\ PTX(la) \in Index
    BY AddrIndices
  <2>2. q \in Roots(o) /\ q # r
    BY <1>26
  <2>3. d \in D \cup {invalid} /\ t \in T \cup {invalid} /\ p \in Users(o, {}) \cup {invalid}
    BY <1>5, <1>6, <2>2, Walk
  <2>4. n.table[q][PDX1(la)] = d /\ d \notin F
    BY <1>12, <1>29, <2>1, <2>2
  <2>5. t = IF d = invalid THEN invalid ELSE o.table[d][PDX0(la)]
    BY DEF find_pt
  <2>6. p = IF t = invalid THEN invalid ELSE o.table[t][PTX(la)]
    BY DEF pte
  <2> HIDE DEF d, t, p
  <2>7. invalid \notin U
    BY <1>15, Pages
  <2>8. d # invalid => d \in D \ F
    BY <2>3, <2>4
  <2>9. t \notin U
    BY <1>13, <2>1, <2>5, <2>7, <2>8
  <2>10. find_pt(n, q, la) = t
    <3>1. d # invalid => n.table[d][PDX0(la)] = o.table[d][PDX0(la)]
      BY <1>29, <2>1, <2>8
    <3> QED
      BY <2>4, <2>5, <3>1 DEF find_pt
  <2>11. pte(n, q, la) = p
    <3>1. t # invalid => n.table[t][PTX(la)] = o.table[t][PTX(la)]
      BY <1>29, <2>1, <2>3, <2>9
    <3> QED
      BY <2>6, <2>10, <3>1 DEF pte
  <2>12. p # invalid => n.data[p] = o.data[p]
    BY <1>22, <1>28, <2>3
  <2>13. Agrees(o, n, q, la)
    BY <2>11, <2>12 DEF Agrees, p
  <2>14. Agrees(m, o, q, la)
    BY <1>1, <1>9, <2>2 DEF Edited
  <2> QED
    BY <2>13, <2>14 DEF Agrees
<1> QED
  BY <1>9, <1>26, <1>31, <1>32 DEF n, r
-----------------------------------------------------------------------------
(* An address space comes. *)

\* setup_pgdir, with the page it takes.
rooted(m, p) == [m EXCEPT !.data[p] = BOOT, !.table[p] = empty]

\* What a new page directory changes.
LEMMA RootFields ==
  ASSUME NEW m \in Mem, NEW p \in Page
  PROVE  LET n == rooted(m, p)
         IN  /\ n \in Mem /\ n.free = m.free /\ n.panic = m.panic /\ n.ref = m.ref
             /\ \A q \in Page : n.data[q] = IF q = p THEN BOOT ELSE m.data[q]
             /\ \A q \in Page, i \in Index : n.table[q][i] = IF q = p THEN invalid ELSE m.table[q][i]
<1> DEFINE n == rooted(m, p)
           data == [m.data EXCEPT ![p] = BOOT]
           table == [m.table EXCEPT ![p] = empty]
<1>1. \A q \in Page : data[q] = IF q = p THEN BOOT ELSE m.data[q]
  BY MemFields
<1>2. ASSUME NEW q \in Page, NEW i \in Index
      PROVE  table[q][i] = IF q = p THEN invalid ELSE m.table[q][i]
  <2>1. table[q] = IF q = p THEN empty ELSE m.table[q]
    BY MemFields
  <2>2. empty[i] = invalid
    BY DEF empty
  <2> HIDE DEF table
  <2> QED
    BY <2>1, <2>2
<1>3. data \in [Page -> Content] /\ table \in [Page -> [Index -> Page \cup {invalid}]]
  BY MemFields, Contents, Pages
<1>4. n = [m EXCEPT !.data = data, !.table = table]
  BY DEF rooted
<1> HIDE DEF n, data, table
<1>5. n = [free |-> m.free, ref |-> m.ref, table |-> table, data |-> data, panic |-> m.panic]
  <2>1. m = [free |-> m.free, ref |-> m.ref, table |-> m.table, data |-> m.data, panic |-> m.panic]
    BY MemFields
  <2> QED
    BY <1>4, <2>1
<1>6. n \in Mem
  BY <1>3, <1>5, MemFields DEF Mem
<1>7. /\ n \in Mem /\ n.free = m.free /\ n.panic = m.panic /\ n.ref = m.ref
      /\ \A q \in Page : n.data[q] = IF q = p THEN BOOT ELSE m.data[q]
      /\ \A q \in Page, i \in Index : n.table[q][i] = IF q = p THEN invalid ELSE m.table[q][i]
  BY <1>1, <1>2, <1>5, <1>6
<1> QED
  BY <1>7 DEF n

\* A page directory that leads nowhere yet.
LEMMA SetupGood ==
  ASSUME NEW m, Good(m, {}), m.free # {}
  PROVE  LET p == lowest(m.free)
             n == setup_pgdir(m)
         IN  /\ Good(n, {}) /\ p \notin Roots(m) /\ Roots(n) = Roots(m) \cup {p}
             /\ Within(n, p, {})
             /\ \A q \in Roots(m), la \in Addr : Agrees(m, n, q, la)
<1> DEFINE p == lowest(m.free)
           t == take(m)
           n == setup_pgdir(m)
<1>1. n = rooted(t, p)
  BY DEF setup_pgdir, rooted
<1>2. p \in Page /\ p \in m.free /\ Good(t, {} \cup {p}) /\ SameSpaces(m, t)
  BY TakeGood
<1> HIDE DEF p, t, n
<1>3. {} \cup {p} = {p}
  OBVIOUS
<1>4. Good(t, {p})
  BY <1>2, <1>3
<1>5. t \in Mem /\ ~t.panic /\ {p} \in SUBSET Page /\ p \notin t.free
  BY <1>4 DEF Good
<1>6. PICK D \in SUBSET Page, T \in SUBSET Page : Forest(t, {p}, D, T)
  BY <1>4 DEF Good
<1>7. Apart(t, {p}, D, T)
  BY <1>5, <1>6, KindsApart
<1>8. /\ n \in Mem /\ n.free = t.free /\ n.panic = t.panic /\ n.ref = t.ref
      /\ \A q \in Page : n.data[q] = IF q = p THEN BOOT ELSE t.data[q]
      /\ \A q \in Page, i \in Index : n.table[q][i] = IF q = p THEN invalid ELSE t.table[q][i]
  BY <1>1, <1>2, <1>5, RootFields
<1>9. p \notin D /\ p \notin T /\ p \notin Users(t, {p}) /\ p \notin Roots(t)
  BY <1>7 DEF Apart
<1>10. Roots(n) = Roots(t) \cup {p}
  BY <1>2, <1>5, <1>8 DEF Roots
<1>11. Users(n, {}) = Users(t, {p})
  <2>1. BOOT \notin Value
    BY AddressSpaceAssumption
  <2>2. ASSUME NEW q \in Page PROVE q \in Users(n, {}) <=> q \in Users(t, {p})
    BY <1>8, <2>1 DEF Users
  <2> QED
    BY <2>2 DEF Users
<1>12. Layer(t.table, Roots(t), PD1, D) /\ Layer(t.table, D, PD0, T) /\ Layer(t.table, T, PT, Users(t, {p}))
  BY <1>6 DEF Forest
<1>13. /\ \A q \in Roots(t) : q \in Page /\ q # p
       /\ \A q \in D : q \in Page /\ q # p
       /\ \A q \in T : q \in Page /\ q # p
       /\ \A q \in Users(t, {p}) : q \in Page /\ q # p
  BY <1>7 DEF Apart
<1>14. \A q \in Roots(t) \cup D \cup T, i \in Index : n.table[q][i] = t.table[q][i]
  BY <1>8, <1>13
<1>15. Forest(n, {}, D, T)
  <2>1. D \cap T = {} /\ D \subseteq Page /\ T \subseteq Page
    BY <1>6 DEF Forest
  <2>2. \A q \in D \cup T : q \notin n.free /\ q \notin {} /\ n.data[q] = TABLE
    <3>1. \A q \in D \cup T : q \notin t.free /\ t.data[q] = TABLE
      BY <1>6 DEF Forest
    <3> QED
      BY <1>8, <1>13, <3>1
  <2>3. \A q \in n.free : n.ref[q] = 0
    BY <1>6, <1>8 DEF Forest
  <2>4. \A q \in n.free \cup {} : n.data[q] \in Value /\ \A i \in Index : n.table[q][i] = invalid
    <3>1. \A q \in t.free : t.data[q] \in Value /\ \A i \in Index : t.table[q][i] = invalid
      BY <1>6 DEF Forest
    <3>2. \A q \in t.free : q \in Page /\ q # p
      BY <1>5, MemFields
    <3> QED
      BY <1>8, <3>1, <3>2
  <2>5. \A q \in Users(n, {}) : n.ref[q] = 1 /\ \A i \in Index : n.table[q][i] = invalid
    <3>1. \A q \in Users(t, {p}) : t.ref[q] = 1 /\ \A i \in Index : t.table[q][i] = invalid
      BY <1>6 DEF Forest
    <3>2. \A q \in Users(t, {p}) : n.ref[q] = t.ref[q] /\ \A i \in Index : n.table[q][i] = t.table[q][i]
      BY <1>8, <1>13
    <3> SUFFICES ASSUME NEW q \in Users(n, {}) PROVE n.ref[q] = 1 /\ \A i \in Index : n.table[q][i] = invalid
      OBVIOUS
    <3>3. q \in Users(t, {p})
      BY <1>11
    <3>4. n.ref[q] = 1
      BY <3>1, <3>2, <3>3
    <3>5. ASSUME NEW i \in Index PROVE n.table[q][i] = invalid
      <4>1. n.table[q][i] = t.table[q][i]
        BY <3>2, <3>3
      <4>2. t.table[q][i] = invalid
        BY <3>1, <3>3
      <4> QED
        BY <4>1, <4>2
    <3> QED
      BY <3>4, <3>5
  <2>6. Layer(n.table, Roots(n), PD1, D)
    <3>1. \A q \in Roots(t), i \in Index : n.table[q][i] = t.table[q][i]
      BY <1>14
    <3>2. Layer(n.table, Roots(t), PD1, D)
      BY <1>12, <3>1, IndexSets, SameLayer
    <3>3. \A i \in Index : n.table[p][i] = invalid
      BY <1>2, <1>8
    <3>4. Layer(n.table, Roots(t) \cup {p}, PD1, D)
      BY <3>2, <3>3, IndexSets, LayerParent
    <3> QED
      BY <1>10, <3>4
  <2>7. Layer(n.table, D, PD0, T)
    <3>1. \A q \in D, i \in Index : n.table[q][i] = t.table[q][i]
      BY <1>14
    <3> QED
      BY <1>12, <3>1, IndexSets, SameLayer
  <2>8. Layer(n.table, T, PT, Users(n, {}))
    <3>1. \A q \in T, i \in Index : n.table[q][i] = t.table[q][i]
      BY <1>14
    <3>2. Layer(n.table, T, PT, Users(t, {p}))
      BY <1>12, <3>1, IndexSets, SameLayer
    <3> QED
      BY <1>11, <3>2
  <2> QED
    BY <2>1, <2>2, <2>3, <2>4, <2>5, <2>6, <2>7, <2>8 DEF Forest
<1>16. Good(n, {})
  <2>1. \A q \in Page : n.ref[q] \in Nat
    BY <1>4, <1>8 DEF Good
  <2> QED
    BY <1>5, <1>8, <1>15, <2>1 DEF Good
<1>17. Within(n, p, {})
  <2>1. ASSUME NEW la \in Addr PROVE pte(n, p, la) = invalid
    <3>1. n.table[p][PDX1(la)] = invalid
      BY <1>2, <1>8, AddrIndices
    <3> QED
      BY <3>1 DEF pte, find_pt
  <2> QED
    BY <2>1 DEF Within
<1>18. ASSUME NEW q \in Roots(t), NEW la \in Addr PROVE Agrees(t, n, q, la)
  <2>1. pte(n, q, la) = pte(t, q, la)
    <3>1. SameTables(t, n, Roots(t)) /\ SameTables(t, n, D) /\ SameTables(t, n, T)
      BY <1>14 DEF SameTables
    <3>2. find_pt(n, q, la) = find_pt(t, q, la) /\ pte(n, q, la) = pte(t, q, la)
      BY <1>5, <1>6, <3>1, SameWalk
    <3> QED
      BY <3>2
  <2>2. pte(t, q, la) \in Users(t, {p}) \cup {invalid}
    BY <1>5, <1>6, Walk
  <2> QED
    BY <1>8, <1>13, <2>1, <2>2 DEF Agrees
<1>19. Roots(t) = Roots(m) /\ \A q \in Roots(m), la \in Addr : Agrees(m, t, q, la)
  BY <1>2 DEF SameSpaces
<1>20. \A q \in Roots(m), la \in Addr : Agrees(m, n, q, la)
  BY <1>18, <1>19 DEF Agrees
<1> QED
  BY <1>9, <1>10, <1>16, <1>17, <1>19, <1>20 DEF p, n

\* An area that comes into the list leaves the others there.
Covered(vmas) == {la \in Addr : find_vma(vmas, la) # {}}

\* find_vma finds an area for the addresses in one.
LEMMA CoveredIsExtents ==
  ASSUME NEW vmas \in Seq(Vma)
  PROVE  Covered(vmas) = Extents(vmas, 1)
<1>1. Len(vmas) \in Nat /\ DOMAIN vmas = 1..Len(vmas) /\ \A i \in 1..Len(vmas) : vmas[i] \in Vma
  BY LenProperties, ElementOfSeq
<1>2. \A i \in 1..Len(vmas) : Extent(vmas[i]) \subseteq Addr
  BY <1>1, ExtentInAddr
<1>3. ASSUME NEW la \in Addr, NEW i \in 1..Len(vmas)
      PROVE  la \in Extent(vmas[i]) <=> vmas[i].vm_start <= la /\ la < vmas[i].vm_end
  <2> DEFINE v == vmas[i]
  <2>1. v.vm_start \in Nat /\ v.vm_end \in Nat /\ la \in Nat
    BY <1>1, VmaFacts, Sizes DEF Addr
  <2> QED
    BY <2>1 DEF Extent
<1>4. ASSUME NEW la \in Addr PROVE la \in Covered(vmas) <=> la \in Extents(vmas, 1)
  <2>1. la \in Covered(vmas) <=> \E i \in 1..Len(vmas) : vmas[i].vm_start <= la /\ la < vmas[i].vm_end
    BY <1>1 DEF Covered, find_vma
  <2>2. la \in Extents(vmas, 1) <=> \E i \in 1..Len(vmas) : la \in Extent(vmas[i])
    BY DEF Extents
  <2> QED
    BY <1>3, <2>1, <2>2
<1>5. Extents(vmas, 1) \subseteq Addr /\ Covered(vmas) \subseteq Addr
  BY <1>2 DEF Extents, Covered
<1> QED
  BY <1>4, <1>5

\* An area that overlaps no other is apart from all.
LEMMA AreasApart ==
  ASSUME NEW vmas \in Seq(Vma), NEW v \in Vma, ~overlaps(vmas, v), NEW la \in Extent(v)
  PROVE  la \notin Extents(vmas, 1)
<1>1. Len(vmas) \in Nat /\ DOMAIN vmas = 1..Len(vmas) /\ \A i \in 1..Len(vmas) : vmas[i] \in Vma
  BY LenProperties, ElementOfSeq
<1>2. ASSUME NEW i \in 1..Len(vmas) PROVE la \notin Extent(vmas[i])
  <2> DEFINE w == vmas[i]
  <2>1. ~(v.vm_start < w.vm_end /\ w.vm_start < v.vm_end)
    BY <1>1 DEF overlaps
  <2>2. w.vm_start \in Nat /\ w.vm_end \in Nat /\ v.vm_start \in Nat /\ v.vm_end \in Nat
    BY <1>1, VmaFacts
  <2>3. la \in v.vm_start..(v.vm_end - 1)
    BY DEF Extent
  <2>4. ASSUME NEW a \in Nat, NEW b \in Nat, NEW c \in Nat, NEW d \in Nat, ~(a < d /\ c < b), NEW x \in a..(b - 1)
        PROVE  x \notin c..(d - 1)
    BY <2>4
  <2>5. la \notin w.vm_start..(w.vm_end - 1)
    BY <2>1, <2>2, <2>3, <2>4
  <2> QED
    BY <2>5 DEF Extent
<1> QED
  BY <1>2 DEF Extents

\* The addresses of the areas after insert_vma are those before, and those of the new one.
LEMMA InsertVmaCovers ==
  ASSUME NEW vmas \in Seq(Vma), NEW v \in Vma
  PROVE  Extents(insert_vma(vmas, v), 1) = Extents(vmas, 1) \cup Extent(v)
<1> DEFINE n == Len(vmas)
           k == Cardinality({i \in DOMAIN vmas : vmas[i].vm_start <= v.vm_start})
           new == insert_vma(vmas, v)
<1>1. n \in Nat /\ DOMAIN vmas = 1..n
  BY LenProperties
<1>2. k \in 0..n
  <2> DEFINE B == {i \in DOMAIN vmas : vmas[i].vm_start <= v.vm_start}
  <2>1. B \subseteq 1..n
    BY <1>1
  <2>2. IsFiniteSet(1..n) /\ Cardinality(1..n) = n
    BY <1>1, CountedSet
  <2> HIDE DEF B
  <2>3. IsFiniteSet(B) /\ Cardinality(B) <= n
    BY <2>1, <2>2, FS_Subset
  <2>4. Cardinality(B) \in Nat
    BY <2>3, FS_CardinalityType
  <2>5. Cardinality(B) \in 0..n
    BY <1>1, <2>3, <2>4
  <2> QED
    BY <2>5 DEF B
<1>3. new = (SubSeq(vmas, 1, k) \o <<v>>) \o SubSeq(vmas, k + 1, n)
  BY DEF insert_vma
<1> HIDE DEF k, new, n
<1>4. /\ SubSeq(vmas, 1, k) \in Seq(Vma) /\ Len(SubSeq(vmas, 1, k)) = k
      /\ \A i \in 1..k : SubSeq(vmas, 1, k)[i] = vmas[i]
  <2>1. \A i \in 1..k : vmas[i] \in Vma
    BY <1>1, <1>2, ElementOfSeq DEF n
  <2>2. k \in Nat
    BY <1>1, <1>2
  <2> QED
    BY <2>1, <2>2, SubSeqProperties
<1>5. /\ SubSeq(vmas, k + 1, n) \in Seq(Vma) /\ Len(SubSeq(vmas, k + 1, n)) = n - k
      /\ \A i \in 1..(n - k) : SubSeq(vmas, k + 1, n)[i] = vmas[k + i]
  <2>1. \A i \in (k + 1)..n : vmas[i] \in Vma
    BY <1>1, <1>2, ElementOfSeq DEF n
  <2>2. k + 1 \in Int /\ n \in Int /\ k \in Nat
    BY <1>1, <1>2
  <2>3. /\ SubSeq(vmas, k + 1, n) \in Seq(Vma)
        /\ Len(SubSeq(vmas, k + 1, n)) = IF k + 1 <= n THEN n - (k + 1) + 1 ELSE 0
        /\ \A i \in 1..(n - (k + 1) + 1) : SubSeq(vmas, k + 1, n)[i] = vmas[k + 1 + i - 1]
    BY <2>1, <2>2, SubSeqProperties
  <2>4. n - (k + 1) + 1 = n - k /\ \A i \in Int : k + 1 + i - 1 = k + i
    BY <1>1, <1>2
  <2> QED
    BY <1>1, <1>2, <2>3, <2>4
<1> DEFINE f == SubSeq(vmas, 1, k) \o <<v>>
           g == SubSeq(vmas, k + 1, n)
<1>6. f \in Seq(Vma) /\ Len(f) = k + 1 /\ (\A i \in 1..k : f[i] = vmas[i]) /\ f[k + 1] = v
  <2>1. <<v>> \in Seq(Vma) /\ Len(<<v>>) = 1 /\ <<v>>[1] = v
    OBVIOUS
  <2> HIDE DEF f
  <2>2. /\ f \in Seq(Vma) /\ Len(f) = k + 1
        /\ \A i \in 1..(k + 1) : f[i] = IF i <= k THEN SubSeq(vmas, 1, k)[i] ELSE <<v>>[i - k]
    BY <1>4, <2>1, ConcatProperties DEF f
  <2>3. (k + 1) - k = 1 /\ k + 1 \in 1..(k + 1) /\ ~(k + 1 <= k) /\ \A i \in 1..k : i \in 1..(k + 1) /\ i <= k
    BY <1>1, <1>2
  <2> QED
    BY <1>4, <2>1, <2>2, <2>3
<1> HIDE DEF f, g
<1>7. Len(g) = n - k /\ g \in Seq(Vma) /\ \A i \in 1..(n - k) : g[i] = vmas[k + i]
  BY <1>5 DEF g
<1>8. /\ Len(new) = n + 1
      /\ \A i \in 1..k : new[i] = vmas[i]
      /\ new[k + 1] = v
      /\ \A i \in (k + 1)..n : new[i + 1] = vmas[i]
  <2>1. new = f \o g
    BY <1>3 DEF f, g
  <2>2. Len(new) = Len(f) + Len(g) /\ \A i \in 1..(Len(f) + Len(g)) : new[i] = IF i <= Len(f) THEN f[i] ELSE g[i - Len(f)]
    BY <1>6, <1>7, <2>1, ConcatProperties
  <2>3. Len(f) + Len(g) = n + 1 /\ Len(f) = k + 1
    BY <1>1, <1>2, <1>6, <1>7
  <2>4. ASSUME NEW i \in (k + 1)..n PROVE new[i + 1] = vmas[i]
    <3>1. i + 1 \in 1..(n + 1) /\ ~(i + 1 <= k + 1) /\ (i + 1) - (k + 1) = i - k /\ i - k \in 1..(n - k) /\ k + (i - k) = i
      BY <1>1, <1>2
    <3>2. new[i + 1] = g[i - k]
      BY <2>2, <2>3, <3>1
    <3> QED
      BY <1>7, <3>1, <3>2
  <2>5. ASSUME NEW i \in 1..(k + 1) PROVE new[i] = f[i]
    <3>1. i \in 1..(n + 1) /\ i <= k + 1
      BY <1>1, <1>2
    <3> QED
      BY <2>2, <2>3, <3>1
  <2>6. k + 1 \in 1..(k + 1) /\ \A i \in 1..k : i \in 1..(k + 1)
    BY <1>1, <1>2
  <2> QED
    BY <1>6, <2>2, <2>3, <2>4, <2>5, <2>6
<1>9. ASSUME NEW la PROVE la \in Extents(new, 1) <=> la \in Extents(vmas, 1) \/ la \in Extent(v)
  <2>1. ASSUME NEW i \in 1..(n + 1), la \in Extent(new[i])
        PROVE  la \in Extent(v) \/ \E j \in 1..n : la \in Extent(vmas[j])
    <3>1. CASE i \in 1..k
      <4>1. i \in 1..n
        BY <1>1, <1>2, <3>1
      <4> QED
        BY <1>8, <2>1, <3>1, <4>1
    <3>2. CASE i = k + 1
      BY <1>8, <2>1, <3>2
    <3>3. CASE i > k + 1
      <4>1. i - 1 \in (k + 1)..n /\ (i - 1) + 1 = i /\ i - 1 \in 1..n
        BY <1>1, <1>2, <3>3
      <4>2. new[i] = vmas[i - 1]
        BY <1>8, <4>1
      <4> QED
        BY <2>1, <4>1, <4>2
    <3>4. i \in 1..k \/ i = k + 1 \/ i > k + 1
      BY <1>1, <1>2
    <3> QED
      BY <3>1, <3>2, <3>3, <3>4
  <2>2. ASSUME NEW j \in 1..n, la \in Extent(vmas[j]) PROVE \E i \in 1..(n + 1) : la \in Extent(new[i])
    <3>1. CASE j \in 1..k
      <4>1. j \in 1..(n + 1)
        BY <1>1, <1>2
      <4> QED
        BY <1>8, <2>2, <3>1, <4>1
    <3>2. CASE j \in (k + 1)..n
      <4>1. j + 1 \in 1..(n + 1)
        BY <1>1, <1>2
      <4> QED
        BY <1>8, <2>2, <3>2, <4>1
    <3>3. j \in 1..k \/ j \in (k + 1)..n
      BY <1>1, <1>2
    <3> QED
      BY <3>1, <3>2, <3>3
  <2>3. la \in Extent(v) => \E i \in 1..(n + 1) : la \in Extent(new[i])
    <3>1. k + 1 \in 1..(n + 1)
      BY <1>1, <1>2
    <3> QED
      BY <1>8, <3>1
  <2>4. /\ la \in Extents(new, 1) <=> \E i \in 1..(n + 1) : la \in Extent(new[i])
        /\ la \in Extents(vmas, 1) <=> \E j \in 1..n : la \in Extent(vmas[j])
    BY <1>8 DEF Extents, n
  <2> QED
    BY <2>1, <2>2, <2>3, <2>4
<1>10. Extents(new, 1) = Extents(vmas, 1) \cup Extent(v)
  BY <1>9
<1> QED
  BY <1>10 DEF new

\* load_range does not come back from a panic.
LEMMA LoadRangePanics ==
  ASSUME NEW m \in Mem, m.panic, NEW r \in Page, NEW seg \in Segment
  PROVE  load_range(m, r, seg).panic
<1> DEFINE a == seg.vm_start
           b == seg.vm_end
           n == load_range(m, r, seg)
           X == {x \in Mem : x.panic}
<1>1. PICK done : /\ Runs(done, a, b, m, n)
                  /\ \A i \in (a + 1)..b : done[i] = new_page(done[i - 1], r, i - 1, seg.image)
  BY LoadRangeLoop
<1>2. a \in Nat /\ b \in Nat /\ a <= b /\ b \in a..b
  <2>1. a \in Nat /\ b \in Nat /\ a < b
    BY SegmentFacts
  <2> HIDE DEF a, b
  <2> QED
    BY <2>1
<1> HIDE DEF a, b, n
<1>3. done[a] \in X /\ done[b] = n
  BY <1>1 DEF Runs
<1>4. ASSUME NEW i \in (a + 1)..b, done[i - 1] \in X PROVE done[i] \in X
  <2>1. done[i] = new_page(done[i - 1], r, i - 1, seg.image)
    BY <1>1
  <2>2. done[i].panic
    BY <1>4, <2>1, PanicStays
  <2>3. i \in a..b
    BY <1>2
  <2> QED
    BY <1>1, <2>2, <2>3 DEF Runs
<1> HIDE DEF X
<1>5. \A i \in a..b : done[i] \in X
  BY <1>2, <1>3, <1>4, LoopKeeps
<1> QED
  BY <1>2, <1>3, <1>5 DEF X, n, a, b

\* s has loaded the first i segments of prog, and nothing else, under the directory r.
Loaded(s, r, prog, i) ==
  /\ \A k \in 1..i : ~prog[k].bad /\ Extent(prog[k]) \subseteq Extents(s.vmas, 1)
  /\ \A la \in Addr : pte(s.m, r, la) # invalid => \E k \in 1..i : la \in Extent(prog[k])
  /\ \A k \in 1..i : \A la \in Extent(prog[k]) :
       pte(s.m, r, la) # invalid /\ s.m.data[pte(s.m, r, la)] = prog[k].image

\* A turn of load_icode leaves the segments of earlier turns as they are.
LEMMA SegmentLoaded ==
  ASSUME NEW prog \in Seq(Segment), NEW i \in 1..Len(prog), NEW x \in Loading,
         NEW r \in Roots(x.m), Good(x.m, {}), x.ok => Loaded(x, r, prog, i - 1),
         ~load_segment(x, r, prog[i]).m.panic, load_segment(x, r, prog[i]).ok
  PROVE  Loaded(load_segment(x, r, prog[i]), r, prog, i)
<1> DEFINE y == load_segment(x, r, prog[i])
           seg == prog[i]
           v == area(seg)
<1>1. /\ Len(prog) \in Nat /\ DOMAIN prog = 1..Len(prog)
      /\ \A k \in 1..Len(prog) : prog[k] \in Segment
  BY LenProperties, ElementOfSeq
<1>2. x.m \in Mem /\ x.vmas \in Seq(Vma) /\ r \in Page
  BY DEF Loading, Roots
<1>3. /\ x.ok /\ ~seg.bad /\ ~overlaps(x.vmas, v)
      /\ y.m = load_range(x.m, r, seg) /\ y.vmas = insert_vma(x.vmas, v)
  <2>1. seg \in Segment /\ ~y.m.panic /\ y.ok
    BY <1>1
  <2>2. \/ y.m = x.m /\ y.vmas = x.vmas /\ ~y.ok
        \/ y.m = load_range(stop(x.m), r, seg)
        \/ /\ x.ok /\ ~seg.bad /\ ~overlaps(x.vmas, area(seg))
           /\ y.m = load_range(x.m, r, seg) /\ y.vmas = insert_vma(x.vmas, area(seg))
    BY <1>2, <2>1, LoadSegmentShape
  <2> HIDE DEF y, seg
  <2>3. load_range(stop(x.m), r, seg).panic
    BY <1>2, <2>1, StopType, LoadRangePanics
  <2> QED
    BY <2>1, <2>2, <2>3
<1>4. seg \in Segment /\ v \in Vma /\ Extent(v) = Extent(seg)
  <2>1. seg \in Segment
    BY <1>1
  <2>2. v \in Vma
    BY <2>1, SegmentFacts DEF area
  <2> QED
    BY <2>1, <2>2 DEF Extent, area
<1>5. ~y.m.panic /\ Loaded(x, r, prog, i - 1)
  BY <1>3
<1> HIDE DEF y, v
<1>6. /\ Edited(x.m, y.m, r, Extent(seg))
      /\ \A la \in Extent(seg) : pte(y.m, r, la) # invalid /\ y.m.data[pte(y.m, r, la)] = seg.image
  <2>1. \/ y.m.panic
        \/ /\ Good(y.m, {}) /\ Edited(x.m, y.m, r, Extent(seg))
           /\ \A la \in Extent(seg) : pte(y.m, r, la) # invalid /\ y.m.data[pte(y.m, r, la)] = seg.image
    BY <1>3, <1>4, LoadRangeGood
  <2> QED
    BY <1>5, <2>1
<1>7. Extents(y.vmas, 1) = Extents(x.vmas, 1) \cup Extent(seg)
  BY <1>2, <1>3, <1>4, InsertVmaCovers
<1>8. ASSUME NEW k \in 1..(i - 1), NEW la \in Extent(prog[k]) PROVE la \notin Extent(seg)
  <2>1. la \in Extents(x.vmas, 1)
    BY <1>5 DEF Loaded
  <2>2. la \in Extent(v) => la \notin Extents(x.vmas, 1)
    BY <1>2, <1>3, <1>4, AreasApart
  <2> QED
    BY <1>4, <2>1, <2>2
<1>9. ASSUME NEW k \in 1..i
       PROVE  /\ ~prog[k].bad /\ Extent(prog[k]) \subseteq Extents(y.vmas, 1)
              /\ \A la \in Extent(prog[k]) :
                   pte(y.m, r, la) # invalid /\ y.m.data[pte(y.m, r, la)] = prog[k].image
  <2>1. CASE k = i
    BY <1>3, <1>6, <1>7, <2>1
  <2>2. CASE k # i
    <3>1. k \in 1..(i - 1) /\ prog[k] \in Segment
      BY <1>1, <2>2
    <3>2. ~prog[k].bad /\ Extent(prog[k]) \subseteq Extents(x.vmas, 1)
      BY <1>5, <3>1 DEF Loaded
    <3>3. ASSUME NEW la \in Extent(prog[k])
          PROVE  pte(y.m, r, la) # invalid /\ y.m.data[pte(y.m, r, la)] = prog[k].image
      <4>1. la \in Addr
        BY <3>1, SegmentFacts, ExtentInAddr DEF Extent
      <4>2. pte(x.m, r, la) # invalid /\ x.m.data[pte(x.m, r, la)] = prog[k].image
        BY <1>5, <3>1 DEF Loaded
      <4>3. Agrees(x.m, y.m, r, la)
        BY <1>6, <1>8, <3>1, <4>1 DEF Edited
      <4> QED
        BY <4>2, <4>3 DEF Agrees
    <3> QED
      BY <1>7, <3>2, <3>3
  <2> QED
    BY <2>1, <2>2
<1>10. ASSUME NEW la \in Addr, pte(y.m, r, la) # invalid PROVE \E k \in 1..i : la \in Extent(prog[k])
  <2>1. CASE la \in Extent(seg)
    BY <2>1
  <2>2. CASE la \notin Extent(seg)
    <3>1. pte(x.m, r, la) # invalid
      BY <1>6, <1>10, <2>2 DEF Edited, Agrees
    <3>2. PICK k \in 1..(i - 1) : la \in Extent(prog[k])
      BY <1>5, <3>1 DEF Loaded
    <3>3. k \in 1..i
      OBVIOUS
    <3> QED
      BY <3>2, <3>3
  <2> QED
    BY <2>1, <2>2
<1>11. Loaded(y, r, prog, i)
  BY <1>9, <1>10 DEF Loaded
<1> QED
  BY <1>11 DEF y

\* The segments of a program: what is mapped lies in the areas there are so far, and is the
\* program if none was rejected.
LEMMA LoadSegmentsGood ==
  ASSUME NEW m, Good(m, {}), NEW r \in Roots(m), Within(m, r, {}), NEW prog \in Seq(Segment)
  PROVE  LET s == load_segments(m, r, prog)
         IN  s.m.panic \/ ( /\ Good(s.m, {}) /\ Edited(m, s.m, r, Addr)
                            /\ Within(s.m, r, Extents(s.vmas, 1))
                            /\ (s.ok => Loaded(s, r, prog, Len(prog))) )
<1> DEFINE n == load_segments(m, r, prog)
           len == Len(prog)
           Fine(s) == Good(s.m, {}) /\ Edited(m, s.m, r, Addr) /\ Within(s.m, r, Extents(s.vmas, 1))
           Ready(s, i) == s.ok => Loaded(s, r, prog, i)
<1>1. m \in Mem /\ r \in Page /\ len \in Nat /\ \A i \in 1..len : prog[i] \in Segment
  BY LenProperties, ElementOfSeq DEF Good, Roots
<1>2. PICK done :
        /\ done[0] = [m |-> m, vmas |-> <<>>, ok |-> TRUE] /\ done[len] = n
        /\ \A i \in 0..len : done[i] \in Loading
        /\ \A i \in 1..len : done[i] = load_segment(done[i - 1], r, prog[i])
  BY <1>1, LoadSegmentsLoop
<1> HIDE DEF n, len
<1> DEFINE T == {i \in 0..len : done[i].m.panic \/ (Fine(done[i]) /\ Ready(done[i], i))}
<1>3. 0 \in T
  <2>1. done[0].m = m /\ done[0].vmas = <<>> /\ 0 \in 0..len
    BY <1>1, <1>2
  <2>2. Edited(m, m, r, Addr)
    BY DEF Edited, Agrees
  <2>3. Within(m, r, Extents(<<>>, 1))
    BY DEF Within
  <2>4. Ready(done[0], 0)
    <3>1. \A la \in Addr : pte(m, r, la) = invalid
      BY DEF Within
    <3> QED
      BY <2>1, <3>1 DEF Loaded
  <2> HIDE DEF Ready
  <2> QED
    BY <2>1, <2>2, <2>3, <2>4
<1>4. ASSUME NEW i \in 0..(len - 1), i \in T PROVE i + 1 \in T
  <2> DEFINE x == done[i]
             y == done[i + 1]
             seg == prog[i + 1]
             v == area(seg)
  <2>1. i + 1 \in 1..len /\ i + 1 \in 0..len /\ i \in 0..len /\ (i + 1) - 1 = i
    BY <1>1
  <2>2. y = load_segment(x, r, seg) /\ x \in Loading /\ seg \in Segment /\ (x.m.panic \/ (Fine(x) /\ Ready(x, i)))
    BY <1>1, <1>2, <1>4, <2>1
  <2>3. ASSUME ~y.m.panic, ~x.m.panic PROVE Ready(y, i + 1)
    <3> SUFFICES ASSUME y.ok PROVE Loaded(y, r, prog, i + 1)
      OBVIOUS
    <3>1. Good(x.m, {}) /\ r \in Roots(x.m)
      BY <2>2, <2>3 DEF Edited
    <3>2. x.ok => Loaded(x, r, prog, (i + 1) - 1)
      BY <2>1, <2>2, <2>3
    <3>3. i + 1 \in 1..Len(prog) /\ ~load_segment(x, r, prog[i + 1]).m.panic /\ load_segment(x, r, prog[i + 1]).ok
      BY <2>1, <2>2, <2>3 DEF len
    <3>4. x \in Loading
      BY <2>2
    <3> HIDE DEF x, y
    <3>5. Loaded(load_segment(x, r, prog[i + 1]), r, prog, i + 1)
      BY <3>1, <3>2, <3>3, <3>4, SegmentLoaded
    <3> QED
      BY <2>2, <3>5
  <2> HIDE DEF Ready
  <2>4. v \in Vma /\ v.vm_start = seg.vm_start /\ v.vm_end = seg.vm_end
    BY <2>2, SegmentFacts DEF area
  <2> HIDE DEF x, y, seg, v
  <2>5. x.m \in Mem /\ x.vmas \in Seq(Vma)
    BY <2>2 DEF Loading
  <2>6. \/ y.m = x.m /\ y.vmas = x.vmas /\ ~y.ok
        \/ y.m = load_range(stop(x.m), r, seg)
        \/ y.m = load_range(x.m, r, seg) /\ y.vmas = insert_vma(x.vmas, v)
    BY <1>1, <2>2, LoadSegmentShape DEF v
  <2>7. CASE y.m = x.m /\ y.vmas = x.vmas /\ ~y.ok
    <3>1. y.m.panic \/ (Fine(y) /\ Ready(y, i + 1))
      BY <2>2, <2>7, <2>3
    <3> QED
      BY <2>1, <3>1 DEF y
  <2>8. CASE y.m = load_range(stop(x.m), r, seg)
    <3>1. y.m.panic
      BY <1>1, <2>2, <2>5, <2>8, StopType, LoadRangePanics
    <3> QED
      BY <2>1, <3>1 DEF y
  <2>9. CASE y.m = load_range(x.m, r, seg) /\ y.vmas = insert_vma(x.vmas, v)
    <3>1. CASE x.m.panic
      <4>1. y.m.panic
        BY <1>1, <2>2, <2>5, <2>9, <3>1, LoadRangePanics
      <4> QED
        BY <2>1, <4>1 DEF y
    <3>2. CASE ~x.m.panic
      <4>1. /\ Good(x.m, {}) /\ Edited(m, x.m, r, Addr) /\ r \in Roots(x.m)
            /\ Within(x.m, r, Extents(x.vmas, 1))
        BY <2>2, <3>2 DEF Edited
      <4> HIDE DEF Fine
      <4>2. y.m.panic \/ (Good(y.m, {}) /\ Edited(x.m, y.m, r, Extent(seg)))
        BY <2>2, <2>9, <4>1, LoadRangeGood
      <4>3. Extent(seg) = Extent(v)
        BY <2>4 DEF Extent
      <4>4. Extents(y.vmas, 1) = Extents(x.vmas, 1) \cup Extent(v)
        BY <2>4, <2>5, <2>9, InsertVmaCovers
      <4>5. ASSUME ~y.m.panic PROVE Fine(y)
        <5>1. Good(y.m, {}) /\ Edited(x.m, y.m, r, Extent(v))
          BY <4>2, <4>3, <4>5
        <5>2. Edited(m, y.m, r, Addr)
          <6>1. Edited(m, y.m, r, Addr \cup Extent(v))
            BY <4>1, <5>1, EditedTwice
          <6>2. Addr \cup Extent(v) = Addr
            BY <2>4, ExtentInAddr
          <6> QED
            BY <6>1, <6>2
        <5>3. Within(y.m, r, Extents(y.vmas, 1))
          BY <4>1, <4>4, <5>1 DEF Within, Edited, Agrees
        <5> QED
          BY <5>1, <5>2, <5>3 DEF Fine
      <4> QED
        BY <2>1, <2>3, <3>2, <4>5 DEF y
    <3> QED
      BY <3>1, <3>2
  <2> QED
    BY <2>6, <2>7, <2>8, <2>9
<1> HIDE DEF T
<1>5. len \in T
  <2>1. \A i \in 0..len : i \in T
    BY <1>1, <1>3, <1>4, Induction
  <2> QED
    BY <1>1, <2>1
<1>6. n.m.panic \/ (Fine(n) /\ Ready(n, len))
  BY <1>2, <1>5 DEF T
<1> QED
  BY <1>6 DEF n, len
-----------------------------------------------------------------------------
(* The address spaces of all processes. *)

\* Each process with an address space has a page directory of its own, and nothing mapped
\* outside its areas; there are no other page directories.
Spaces(m, f) ==
  /\ \A p \in Thread : f[p] # none => f[p].pgdir \in Roots(m) /\ Within(m, f[p].pgdir, Extents(f[p].vmas, 1))
  /\ \A r \in Roots(m) : \E p \in Thread : f[p] # none /\ f[p].pgdir = r
  /\ \A p, q \in Thread : f[p] # none /\ f[q] # none /\ f[p].pgdir = f[q].pgdir => p = q

ForestInv == SatpInv /\ Good(mem, {}) /\ Spaces(mem, mm)

\* What the invariant says of one address space.
LEMMA SpacesFact ==
  ASSUME NEW m, NEW f, Spaces(m, f), NEW p \in Thread, f[p] # none
  PROVE  f[p].pgdir \in Roots(m) /\ Within(m, f[p].pgdir, Extents(f[p].vmas, 1))
BY DEF Spaces

\* The address spaces stay when no mapping changes.
LEMMA SpacesKept ==
  ASSUME NEW m, NEW f, Spaces(m, f), NEW n, Roots(n) = Roots(m),
         \A r \in Roots(m), la \in Addr : Agrees(m, n, r, la)
  PROVE  Spaces(n, f)
<1>1. ASSUME NEW r \in Roots(m), NEW A, Within(m, r, A) PROVE Within(n, r, A)
  BY <1>1 DEF Within, Agrees
<1>2. \A p \in Thread : f[p] # none => f[p].pgdir \in Roots(n) /\ Within(n, f[p].pgdir, Extents(f[p].vmas, 1))
  BY <1>1, SpacesFact
<1> QED
  BY <1>2 DEF Spaces

\* A process writes to its memory, or gets a page.
LEMMA SpacesEdited ==
  ASSUME NEW m, NEW f, Spaces(m, f), NEW p \in Thread, f[p] # none,
         NEW n, NEW A, Edited(m, n, f[p].pgdir, A), Within(n, f[p].pgdir, Extents(f[p].vmas, 1))
  PROVE  Spaces(n, f)
<1>1. Roots(n) = Roots(m)
  BY DEF Edited
<1>2. ASSUME NEW q \in Thread, f[q] # none
      PROVE  f[q].pgdir \in Roots(n) /\ Within(n, f[q].pgdir, Extents(f[q].vmas, 1))
  <2>1. f[q].pgdir \in Roots(m) /\ Within(m, f[q].pgdir, Extents(f[q].vmas, 1))
    BY <1>2, SpacesFact
  <2>2. CASE q = p
    BY <1>1, <2>1, <2>2
  <2>3. CASE q # p
    <3>1. f[q].pgdir # f[p].pgdir
      BY <1>2, <2>3 DEF Spaces
    <3>2. \A la \in Addr : pte(n, f[q].pgdir, la) = pte(m, f[q].pgdir, la)
      BY <2>1, <3>1 DEF Edited, Agrees
    <3> QED
      BY <1>1, <2>1, <3>2 DEF Within
  <2> QED
    BY <2>2, <2>3
<1> QED
  BY <1>1, <1>2 DEF Spaces

\* A process gives its address space back.
LEMMA SpacesDropped ==
  ASSUME NEW m, Good(m, {}), NEW f \in [Thread -> Space \cup {none}], Spaces(m, f), NEW p \in Thread
  PROVE  Good(drop(m, f[p]), {}) /\ Spaces(drop(m, f[p]), [f EXCEPT ![p] = none])
<1> DEFINE g == [f EXCEPT ![p] = none]
           n == drop(m, f[p])
<1>1. g[p] = none /\ \A q \in Thread : q # p => g[q] = f[q]
  OBVIOUS
<1>2. CASE f[p] = none
  <2>1. g = f
    BY <1>2
  <2>2. n = m
    BY <1>2 DEF drop
  <2> QED
    BY <2>1, <2>2
<1>3. CASE f[p] # none
  <2> DEFINE r == f[p].pgdir
  <2>1. f[p] \in Space /\ r \in Roots(m) /\ Within(m, r, Extents(f[p].vmas, 1))
    BY <1>3, SpacesFact
  <2>2. /\ Good(n, {}) /\ Roots(n) = Roots(m) \ {r}
        /\ \A q \in Roots(n), la \in Addr : Agrees(m, n, q, la)
    BY <2>1, DropGood
  <2> HIDE DEF n, g
  <2>3. \A q \in Thread : q # p /\ f[q] # none => f[q].pgdir # r
    BY <1>3 DEF Spaces
  <2> HIDE DEF r
  <2>4. ASSUME NEW q \in Thread, g[q] # none
        PROVE  g[q].pgdir \in Roots(n) /\ Within(n, g[q].pgdir, Extents(g[q].vmas, 1))
    <3>1. q # p /\ g[q] = f[q]
      BY <1>1, <2>4
    <3>2. f[q].pgdir \in Roots(m) /\ Within(m, f[q].pgdir, Extents(f[q].vmas, 1)) /\ f[q].pgdir # r
      BY <2>3, <2>4, <3>1, SpacesFact
    <3>3. f[q].pgdir \in Roots(n)
      BY <2>2, <3>2
    <3>4. \A la \in Addr : pte(n, f[q].pgdir, la) = pte(m, f[q].pgdir, la)
      BY <2>2, <3>3 DEF Agrees
    <3> QED
      BY <3>1, <3>2, <3>3, <3>4 DEF Within
  <2>5. ASSUME NEW d \in Roots(n) PROVE \E q \in Thread : g[q] # none /\ g[q].pgdir = d
    <3>1. d \in Roots(m) /\ d # r
      BY <2>2
    <3>2. PICK q \in Thread : f[q] # none /\ f[q].pgdir = d
      BY <3>1 DEF Spaces
    <3>3. q # p
      BY <3>1, <3>2 DEF r
    <3> QED
      BY <1>1, <3>2, <3>3
  <2>6. \A q, t \in Thread : g[q] # none /\ g[t] # none /\ g[q].pgdir = g[t].pgdir => q = t
    BY <1>1 DEF Spaces
  <2>7. Spaces(n, g)
    BY <2>4, <2>5, <2>6 DEF Spaces
  <2> QED
    BY <2>2, <2>7 DEF n, g
<1> QED
  BY <1>2, <1>3

\* A process gets one.
LEMMA SpacesAdded ==
  ASSUME NEW m, NEW f \in [Thread -> Space \cup {none}], Spaces(m, f), NEW p \in Thread, f[p] = none,
         NEW n, NEW s \in Space, s.pgdir \notin Roots(m), Roots(n) = Roots(m) \cup {s.pgdir},
         \A q \in Roots(m), la \in Addr : Agrees(m, n, q, la),
         Within(n, s.pgdir, Extents(s.vmas, 1))
  PROVE  Spaces(n, [f EXCEPT ![p] = s])
<1> DEFINE g == [f EXCEPT ![p] = s]
<1>1. g[p] = s /\ (\A q \in Thread : q # p => g[q] = f[q]) /\ s # none
  BY SpaceFacts
<1> HIDE DEF g
<1>2. ASSUME NEW q \in Thread, g[q] # none, q # p
      PROVE  g[q].pgdir \in Roots(m) /\ Within(n, g[q].pgdir, Extents(g[q].vmas, 1))
  <2>1. g[q] = f[q]
    BY <1>1, <1>2
  <2>2. f[q].pgdir \in Roots(m) /\ Within(m, f[q].pgdir, Extents(f[q].vmas, 1))
    BY <1>2, <2>1, SpacesFact
  <2>3. \A la \in Addr : pte(n, f[q].pgdir, la) = pte(m, f[q].pgdir, la)
    BY <2>2 DEF Agrees
  <2> QED
    BY <2>1, <2>2, <2>3 DEF Within
<1>3. \A q \in Thread : g[q] # none => g[q].pgdir \in Roots(n) /\ Within(n, g[q].pgdir, Extents(g[q].vmas, 1))
  BY <1>1, <1>2
<1>4. ASSUME NEW d \in Roots(n) PROVE \E q \in Thread : g[q] # none /\ g[q].pgdir = d
  <2>1. CASE d = s.pgdir
    BY <1>1, <2>1
  <2>2. CASE d \in Roots(m)
    <3>1. PICK q \in Thread : f[q] # none /\ f[q].pgdir = d
      BY <2>2 DEF Spaces
    <3> QED
      BY <1>1, <3>1
  <2> QED
    BY <2>1, <2>2
<1>5. ASSUME NEW q \in Thread, NEW t \in Thread, g[q] # none, g[t] # none, g[q].pgdir = g[t].pgdir
      PROVE  q = t
  <2>1. CASE q # p /\ t # p
    <3>1. g[q] = f[q] /\ g[t] = f[t]
      BY <1>1, <2>1
    <3> QED
      BY <1>5, <3>1 DEF Spaces
  <2>2. CASE q = p \/ t = p
    BY <1>1, <1>2, <1>5, <2>2
  <2> QED
    BY <2>1, <2>2
<1>6. Spaces(n, g)
  BY <1>3, <1>4, <1>5 DEF Spaces
<1> QED
  BY <1>6 DEF g

\* It holds when init_main runs,
LEMMA InitForest == Init => ForestInv
<1> SUFFICES ASSUME Init PROVE ForestInv
  OBVIOUS
<1>1. mem \in Mem /\ SatpInv
  BY InitSatp DEF SatpInv, TypeInv
<1>2. /\ mem.free = Page /\ mem.ref = [p \in Page |-> 0] /\ mem.table = [p \in Page |-> empty]
      /\ mem.data = [p \in Page |-> ZERO] /\ mem.panic = FALSE
      /\ mm = [p \in Thread |-> none]
  BY DEF Init
<1>3. ZERO # BOOT /\ ZERO \in Value
  BY AddressSpaceAssumption
<1>4. Roots(mem) = {} /\ Users(mem, {}) = {}
  BY <1>2 DEF Roots, Users
<1>5. \A q \in Page : mem.ref[q] = 0 /\ mem.data[q] \in Value /\ \A i \in Index : mem.table[q][i] = invalid
  BY <1>2, <1>3 DEF empty
<1>6. Forest(mem, {}, {}, {})
  BY <1>2, <1>4, <1>5 DEF Forest, Layer
<1>7. Good(mem, {})
  BY <1>1, <1>2, <1>5, <1>6 DEF Good
<1>8. Spaces(mem, mm)
  BY <1>2, <1>4 DEF Spaces
<1> QED
  BY <1>1, <1>7, <1>8 DEF ForestInv

\* What m maps is there in n.
Elsewhere(m, n) == \A q \in Roots(m), la \in Addr : Agrees(m, n, q, la)

\* The child has a copy of what its parent has.
Forked(c) ==
  LET from == mm[current]
  IN  IF from = none THEN mm' = mm
      ELSE \E new \in Space :
             /\ mm' = [mm EXCEPT ![c] = new] /\ from.pgdir \in Roots(mem)
             /\ Within(mem, from.pgdir, Extents(from.vmas, 1))
             /\ CopyOf(mem', new.pgdir, from.pgdir) /\ HasCopies(mem', new.pgdir, from.pgdir, Extents(from.vmas, 1))

\* fork.
LEMMA ForkForest ==
  ASSUME ForestInv, NEW c \in Proc, Fork(c)
  PROVE  /\ Good(mem, {})' /\ Spaces(mem, mm)'
         /\ Elsewhere(mem, mem') /\ Forked(c)
<1> DEFINE from == mm[current]
           to == lowest(mem.free)
<1>1. SatpInv /\ Good(mem, {}) /\ Spaces(mem, mm) /\ mm \in [Thread -> Space \cup {none}] /\ current \in Thread
  BY Facts DEF ForestInv
<1>2. c \in Thread /\ mm[c] = none
  BY <1>1 DEF Fork, SatpInv, OnlyTheLiving, Thread
<1>3. CASE from = none
  <2>1. mem' = mem /\ mm' = mm
    BY <1>3 DEF Fork
  <2>2. Elsewhere(mem, mem') /\ Forked(c)
    BY <1>3, <2>1 DEF Elsewhere, Agrees, Forked
  <2> QED
    BY <1>1, <2>1, <2>2
<1>4. CASE from # none
  <2> DEFINE new == [from EXCEPT !.pgdir = to]
             x == setup_pgdir(mem)
             n == dup_mmap(x, to, from)
  <2>1. mem.free # {} /\ ~n.panic /\ mem' = n /\ mm' = [mm EXCEPT ![c] = new]
    BY <1>4 DEF Fork, goes
  <2>2. from \in Space /\ from.pgdir \in Roots(mem) /\ Within(mem, from.pgdir, Extents(from.vmas, 1))
    BY <1>1, <1>4, SpacesFact
  <2>3. /\ Good(x, {}) /\ to \notin Roots(mem) /\ Roots(x) = Roots(mem) \cup {to}
        /\ Within(x, to, {})
        /\ \A q \in Roots(mem), la \in Addr : Agrees(mem, x, q, la)
    BY <1>1, <2>1, SetupGood
  <2>4. to \in Page
    BY <2>3 DEF Roots
  <2>5. new \in Space /\ new.pgdir = to /\ new.vmas = from.vmas
    <3> HIDE DEF from, to
    <3> QED
      BY <2>2, <2>4 DEF Space
  <2> HIDE DEF from, to, new, x
  <2>6. to \in Roots(x) /\ from.pgdir \in Roots(x) /\ to # from.pgdir
    BY <2>2, <2>3
  <2>7. \A la \in Addr : pte(x, to, la) = invalid
    BY <2>3 DEF Within
  <2>8. n.panic \/ ( /\ Good(n, {}) /\ Edited(x, n, to, Addr)
                     /\ CopyOf(n, to, from.pgdir) /\ HasCopies(n, to, from.pgdir, Extents(from.vmas, 1)) )
    BY <2>2, <2>3, <2>6, <2>7, DupMmapGood
  <2> HIDE DEF n
  <2>9. /\ Good(n, {}) /\ Edited(x, n, to, Addr)
        /\ CopyOf(n, to, from.pgdir) /\ HasCopies(n, to, from.pgdir, Extents(from.vmas, 1))
    BY <2>1, <2>8
  <2>10. Roots(n) = Roots(mem) \cup {to}
    BY <2>3, <2>9 DEF Edited
  <2>11. ASSUME NEW q \in Roots(mem), NEW la \in Addr PROVE Agrees(mem, n, q, la)
    <3>1. q \in Roots(x) /\ q # to
      BY <2>3
    <3>2. Agrees(x, n, q, la)
      BY <2>9, <3>1 DEF Edited
    <3>3. Agrees(mem, x, q, la)
      BY <2>3
    <3> QED
      BY <3>2, <3>3 DEF Agrees
  <2>12. Within(n, to, Extents(from.vmas, 1))
    <3>1. ASSUME NEW la \in Addr, pte(n, to, la) # invalid PROVE la \in Extents(from.vmas, 1)
      <4>1. pte(n, from.pgdir, la) # invalid
        BY <2>9, <3>1 DEF CopyOf
      <4>2. pte(mem, from.pgdir, la) # invalid
        BY <2>2, <2>11, <4>1 DEF Agrees
      <4> QED
        BY <2>2, <4>2 DEF Within
    <3> QED
      BY <3>1 DEF Within
  <2>13. Spaces(n, [mm EXCEPT ![c] = new])
    <3>1. new.pgdir \notin Roots(mem) /\ Roots(n) = Roots(mem) \cup {new.pgdir} /\ Within(n, new.pgdir, Extents(new.vmas, 1))
      BY <2>3, <2>5, <2>10, <2>12
    <3> QED
      BY <1>1, <1>2, <2>5, <2>11, <3>1, SpacesAdded
  <2>14. Elsewhere(mem, mem')
    BY <2>1, <2>11 DEF Elsewhere
  <2>15. Forked(c)
    <3>1. new \in Space /\ mm' = [mm EXCEPT ![c] = new] /\ from.pgdir \in Roots(mem)
      BY <2>1, <2>2, <2>5
    <3>2. /\ Within(mem, from.pgdir, Extents(from.vmas, 1))
          /\ CopyOf(mem', new.pgdir, from.pgdir) /\ HasCopies(mem', new.pgdir, from.pgdir, Extents(from.vmas, 1))
      BY <2>1, <2>2, <2>5, <2>9
    <3>3. from # none
      BY <1>4
    <3> HIDE DEF new
    <3> QED
      BY <3>1, <3>2, <3>3 DEF Forked, from
  <2> QED
    BY <2>1, <2>9, <2>13, <2>14, <2>15
<1> QED
  BY <1>3, <1>4

\* exit, of a process or of one whose program could not be loaded.
LEMMA ExitForest ==
  ASSUME NEW m, Good(m, {}), Spaces(m, [mm EXCEPT ![current] = none]), do_exit(m)
  PROVE  Good(mem, {})' /\ Spaces(mem, mm)'
BY DEF do_exit, goes

\* Under the directory r there are the segments of prog, pages of the stack, and no more.
StackPages == (USERTOP - LOADED)..(USERTOP - 1)
Ready(n, r, prog) ==
  /\ \A i \in DOMAIN prog :
       ~prog[i].bad /\ \A la \in Extent(prog[i]) : pte(n, r, la) # invalid /\ n.data[pte(n, r, la)] = prog[i].image
  /\ \A la \in Addr :
       (\A i \in DOMAIN prog : la \notin Extent(prog[i])) => (pte(n, r, la) # invalid <=> la \in StackPages)

\* The pages of the stack are not in a segment of the program.
LEMMA StackIsReady ==
  ASSUME NEW prog \in Seq(Segment), NEW s \in Loading, NEW r \in Roots(s.m), Loaded(s, r, prog, Len(prog)),
         ~overlaps(s.vmas, stack),
         NEW n, Edited(s.m, n, r, StackPages), \A la \in StackPages : pte(n, r, la) # invalid
  PROVE  Ready(n, r, prog)
<1>1. DOMAIN prog = 1..Len(prog) /\ \A i \in 1..Len(prog) : prog[i] \in Segment
  BY LenProperties, ElementOfSeq
<1>2. ASSUME NEW i \in 1..Len(prog), NEW la \in Extent(prog[i]) PROVE la \in Addr /\ la \notin StackPages
  <2>1. stack \in Vma /\ StackPages \subseteq Extent(stack)
    BY AddressSpaceAssumption, Sizes DEF Vma, Addr, Extent, StackPages, stack
  <2>2. la \in Extents(s.vmas, 1) /\ s.vmas \in Seq(Vma)
    BY DEF Loaded, Loading
  <2>3. la \in Extent(stack) => la \notin Extents(s.vmas, 1)
    BY <2>1, <2>2, AreasApart
  <2>4. la \in Addr
    BY <1>1, SegmentFacts, ExtentInAddr DEF Extent
  <2> QED
    BY <2>1, <2>2, <2>3, <2>4
<1>3. ASSUME NEW la \in Addr, la \notin StackPages PROVE Agrees(s.m, n, r, la)
  BY <1>3 DEF Edited
<1>4. ASSUME NEW i \in 1..Len(prog)
      PROVE  ~prog[i].bad /\ \A la \in Extent(prog[i]) : pte(n, r, la) # invalid /\ n.data[pte(n, r, la)] = prog[i].image
  <2>1. /\ ~prog[i].bad
        /\ \A la \in Extent(prog[i]) : pte(s.m, r, la) # invalid /\ s.m.data[pte(s.m, r, la)] = prog[i].image
    BY DEF Loaded
  <2> QED
    BY <1>2, <1>3, <2>1 DEF Agrees
<1>5. ASSUME NEW la \in Addr, \A i \in 1..Len(prog) : la \notin Extent(prog[i])
      PROVE  pte(n, r, la) # invalid <=> la \in StackPages
  <2>1. pte(s.m, r, la) = invalid
    BY <1>5 DEF Loaded
  <2> QED
    BY <1>3, <2>1 DEF Agrees
<1> QED
  BY <1>1, <1>4, <1>5 DEF Ready

\* The process runs prog, or is gone.
Started(prog) ==
  \/ mm' = [mm EXCEPT ![current] = none] /\ current' \in Thread \ {current}
  \/ \E new \in Space : /\ mm' = [mm EXCEPT ![current] = new] /\ current' = current
                        /\ Ready(mem', new.pgdir, prog)

\* exec, when the old address space is gone.
LEMMA LoadForest ==
  ASSUME SatpInv, current # initproc, NEW m, Good(m, {}), Spaces(m, [mm EXCEPT ![current] = none]),
         NEW prog \in Program, load_icode(m, prog)
  PROVE  /\ Good(mem, {})' /\ Spaces(mem, mm)'
         /\ Elsewhere(m, mem') /\ Started(prog)
<1> DEFINE f == [mm EXCEPT ![current] = none]
           r == lowest(m.free)
           x == setup_pgdir(m)
           s0 == load_segments(x, r, prog)
           s == map_stack(s0)
           y == s.m
<1>1. m.free # {} /\ exec_ends(s, r)
  BY DEF load_icode
<1>2. /\ Good(x, {}) /\ r \notin Roots(m) /\ Roots(x) = Roots(m) \cup {r} /\ Within(x, r, {})
      /\ \A q \in Roots(m), la \in Addr : Agrees(m, x, q, la)
  BY <1>1, SetupGood
<1>3. r \in Page /\ r \in Roots(x)
  BY <1>2 DEF Roots
<1>4. f \in [Thread -> Space \cup {none}] /\ current \in Thread /\ f[current] = none
  BY Facts
<1>5. Spaces(m, f)
  OBVIOUS
<1>6. prog \in Seq(Segment)
  BY AddressSpaceAssumption
<1> HIDE DEF r, x, f
<1>7. s0 \in Loading
  BY <1>2, <1>3, <1>6, LoadSegmentsType DEF Good
<1>8. /\ s \in Loading /\ y \in Mem /\ s.vmas \in Seq(Vma) /\ ~y.panic
      /\ y = s0.m /\ s0.vmas \in Seq(Vma)
      /\ ~s.ok \/ (s0.ok /\ ~overlaps(s0.vmas, stack) /\ s.vmas = insert_vma(s0.vmas, stack))
      /\ ~s.ok => s.vmas = s0.vmas
  <2>1. /\ s \in Loading
        /\ s.m.panic \/ s.m = s0.m
        /\ s.m.panic \/ ~s.ok \/ (s0.ok /\ ~overlaps(s0.vmas, stack) /\ s.vmas = insert_vma(s0.vmas, stack))
        /\ ~s.ok => s.vmas = s0.vmas
    BY <1>7, MapStackShape
  <2> HIDE DEF s0
  <2>2. ~s.m.panic
    BY <1>1 DEF exec_ends
  <2> HIDE DEF s
  <2> QED
    BY <1>7, <2>1, <2>2 DEF Loading
<1>9. /\ Good(y, {}) /\ Edited(x, y, r, Addr) /\ Within(y, r, Extents(s0.vmas, 1))
      /\ (s0.ok => Loaded(s0, r, prog, Len(prog)))
  <2>1. \/ s0.m.panic
        \/ /\ Good(s0.m, {}) /\ Edited(x, s0.m, r, Addr) /\ Within(s0.m, r, Extents(s0.vmas, 1))
           /\ (s0.ok => Loaded(s0, r, prog, Len(prog)))
    BY <1>2, <1>3, <1>6, LoadSegmentsGood
  <2> HIDE DEF s0, s
  <2> QED
    BY <1>8, <2>1
<1> HIDE DEF s0, s, y
<1>10. Roots(y) = Roots(m) \cup {r} /\ r \in Roots(y)
  BY <1>2, <1>9 DEF Edited
<1>11. ASSUME NEW q \in Roots(m), NEW la \in Addr PROVE Agrees(m, y, q, la)
  <2>1. q \in Roots(x) /\ q # r
    BY <1>2
  <2>2. Agrees(x, y, q, la)
    BY <1>9, <2>1 DEF Edited
  <2>3. Agrees(m, x, q, la)
    BY <1>2
  <2> QED
    BY <2>2, <2>3 DEF Agrees
<1>12. CASE s.ok
  <2> DEFINE n == alloc_range(y, r, USERTOP - LOADED, USERTOP)
             areas == s.vmas
             new == [pgdir |-> r, vmas |-> areas]
  <2>1. /\ ~n.panic /\ mem' = n /\ mm' = [mm EXCEPT ![current] = new] /\ current' = current
    BY <1>1, <1>12 DEF exec_ends, run_program, goes, y
  <2>2. stack \in Vma /\ USERTOP - LOADED \in Addr /\ (USERTOP - LOADED)..(USERTOP - 1) \subseteq Extent(stack)
    BY AddressSpaceAssumption, Sizes DEF Vma, Addr, Extent, stack
  <2>3. Extents(areas, 1) = Extents(s0.vmas, 1) \cup Extent(stack)
    BY <1>8, <1>12, <2>2, InsertVmaCovers
  <2>4. areas \in Seq(Vma)
    BY <1>8
  <2>5. n.panic \/ ( /\ Good(n, {}) /\ Edited(y, n, r, (USERTOP - LOADED)..(USERTOP - 1))
                     /\ \A la \in (USERTOP - LOADED)..(USERTOP - 1) : pte(n, r, la) # invalid )
    BY <1>9, <1>10, <2>2, AllocRangeGood
  <2>6. new \in Space /\ new.pgdir = r /\ new.vmas = areas
    BY <1>3, <2>4 DEF Space
  <2> HIDE DEF n, areas, new
  <2>7. Good(n, {}) /\ Edited(y, n, r, (USERTOP - LOADED)..(USERTOP - 1))
    BY <2>1, <2>5
  <2>8. Roots(n) = Roots(m) \cup {r}
    BY <1>10, <2>7 DEF Edited
  <2>9. ASSUME NEW q \in Roots(m), NEW la \in Addr PROVE Agrees(m, n, q, la)
    <3>1. q \in Roots(y) /\ q # r
      BY <1>2, <1>10
    <3>2. Agrees(y, n, q, la)
      BY <2>7, <3>1 DEF Edited
    <3> QED
      BY <1>11, <3>2 DEF Agrees
  <2>10. Within(n, r, Extents(areas, 1))
    <3>1. ASSUME NEW la \in Addr, pte(n, r, la) # invalid, la \notin Extent(stack)
          PROVE  la \in Extents(s0.vmas, 1)
      <4>1. pte(y, r, la) # invalid
        BY <1>10, <2>2, <2>7, <3>1 DEF Edited, Agrees
      <4> QED
        BY <1>9, <4>1 DEF Within
    <3> QED
      BY <2>3, <3>1 DEF Within
  <2>11. Spaces(n, [f EXCEPT ![current] = new])
    <3>1. new.pgdir \notin Roots(m) /\ Roots(n) = Roots(m) \cup {new.pgdir} /\ Within(n, new.pgdir, Extents(new.vmas, 1))
      BY <1>2, <2>6, <2>8, <2>10
    <3> QED
      BY <1>4, <1>5, <2>6, <2>9, <3>1, SpacesAdded
  <2>12. [f EXCEPT ![current] = new] = [mm EXCEPT ![current] = new]
    BY Facts DEF f
  <2>13. Elsewhere(m, mem')
    BY <2>1, <2>9 DEF Elsewhere
  <2>14. Ready(n, r, prog)
    <3>1. Loaded(s0, r, prog, Len(prog)) /\ ~overlaps(s0.vmas, stack) /\ y = s0.m
      BY <1>8, <1>9, <1>12
    <3>2. Edited(s0.m, n, r, StackPages) /\ \A la \in StackPages : pte(n, r, la) # invalid
      BY <2>1, <2>5, <3>1 DEF StackPages
    <3>3. r \in Roots(s0.m)
      BY <1>10, <3>1
    <3> QED
      BY <1>6, <1>7, <3>1, <3>2, <3>3, StackIsReady
  <2>15. Started(prog)
    BY <2>1, <2>6, <2>14 DEF Started
  <2> QED
    BY <2>1, <2>7, <2>11, <2>12, <2>13, <2>15
<1>13. CASE ~s.ok
  <2> DEFINE new == [pgdir |-> r, vmas |-> s.vmas]
             n == drop(y, new)
  <2>1. do_exit(n)
    BY <1>1, <1>13 DEF exec_ends, y
  <2>2. new \in Space /\ new.pgdir = r /\ new.vmas = s.vmas
    BY <1>3, <1>8 DEF Space
  <2> HIDE DEF new
  <2>3. /\ Good(n, {}) /\ Roots(n) = Roots(y) \ {r}
        /\ \A q \in Roots(n), la \in Addr : Agrees(y, n, q, la)
    BY <1>8, <1>9, <1>10, <1>13, <2>2, DropGood
  <2> HIDE DEF n
  <2>4. Roots(n) = Roots(m)
    BY <1>2, <1>10, <2>3
  <2>5. \A q \in Roots(m), la \in Addr : Agrees(m, n, q, la)
    BY <1>11, <2>3, <2>4 DEF Agrees
  <2>6. Spaces(n, f)
    BY <1>5, <2>4, <2>5, SpacesKept
  <2>7. Good(mem, {})' /\ Spaces(mem, mm)'
    BY <2>1, <2>3, <2>6, ExitForest DEF f
  <2>8. Elsewhere(m, mem')
    BY <2>1, <2>5 DEF Elsewhere, do_exit, goes
  <2>9. Started(prog)
    BY <2>1, Facts DEF Started, do_exit
  <2> QED
    BY <2>7, <2>8, <2>9
<1> QED
  BY <1>12, <1>13

\* A program writes to its memory.
LEMMA WriteForest ==
  ASSUME ForestInv, NEW la \in Written, NEW v \in Value, Write(la, v)
  PROVE  /\ Good(mem, {})' /\ Spaces(mem, mm)'
         /\ Edited(mem, mem', mm[current].pgdir, {la}) /\ pte(mem', mm[current].pgdir, la) # invalid
         /\ mem'.data[pte(mem', mm[current].pgdir, la)] = v
<1> DEFINE s == mm[current]
           r == s.pgdir
           n == [mem EXCEPT !.data[pte(mem, r, la)] = v]
<1>1. SatpInv /\ Good(mem, {}) /\ Spaces(mem, mm) /\ current \in Thread /\ la \in Addr
  BY Facts, AddressSpaceAssumption DEF ForestInv
<1>2. s # none /\ pte(mem, satp, la) # invalid /\ mem' = [mem EXCEPT !.data[pte(mem, satp, la)] = v] /\ mm' = mm
  BY DEF Write, in_user
<1>3. satp = r
  BY <1>1, <1>2 DEF SatpInv, SatpCurrent
<1>4. r \in Roots(mem) /\ Within(mem, r, Extents(s.vmas, 1))
  BY <1>1, <1>2, SpacesFact
<1>5. pte(mem, r, la) # invalid /\ mem' = n
  BY <1>2, <1>3
<1>6. /\ Good(n, {}) /\ Edited(mem, n, r, {la}) /\ pte(n, r, la) = pte(mem, r, la)
      /\ n.data[pte(n, r, la)] = v
  BY <1>1, <1>4, <1>5, StoreGood
<1> HIDE DEF n
<1>7. Within(n, r, Extents(s.vmas, 1))
  BY <1>4, <1>6 DEF Within, Edited, Agrees
<1>8. Spaces(n, mm)
  BY <1>1, <1>2, <1>6, <1>7, SpacesEdited
<1> QED
  BY <1>2, <1>5, <1>6, <1>8

\* It gets a page.
LEMMA FaultForest ==
  ASSUME ForestInv, NEW la \in Addr, Fault(la)
  PROVE  /\ Good(mem, {})' /\ Spaces(mem, mm)'
         /\ Edited(mem, mem', mm[current].pgdir, {la}) /\ pte(mem', mm[current].pgdir, la) # invalid
<1> DEFINE s == mm[current]
           r == s.pgdir
           g == get_pte(mem, r, la)
           n == pgdir_alloc_page(g, r, la)
<1>1. SatpInv /\ Good(mem, {}) /\ Spaces(mem, mm) /\ current \in Thread
  BY Facts DEF ForestInv
<1>2. s # none /\ find_vma(s.vmas, la) # {} /\ ~n.panic /\ mem' = n /\ mm' = mm
  BY DEF Fault, in_user, goes
<1>3. s \in Space /\ r \in Roots(mem) /\ Within(mem, r, Extents(s.vmas, 1))
  BY <1>1, <1>2, Facts, SpacesFact
<1>4. la \in Extents(s.vmas, 1)
  BY <1>2, <1>3, CoveredIsExtents, SpaceFacts DEF Covered
<1>5. g \in Mem
  BY <1>3, GetPteType, Facts, SpaceFacts, <1>1
<1>6. g.panic \/ Serves(mem, g, {})
  BY <1>1, <1>3, GetPteGood
<1> HIDE DEF s, g
<1>7. ~g.panic
  BY <1>2, <1>5, PanicStays
<1>8. Good(g, {}) /\ SameSpaces(mem, g)
  BY <1>6, <1>7 DEF Serves
<1>9. r \in Roots(g)
  BY <1>3, <1>8 DEF SameSpaces
<1>10. Gives(g, n, r, la)
  BY <1>8, <1>9, AllocPageGood
<1> HIDE DEF n
<1>11. Good(n, {}) /\ Edited(g, n, r, {la}) /\ pte(n, r, la) # invalid
  BY <1>2, <1>10 DEF Gives
<1>12. Spaces(g, mm)
  BY <1>1, <1>8, SpacesKept DEF SameSpaces
<1>13. Within(g, r, Extents(s.vmas, 1))
  BY <1>1, <1>2, <1>12, SpacesFact DEF s
<1>14. Within(n, r, Extents(s.vmas, 1))
  BY <1>4, <1>9, <1>11, <1>13 DEF Within, Edited, Agrees
<1>15. Spaces(n, mm)
  BY <1>1, <1>2, <1>11, <1>12, <1>14, SpacesEdited DEF s
<1>16. Edited(mem, n, r, {la})
  <2> DEFINE A == {la}
  <2>1. A \cup A = A /\ Edited(g, n, r, A)
    BY <1>11
  <2> HIDE DEF A
  <2>2. Edited(mem, g, r, A)
    BY <1>8, SameEdited
  <2>3. Edited(mem, n, r, A \cup A)
    BY <2>1, <2>2, EditedTwice
  <2> QED
    BY <2>1, <2>3 DEF A
<1> QED
  BY <1>2, <1>11, <1>15, <1>16 DEF s

\* and every action keeps it.
LEMMA NextForest == ForestInv /\ [Next]_vars => ForestInv'
<1> SUFFICES ASSUME ForestInv, [Next]_vars PROVE ForestInv'
  OBVIOUS
<1>1. SatpInv /\ Good(mem, {}) /\ Spaces(mem, mm) /\ mm \in [Thread -> Space \cup {none}] /\ current \in Thread
  BY Facts DEF ForestInv
<1> DEFINE d == drop(mem, mm[current])
<1>2. Good(d, {}) /\ Spaces(d, [mm EXCEPT ![current] = none])
  BY <1>1, SpacesDropped
<1>3. SatpInv'
  BY <1>1, NextSatp
<1>4. ASSUME NEW p \in Thread, Switch(p) PROVE Good(mem, {})' /\ Spaces(mem, mm)'
  BY <1>1, <1>4 DEF Switch
<1>5. ASSUME NEW prog \in Program, Exec(prog) PROVE Good(mem, {})' /\ Spaces(mem, mm)'
  <2>1. load_icode(d, prog) /\ current # initproc
    BY <1>5 DEF Exec
  <2> HIDE DEF d
  <2> QED
    BY <1>1, <1>2, <2>1, LoadForest
<1>6. ASSUME Exit PROVE Good(mem, {})' /\ Spaces(mem, mm)'
  <2>1. do_exit(d)
    BY <1>6 DEF Exit
  <2> HIDE DEF d
  <2> QED
    BY <1>2, <2>1, ExitForest
<1>7. ASSUME UNCHANGED vars PROVE Good(mem, {})' /\ Spaces(mem, mm)'
  BY <1>1, <1>7 DEF vars
<1>8. Good(mem, {})' /\ Spaces(mem, mm)'
  BY <1>4, <1>5, <1>6, <1>7, ForkForest, WriteForest, FaultForest DEF Next
<1> QED
  BY <1>3, <1>8 DEF ForestInv
-----------------------------------------------------------------------------
(* Which pages are used. *)

\* The four shapes of a path.
LEMMA PathFacts ==
  ASSUME NEW path \in Path
  PROVE  \/ path = <<>>
         \/ \E i \in PD1 : path = <<i>>
         \/ \E i \in PD1, j \in PD0 : path = <<i, j>>
         \/ \E i \in PD1, j \in PD0, k \in PT : path = <<i, j, k>>
BY DEF Path

\* The indices on a path.
LEMMA PathIndices ==
  ASSUME NEW path \in Path
  PROVE  Len(path) \in Nat /\ \A i \in 1..Len(path) : path[i] \in Index
<1> USE IndexSets
<1>1. CASE path = <<>>
  BY <1>1
<1>2. ASSUME NEW i \in PD1, path = <<i>> PROVE Len(path) \in Nat /\ \A n \in 1..Len(path) : path[n] \in Index
  <2>1. i \in Index /\ Len(path) = 1 /\ path[1] = i
    BY <1>2
  <2> QED
    BY <2>1
<1>3. ASSUME NEW i \in PD1, NEW j \in PD0, path = <<i, j>>
      PROVE  Len(path) \in Nat /\ \A n \in 1..Len(path) : path[n] \in Index
  <2>1. i \in Index /\ j \in Index /\ Len(path) = 2 /\ path[1] = i /\ path[2] = j
    BY <1>3
  <2> QED
    BY <2>1
<1>4. ASSUME NEW i \in PD1, NEW j \in PD0, NEW k \in PT, path = <<i, j, k>>
      PROVE  Len(path) \in Nat /\ \A n \in 1..Len(path) : path[n] \in Index
  <2>1. i \in Index /\ j \in Index /\ k \in Index /\ Len(path) = 3 /\ path[1] = i /\ path[2] = j /\ path[3] = k
    BY <1>4
  <2> QED
    BY <2>1
<1> QED
  BY <1>1, <1>2, <1>3, <1>4, PathFacts

\* entry goes from level to level.
LEMMA EntryLoop ==
  ASSUME mem \in Mem, NEW p \in Thread, mm[p].pgdir \in Page, NEW path \in Path
  PROVE  \E at :
           /\ at[0] = mm[p].pgdir /\ at[Len(path)] = entry(p, path)
           /\ \A i \in 1..Len(path) :
                at[i] = IF at[i - 1] = invalid THEN invalid ELSE mem.table[at[i - 1]][path[i]]
<1> DEFINE a == 0
           b == Len(path)
           S == Page \cup {invalid}
           r == mm[p].pgdir
           turn(x, i) == IF x = invalid THEN invalid ELSE mem.table[x][path[i]]
           F == [i \in (a + 1)..b |-> [x \in S |-> turn(x, i)]]
           Does(g) == g = [i \in a..b |-> IF i = a THEN r ELSE turn(g[i - 1], i)]
           at == CHOOSE g : Does(g)
<1>1. a \in Nat /\ b \in Nat /\ a <= b /\ r \in S
  BY PathIndices
<1>2. entry(p, path) = at[b]
  BY DEF entry
<1>3. ASSUME NEW i \in (a + 1)..b, NEW x \in S PROVE turn(x, i) \in S
  <2>1. path[i] \in Index
    BY PathIndices
  <2> QED
    BY <2>1, MemFields
<1> HIDE DEF turn, a, b, S
<1>4. Keeps(F, S, a, b)
  BY <1>3 DEF Keeps
<1>5. PICK g : Computes(g, F, S, r, a, b)
  <2> HIDE DEF F
  <2> QED
    BY <1>1, <1>4, LoopExists
<1>6. Does(g)
  <2>1. \A i \in a..b : i # a => i \in (a + 1)..b /\ g[i - 1] \in S
    BY <1>1, <1>5 DEF Computes
  <2>2. \A i \in a..b : i # a => F[i][g[i - 1]] = turn(g[i - 1], i)
    BY <2>1
  <2> HIDE DEF F
  <2> QED
    BY <1>1, <1>5, <2>1, <2>2 DEF Computes
<1>7. Does(at)
  <2> HIDE DEF Does
  <2> QED
    BY <1>6
<1> HIDE DEF at, F
<1>8. at[a] = r /\ \A i \in (a + 1)..b : at[i] = turn(at[i - 1], i)
  BY <1>1, <1>7
<1> HIDE DEF Does
<1>9. \A i \in 1..Len(path) : i \in (a + 1)..b
  BY DEF a, b
<1> QED
  BY <1>2, <1>8, <1>9 DEF a, b, turn

\* The entries on the way.
pd(p, i) == mem.table[mm[p].pgdir][i]
pt(p, i, j) == IF pd(p, i) = invalid THEN invalid ELSE mem.table[pd(p, i)][j]
leaf(p, i, j, k) == IF pt(p, i, j) = invalid THEN invalid ELSE mem.table[pt(p, i, j)][k]

\* What the four shapes of a path lead to.
LEMMA EntryValues ==
  ASSUME mem \in Mem, NEW p \in Thread, mm[p].pgdir \in Page,
         NEW i \in PD1, NEW j \in PD0, NEW k \in PT
  PROVE  /\ entry(p, <<>>) = mm[p].pgdir /\ entry(p, <<i>>) = pd(p, i)
         /\ entry(p, <<i, j>>) = pt(p, i, j) /\ entry(p, <<i, j, k>>) = leaf(p, i, j, k)
<1> DEFINE r == mm[p].pgdir
           d == pd(p, i)
           t == pt(p, i, j)
           u == leaf(p, i, j, k)
           Way(at, path) ==
             /\ at[0] = r /\ at[Len(path)] = entry(p, path)
             /\ \A n \in 1..Len(path) :
                  at[n] = IF at[n - 1] = invalid THEN invalid ELSE mem.table[at[n - 1]][path[n]]
<1>1. r # invalid
  BY Pages
<1>2. \A path \in Path : \E at : Way(at, path)
  BY EntryLoop
<1>3. <<>> \in Path /\ <<i>> \in Path /\ <<i, j>> \in Path /\ <<i, j, k>> \in Path
  BY DEF Path
<1>4. /\ d = mem.table[r][i]
      /\ t = IF d = invalid THEN invalid ELSE mem.table[d][j]
      /\ u = IF t = invalid THEN invalid ELSE mem.table[t][k]
  BY DEF pd, pt, leaf
<1> HIDE DEF r, d, t, u
<1>5. entry(p, <<>>) = r
  <2>1. PICK at : Way(at, <<>>)
    BY <1>2, <1>3
  <2> QED
    BY <2>1
<1>6. entry(p, <<i>>) = d
  <2>1. PICK at : Way(at, <<i>>)
    BY <1>2, <1>3
  <2>2. at[0] = r /\ at[1] = entry(p, <<i>>)
    BY <2>1
  <2>3. at[1] = IF at[0] = invalid THEN invalid ELSE mem.table[at[0]][i]
    BY <2>1
  <2> QED
    BY <1>1, <1>4, <2>2, <2>3
<1>7. entry(p, <<i, j>>) = t
  <2> DEFINE path == <<i, j>>
  <2>1. PICK at : Way(at, path)
    BY <1>2, <1>3
  <2>2. Len(path) = 2 /\ path[1] = i /\ path[2] = j
    OBVIOUS
  <2> HIDE DEF path
  <2>3. at[0] = r /\ at[2] = entry(p, path)
    BY <2>1, <2>2
  <2>4. \A n \in 1..2 : at[n] = IF at[n - 1] = invalid THEN invalid ELSE mem.table[at[n - 1]][path[n]]
    BY <2>1, <2>2
  <2>5. at[1] = IF at[0] = invalid THEN invalid ELSE mem.table[at[0]][i]
    BY <2>2, <2>4
  <2>6. at[2] = IF at[1] = invalid THEN invalid ELSE mem.table[at[1]][j]
    BY <2>2, <2>4
  <2> QED
    BY <1>1, <1>4, <2>3, <2>5, <2>6 DEF path
<1>8. entry(p, <<i, j, k>>) = u
  <2> DEFINE path == <<i, j, k>>
  <2>1. PICK at : Way(at, path)
    BY <1>2, <1>3
  <2>2. Len(path) = 3 /\ path[1] = i /\ path[2] = j /\ path[3] = k
    OBVIOUS
  <2> HIDE DEF path
  <2>3. at[0] = r /\ at[3] = entry(p, path)
    BY <2>1, <2>2
  <2>4. \A n \in 1..3 : at[n] = IF at[n - 1] = invalid THEN invalid ELSE mem.table[at[n - 1]][path[n]]
    BY <2>1, <2>2
  <2>5. at[1] = IF at[0] = invalid THEN invalid ELSE mem.table[at[0]][i]
    BY <2>2, <2>4
  <2>6. at[2] = IF at[1] = invalid THEN invalid ELSE mem.table[at[1]][j]
    BY <2>2, <2>4
  <2>7. at[3] = IF at[2] = invalid THEN invalid ELSE mem.table[at[2]][k]
    BY <2>2, <2>4
  <2> QED
    BY <1>1, <1>4, <2>3, <2>5, <2>6, <2>7 DEF path
<1> QED
  BY <1>5, <1>6, <1>7, <1>8 DEF r, d, t, u

\* The tables, directories and pages of programs in use.
InUse(D, T) == ForestInv /\ Forest(mem, {}, D, T)

\* What the invariant says of the pages in use.
LEMMA InUseFacts ==
  ASSUME NEW D \in SUBSET Page, NEW T \in SUBSET Page, InUse(D, T)
  PROVE  /\ mem \in Mem /\ Apart(mem, {}, D, T)
         /\ Layer(mem.table, Roots(mem), PD1, D) /\ Layer(mem.table, D, PD0, T)
         /\ Layer(mem.table, T, PT, Users(mem, {}))
         /\ \A p \in Thread : mm[p] # none => mm[p].pgdir \in Roots(mem) /\ mm[p].pgdir \in Page
<1>1. mem \in Mem /\ Forest(mem, {}, D, T) /\ {} \in SUBSET Page
  BY DEF InUse, ForestInv, Good
<1>2. Apart(mem, {}, D, T)
  BY <1>1, KindsApart
<1>3. \A p \in Thread : mm[p] # none => mm[p].pgdir \in Roots(mem)
  BY DEF InUse, ForestInv, Spaces
<1> QED
  BY <1>1, <1>2, <1>3 DEF Forest, Apart

\* What an entry is by its level.
LEMMA EntryKinds ==
  ASSUME NEW D \in SUBSET Page, NEW T \in SUBSET Page, InUse(D, T), NEW p \in Thread, mm[p] # none,
         NEW i \in PD1, NEW j \in PD0, NEW k \in PT
  PROVE  /\ mm[p].pgdir \in Roots(mem) /\ pd(p, i) \in D \cup {invalid}
         /\ pt(p, i, j) \in T \cup {invalid} /\ leaf(p, i, j, k) \in Users(mem, {}) \cup {invalid}
<1>1. i \in Index /\ j \in Index /\ k \in Index
  BY IndexSets
<1>2. mm[p].pgdir \in Roots(mem)
  BY InUseFacts
<1>3. /\ Layer(mem.table, Roots(mem), PD1, D) /\ Layer(mem.table, D, PD0, T)
      /\ Layer(mem.table, T, PT, Users(mem, {}))
  BY InUseFacts
<1>4. pd(p, i) \in D \cup {invalid}
  BY <1>1, <1>2, <1>3 DEF Layer, pd
<1>5. pt(p, i, j) \in T \cup {invalid}
  BY <1>1, <1>3, <1>4 DEF Layer, pt
<1>6. leaf(p, i, j, k) \in Users(mem, {}) \cup {invalid}
  BY <1>1, <1>3, <1>5 DEF Layer, leaf
<1> QED
  BY <1>2, <1>4, <1>5, <1>6

\* Each level has an entry once.
LEMMA EntriesApart ==
  ASSUME NEW D \in SUBSET Page, NEW T \in SUBSET Page, InUse(D, T),
         NEW p \in Thread, mm[p] # none, NEW i \in PD1, NEW j \in PD0, NEW k \in PT,
         NEW q \in Thread, mm[q] # none, NEW a \in PD1, NEW b \in PD0, NEW c \in PT
  PROVE  /\ mm[p].pgdir = mm[q].pgdir => p = q
         /\ pd(p, i) = pd(q, a) /\ pd(p, i) # invalid => p = q /\ i = a
         /\ pt(p, i, j) = pt(q, a, b) /\ pt(p, i, j) # invalid => p = q /\ i = a /\ j = b
         /\ leaf(p, i, j, k) = leaf(q, a, b, c) /\ leaf(p, i, j, k) # invalid =>
              p = q /\ i = a /\ j = b /\ k = c
<1>1. mm[p].pgdir = mm[q].pgdir => p = q
  BY DEF InUse, ForestInv, Spaces
<1>2. /\ Layer(mem.table, Roots(mem), PD1, D) /\ Layer(mem.table, D, PD0, T)
      /\ Layer(mem.table, T, PT, Users(mem, {}))
  BY InUseFacts
<1>3. ASSUME pd(p, i) = pd(q, a), pd(p, i) # invalid PROVE p = q /\ i = a
  <2>1. mm[p].pgdir = mm[q].pgdir /\ i = a
    <3>1. mm[p].pgdir \in Roots(mem) /\ mm[q].pgdir \in Roots(mem)
      BY InUseFacts
    <3> QED
      BY <1>3, <1>2, <3>1 DEF Layer, pd
  <2> QED
    BY <1>1, <2>1
<1>4. ASSUME pt(p, i, j) = pt(q, a, b), pt(p, i, j) # invalid PROVE p = q /\ i = a /\ j = b
  <2> DEFINE d == pd(p, i)
             e == pd(q, a)
  <2>1. /\ d # invalid /\ e # invalid
        /\ mem.table[d][j] = mem.table[e][b] /\ mem.table[d][j] # invalid
    BY <1>4 DEF pt
  <2>2. d \in D \cup {invalid} /\ e \in D \cup {invalid}
    <3>1. d \in D \cup {invalid}
      BY EntryKinds
    <3>2. e \in D \cup {invalid}
      BY EntryKinds
    <3> QED
      BY <3>1, <3>2
  <2>3. d \in D /\ e \in D
    BY <2>1, <2>2
  <2> HIDE DEF d, e
  <2>4. d = e /\ j = b
    BY <1>2, <2>1, <2>3 DEF Layer
  <2> QED
    BY <1>3, <2>1, <2>4 DEF d, e
<1>5. ASSUME leaf(p, i, j, k) = leaf(q, a, b, c), leaf(p, i, j, k) # invalid
      PROVE  p = q /\ i = a /\ j = b /\ k = c
  <2> DEFINE t == pt(p, i, j)
             u == pt(q, a, b)
  <2>1. /\ t # invalid /\ u # invalid
        /\ mem.table[t][k] = mem.table[u][c] /\ mem.table[t][k] # invalid
    BY <1>5 DEF leaf
  <2>2. t \in T \cup {invalid} /\ u \in T \cup {invalid}
    <3>1. t \in T \cup {invalid}
      BY EntryKinds
    <3>2. u \in T \cup {invalid}
      BY EntryKinds
    <3> QED
      BY <3>1, <3>2
  <2>3. t \in T /\ u \in T
    BY <2>1, <2>2
  <2> HIDE DEF t, u
  <2>4. t = u /\ k = c
    BY <1>2, <2>1, <2>3 DEF Layer
  <2> QED
    BY <1>4, <2>1, <2>4 DEF t, u
<1> QED
  BY <1>1, <1>3, <1>4, <1>5

\* The four shapes of a path, with what it leads to.
Leads(p, path, i, j, k) ==
  \/ path = <<>> /\ entry(p, path) = mm[p].pgdir
  \/ path = <<i>> /\ entry(p, path) = pd(p, i)
  \/ path = <<i, j>> /\ entry(p, path) = pt(p, i, j)
  \/ path = <<i, j, k>> /\ entry(p, path) = leaf(p, i, j, k)

\* Every path has one of the four shapes.
LEMMA PathLeads ==
  ASSUME NEW D \in SUBSET Page, NEW T \in SUBSET Page, InUse(D, T), NEW p \in Thread, mm[p] # none,
         NEW path \in Path
  PROVE  \E i \in PD1, j \in PD0, k \in PT : Leads(p, path, i, j, k)
<1>1. mem \in Mem /\ mm[p].pgdir \in Page
  BY InUseFacts
<1>2. 0 \in PD1 /\ 0 \in PD0 /\ 0 \in PT
  BY Sizes DEF PD1, PD0, PT
<1>3. CASE path = <<>>
  BY <1>1, <1>2, <1>3, EntryValues DEF Leads
<1>4. ASSUME NEW i \in PD1, path = <<i>> PROVE \E j \in PD0, k \in PT : Leads(p, path, i, j, k)
  BY <1>1, <1>2, <1>4, EntryValues DEF Leads
<1>5. ASSUME NEW i \in PD1, NEW j \in PD0, path = <<i, j>> PROVE \E k \in PT : Leads(p, path, i, j, k)
  BY <1>1, <1>2, <1>5, EntryValues DEF Leads
<1>6. ASSUME NEW i \in PD1, NEW j \in PD0, NEW k \in PT, path = <<i, j, k>> PROVE Leads(p, path, i, j, k)
  BY <1>1, <1>6, EntryValues DEF Leads
<1> QED
  BY <1>3, <1>4, <1>5, <1>6, PathFacts

\* No page is used twice.
LEMMA EntryOnce ==
  ASSUME NEW D \in SUBSET Page, NEW T \in SUBSET Page, InUse(D, T),
         NEW p \in Thread, mm[p] # none, NEW path \in Path,
         NEW q \in Thread, mm[q] # none, NEW way \in Path,
         entry(p, path) = entry(q, way), entry(p, path) # invalid
  PROVE  p = q /\ path = way
<1>1. PICK i \in PD1, j \in PD0, k \in PT : Leads(p, path, i, j, k)
  BY PathLeads
<1>2. PICK a \in PD1, b \in PD0, c \in PT : Leads(q, way, a, b, c)
  BY PathLeads
<1>3. /\ mm[p].pgdir \in Roots(mem) /\ pd(p, i) \in D \cup {invalid}
      /\ pt(p, i, j) \in T \cup {invalid} /\ leaf(p, i, j, k) \in Users(mem, {}) \cup {invalid}
  BY EntryKinds
<1>4. /\ mm[q].pgdir \in Roots(mem) /\ pd(q, a) \in D \cup {invalid}
      /\ pt(q, a, b) \in T \cup {invalid} /\ leaf(q, a, b, c) \in Users(mem, {}) \cup {invalid}
  BY EntryKinds
<1> DEFINE e == entry(p, path)
           U == Users(mem, {})
           R == Roots(mem)
<1>5. Apart(mem, {}, D, T)
  BY InUseFacts
<1>6. /\ e \in R => e \notin D /\ e \notin T /\ e \notin U
      /\ e \in D => e \notin T /\ e \notin U
      /\ e \in T => e \notin U
  BY <1>5 DEF Apart
<1>7. e # invalid /\ e = entry(q, way)
  OBVIOUS
<1> HIDE DEF e, U, R
<1>8. \/ e \in R /\ path = <<>> /\ e = mm[p].pgdir
      \/ e \in D /\ path = <<i>> /\ e = pd(p, i)
      \/ e \in T /\ path = <<i, j>> /\ e = pt(p, i, j)
      \/ e \in U /\ path = <<i, j, k>> /\ e = leaf(p, i, j, k)
  BY <1>1, <1>3, <1>7 DEF Leads, e, U, R
<1>9. \/ e \in R /\ way = <<>> /\ e = mm[q].pgdir
      \/ e \in D /\ way = <<a>> /\ e = pd(q, a)
      \/ e \in T /\ way = <<a, b>> /\ e = pt(q, a, b)
      \/ e \in U /\ way = <<a, b, c>> /\ e = leaf(q, a, b, c)
  BY <1>2, <1>4, <1>7 DEF Leads, U, R
<1>10. /\ mm[p].pgdir = mm[q].pgdir => p = q
       /\ pd(p, i) = pd(q, a) /\ pd(p, i) # invalid => p = q /\ i = a
       /\ pt(p, i, j) = pt(q, a, b) /\ pt(p, i, j) # invalid => p = q /\ i = a /\ j = b
       /\ leaf(p, i, j, k) = leaf(q, a, b, c) /\ leaf(p, i, j, k) # invalid =>
            p = q /\ i = a /\ j = b /\ k = c
  BY EntriesApart
<1>11. CASE e \in R
  <2>1. path = <<>> /\ e = mm[p].pgdir /\ way = <<>> /\ e = mm[q].pgdir
    BY <1>6, <1>8, <1>9, <1>11
  <2> QED
    BY <1>10, <2>1
<1>12. CASE e \in D
  <2>1. path = <<i>> /\ e = pd(p, i) /\ way = <<a>> /\ e = pd(q, a)
    BY <1>6, <1>8, <1>9, <1>12
  <2> QED
    BY <1>7, <1>10, <2>1
<1>13. CASE e \in T
  <2>1. path = <<i, j>> /\ e = pt(p, i, j) /\ way = <<a, b>> /\ e = pt(q, a, b)
    BY <1>6, <1>8, <1>9, <1>13
  <2> QED
    BY <1>7, <1>10, <2>1
<1>14. CASE e \in U
  <2>1. path = <<i, j, k>> /\ e = leaf(p, i, j, k) /\ way = <<a, b, c>> /\ e = leaf(q, a, b, c)
    BY <1>6, <1>8, <1>9, <1>14
  <2> QED
    BY <1>7, <1>10, <2>1
<1> QED
  BY <1>8, <1>11, <1>12, <1>13, <1>14

\* Page directories and pages of programs are used.
LEMMA EntryExists ==
  ASSUME NEW D \in SUBSET Page, NEW T \in SUBSET Page, InUse(D, T), NEW e \in Roots(mem) \cup Users(mem, {})
  PROVE  \E p \in Thread, path \in Path : mm[p] # none /\ entry(p, path) = e
<1>1. \A r \in Roots(mem) : \E p \in Thread : mm[p] # none /\ mm[p].pgdir = r
  BY DEF InUse, ForestInv, Spaces
<1>2. /\ Layer(mem.table, Roots(mem), PD1, D) /\ Layer(mem.table, D, PD0, T)
      /\ Layer(mem.table, T, PT, Users(mem, {}))
  BY InUseFacts
<1>3. CASE e \in Roots(mem)
  <2>1. PICK p \in Thread : mm[p] # none /\ mm[p].pgdir = e
    BY <1>1, <1>3
  <2>2. 0 \in PD1 /\ 0 \in PD0 /\ 0 \in PT
    BY Sizes DEF PD1, PD0, PT
  <2>3. mem \in Mem /\ mm[p].pgdir \in Page
    BY <2>1, InUseFacts
  <2>4. entry(p, <<>>) = e
    BY <2>1, <2>3, <2>2, EntryValues
  <2>5. <<>> \in Path
    BY DEF Path
  <2> QED
    BY <2>1, <2>4, <2>5
<1>4. CASE e \in Users(mem, {})
  <2>1. PICK t \in T, k \in PT : mem.table[t][k] = e
    BY <1>4, <1>2 DEF Layer
  <2>2. PICK d \in D, j \in PD0 : mem.table[d][j] = t
    BY <1>2 DEF Layer
  <2>3. PICK r \in Roots(mem), i \in PD1 : mem.table[r][i] = d
    BY <1>2 DEF Layer
  <2>4. PICK p \in Thread : mm[p] # none /\ mm[p].pgdir = r
    BY <1>1
  <2>5. d # invalid /\ t # invalid
    BY Pages
  <2>6. leaf(p, i, j, k) = e
    BY <2>1, <2>2, <2>3, <2>4, <2>5 DEF leaf, pt, pd
  <2>7. entry(p, <<i, j, k>>) = e
    <3>1. mem \in Mem /\ mm[p].pgdir \in Page
      BY <2>4, InUseFacts
    <3> QED
      BY <2>6, <3>1, EntryValues
  <2>8. <<i, j, k>> \in Path
    BY DEF Path
  <2> QED
    BY <2>4, <2>7, <2>8
<1> QED
  BY <1>3, <1>4

\* A set has at most one element, and its size.
LEMMA AtMostOne ==
  ASSUME NEW S, \A x, y \in S : x = y
  PROVE  /\ Cardinality(S) \in {0, 1}
         /\ Cardinality(S) = 1 <=> S # {}
<1>1. CASE S = {}
  <2>1. Cardinality(S) = 0
    BY <1>1, FS_EmptySet
  <2> QED
    BY <1>1, <2>1
<1>2. CASE S # {}
  <2>1. PICK x : x \in S
    BY <1>2
  <2>2. S = {x}
    BY <2>1
  <2>3. Cardinality(S) = 1
    BY <2>2, FS_Singleton
  <2> QED
    BY <1>2, <2>3
<1> QED
  BY <1>1, <1>2

\* Pages are used once when page tables are a forest.
LEMMA ForestPages ==
  ASSUME ForestInv
  PROVE  PagesUsedOnce
<1> DEFINE u == used
           S(q) == {x \in DOMAIN u : u[x] = q}
           uses == [q \in Page |-> Cardinality({x \in DOMAIN u : u[x] = q})]
<1>1. PICK D \in SUBSET Page, T \in SUBSET Page : InUse(D, T)
  BY DEF ForestInv, Good, InUse
<1> DEFINE Users0 == Users(mem, {})
           Has == {p \in Thread : mm[p] # none}
<1>2. DOMAIN u = Has \X Path /\ \A x \in Has \X Path : u[x] = entry(x[1], x[2])
  BY DEF used
<1>3. ASSUME NEW q \in Page PROVE uses[q] = Cardinality(S(q))
  OBVIOUS
<1> HIDE DEF u, uses
<1>4. ASSUME NEW q \in Page PROVE \A x, y \in S(q) : x = y
  <2> SUFFICES ASSUME NEW x \in S(q), NEW y \in S(q) PROVE x = y
    OBVIOUS
  <2>1. x \in Has \X Path /\ y \in Has \X Path /\ entry(x[1], x[2]) = q /\ entry(y[1], y[2]) = q
    BY <1>2
  <2>2. x[1] \in Has /\ x[2] \in Path /\ y[1] \in Has /\ y[2] \in Path /\ x = <<x[1], x[2]>> /\ y = <<y[1], y[2]>>
    BY <2>1
  <2>3. q # invalid
    BY Pages
  <2>4. x[1] = y[1] /\ x[2] = y[2]
    BY <1>1, <2>1, <2>2, <2>3, EntryOnce
  <2> QED
    BY <2>2, <2>4
<1>5. ASSUME NEW q \in Page, S(q) # {} PROVE q \in Roots(mem) \cup D \cup T \cup Users0
  <2>1. PICK x : x \in S(q)
    BY <1>5
  <2>2. x \in Has \X Path /\ entry(x[1], x[2]) = q
    BY <1>2, <2>1
  <2>3. x[1] \in Has /\ x[2] \in Path
    BY <2>2
  <2>4. PICK i \in PD1, j \in PD0, k \in PT : Leads(x[1], x[2], i, j, k)
    BY <1>1, <2>3, PathLeads
  <2>5. /\ mm[x[1]].pgdir \in Roots(mem) /\ pd(x[1], i) \in D \cup {invalid}
        /\ pt(x[1], i, j) \in T \cup {invalid} /\ leaf(x[1], i, j, k) \in Users0 \cup {invalid}
    BY <1>1, <2>3, EntryKinds
  <2>6. q # invalid
    BY Pages
  <2> QED
    BY <2>2, <2>4, <2>5, <2>6 DEF Leads
<1>6. ASSUME NEW q \in Roots(mem) \cup Users0 PROVE S(q) # {}
  <2>1. PICK p \in Thread, path \in Path : mm[p] # none /\ entry(p, path) = q
    BY <1>1, <1>6, EntryExists
  <2>2. <<p, path>> \in Has \X Path /\ <<p, path>>[1] = p /\ <<p, path>>[2] = path
    BY <2>1
  <2>3. u[<<p, path>>] = q
    BY <1>2, <2>1, <2>2
  <2> QED
    BY <1>2, <2>2, <2>3
<1> HIDE DEF S, Has, Users0
<1>7. ASSUME NEW q \in Page PROVE uses[q] \in {0, 1} /\ (uses[q] = 1 <=> S(q) # {})
  BY <1>3, <1>4, AtMostOne
<1>8. ASSUME NEW q \in Page
      PROVE  /\ uses[q] <= 1
             /\ uses[q] = 1 => q \notin mem.free
             /\ uses[q] = 0 => q \in mem.free \/ mem.data[q] = TABLE
             /\ mem.data[q] \in Value => mem.ref[q] = uses[q]
  <2>1. mem \in Mem /\ Apart(mem, {}, D, T) /\ Forest(mem, {}, D, T)
    BY <1>1, InUseFacts DEF InUse
  <2>2. mem.data[q] \in Value \cup {TABLE, BOOT}
    BY <2>1, MemFields DEF Content
  <2>3. q \notin mem.free => \/ q \in Roots(mem) /\ mem.data[q] = BOOT
                             \/ q \in Users0 /\ mem.data[q] \in Value
                             \/ mem.data[q] = TABLE
    BY <2>2 DEF Roots, Users, Users0
  <2>4. uses[q] = 1 => q \notin mem.free
    BY <1>5, <1>7, <2>1 DEF Apart, Users0
  <2>5. uses[q] = 0 => q \in mem.free \/ mem.data[q] = TABLE
    BY <1>6, <1>7, <2>3
  <2>6. ASSUME mem.data[q] \in Value PROVE mem.ref[q] = uses[q]
    <3>1. mem.data[q] # TABLE /\ mem.data[q] # BOOT
      BY <2>6, AddressSpaceAssumption
    <3>2. CASE q \in mem.free
      <4>1. mem.ref[q] = 0
        BY <2>1, <3>2 DEF Forest
      <4> QED
        BY <1>7, <2>4, <3>2, <4>1
    <3>3. CASE q \notin mem.free
      <4>1. q \in Users0
        BY <2>3, <3>1, <3>3
      <4>2. mem.ref[q] = 1
        BY <2>1, <4>1 DEF Forest, Users0
      <4> QED
        BY <1>6, <1>7, <4>1, <4>2
    <3> QED
      BY <3>2, <3>3
  <2>7. uses[q] <= 1
    BY <1>7
  <2> QED
    BY <2>4, <2>5, <2>6, <2>7
<1> QED
  BY <1>8 DEF PagesUsedOnce, u, uses

\* No page is used twice, by two processes, for two addresses, or as a table and as memory;
\* none that is used is free; a page of a program has exactly one reference; what nobody
\* uses is free, but for page tables.
THEOREM PagesOnce == Spec => []PagesUsedOnce
<1>1. Init => ForestInv
  BY InitForest
<1>2. ForestInv /\ [Next]_vars => ForestInv'
  BY NextForest
<1>3. ForestInv => PagesUsedOnce
  BY ForestPages
<1> QED
  BY <1>1, <1>2, <1>3, PTL DEF Spec

\* All variables have their types; no reference count is ever negative.
THEOREM TypeCorrect == Spec => []TypeOK
<1>1. Init => ForestInv
  BY InitForest
<1>2. ForestInv /\ [Next]_vars => ForestInv'
  BY NextForest
<1>3. ForestInv => TypeOK
  <2> SUFFICES ASSUME ForestInv PROVE TypeOK
    OBVIOUS
  <2>1. mem \in Mem /\ \A q \in Page : mem.ref[q] \in Nat
    BY DEF ForestInv, Good
  <2>2. mem.ref \in [Page -> Nat]
    BY <2>1, MemFields
  <2>3. mem \in [free : SUBSET Page, ref : [Page -> Nat], table : [Page -> [Index -> Page \cup {invalid}]],
                 data : [Page -> Value \cup {TABLE, BOOT}], panic : BOOLEAN]
    BY <2>1, <2>2, MemFields DEF Content
  <2> QED
    BY <2>3 DEF ForestInv, SatpInv, TypeInv, TypeOK, Space
<1> QED
  BY <1>1, <1>2, <1>3, PTL DEF Spec
-----------------------------------------------------------------------------
(* A memory for each process. *)

\* What a program finds that uses the page directory r, and what each process finds.
Sees(m, r) == [la \in Addr |-> IF pte(m, r, la) = invalid THEN NULL ELSE m.data[pte(m, r, la)]]
nothing == [la \in Addr |-> NULL]
Memories(m, f) == [p \in Thread |-> IF f[p] = none THEN nothing ELSE Sees(m, f[p].pgdir)]

\* The processor uses the page directory of the current process.
LEMMA ViewIsMemories == SatpInv => view = Memories(mem, mm)
<1> SUFFICES ASSUME SatpInv PROVE view = Memories(mem, mm)
  OBVIOUS
<1>1. mm[current] # none => satp = mm[current].pgdir
  BY DEF SatpInv, SatpCurrent
<1>2. ASSUME NEW p \in Thread, mm[p] # none
      PROVE  (IF p = current THEN satp ELSE mm[p].pgdir) = mm[p].pgdir
  BY <1>1, <1>2
<1>3. ASSUME NEW p \in Thread PROVE view[p] = Memories(mem, mm)[p]
  <2>1. CASE mm[p] = none
    BY <2>1 DEF view, Memories, nothing
  <2>2. CASE mm[p] # none
    <3> DEFINE r == IF p = current THEN satp ELSE mm[p].pgdir
    <3>1. view[p] = [la \in Addr |-> IF pte(mem, r, la) = invalid THEN NULL ELSE mem.data[pte(mem, r, la)]]
      BY <2>2 DEF view
    <3>2. r = mm[p].pgdir
      BY <1>2, <2>2
    <3> HIDE DEF r
    <3> QED
      BY <2>2, <3>1, <3>2 DEF Memories, Sees
  <2> QED
    BY <2>1, <2>2
<1>4. view = [p \in Thread |-> view[p]]
  BY DEF view
<1>5. Memories(mem, mm) = [p \in Thread |-> Memories(mem, mm)[p]]
  BY DEF Memories
<1> QED
  BY <1>3, <1>4, <1>5

\* A process sees no step that leaves its pages as they are,
LEMMA SeesSame ==
  ASSUME NEW m, NEW n, NEW r, \A la \in Addr : Agrees(m, n, r, la)
  PROVE  Sees(n, r) = Sees(m, r)
BY DEF Sees, Agrees

\* and a store at the one address.
LEMMA SeesOne ==
  ASSUME NEW m, NEW n, NEW r \in Roots(m), NEW la \in Addr, Edited(m, n, r, {la}), pte(n, r, la) # invalid
  PROVE  Sees(n, r) = [Sees(m, r) EXCEPT ![la] = n.data[pte(n, r, la)]]
<1>1. \A lb \in Addr : lb # la => Agrees(m, n, r, lb)
  BY DEF Edited
<1>2. \A lb \in Addr : lb # la => Sees(n, r)[lb] = Sees(m, r)[lb]
  BY <1>1 DEF Sees, Agrees
<1>3. Sees(n, r)[la] = n.data[pte(n, r, la)]
  BY DEF Sees
<1>4. Sees(n, r) = [lb \in Addr |-> Sees(n, r)[lb]] /\ Sees(m, r) = [lb \in Addr |-> Sees(m, r)[lb]]
  BY DEF Sees
<1> QED
  BY <1>2, <1>3, <1>4

\* All but p keep their pages.
Others(m, n, f, p) == \A q \in Thread : q # p /\ f[q] # none => \A la \in Addr : Agrees(m, n, f[q].pgdir, la)

\* p turns to the address space s, and finds x there.
Turns(f, g, p, s) == g = [f EXCEPT ![p] = s]
Finds(n, s, x) == IF s = none THEN x = nothing ELSE x = Sees(n, s.pgdir)

\* One process gets another address space, the others keep theirs.
LEMMA OneChanges ==
  ASSUME NEW m, NEW n, NEW f \in [Thread -> Space \cup {none}], NEW g, NEW p \in Thread, NEW s, Turns(f, g, p, s),
         Others(m, n, f, p), NEW x, Finds(n, s, x)
  PROVE  Memories(n, g) = [Memories(m, f) EXCEPT ![p] = x]
<1>1. g[p] = s /\ \A q \in Thread : q # p => g[q] = f[q]
  BY DEF Turns
<1>2. Memories(n, g)[p] = x
  BY <1>1 DEF Memories, Finds
<1>3. ASSUME NEW q \in Thread, q # p PROVE Memories(n, g)[q] = Memories(m, f)[q]
  <2>1. g[q] = f[q]
    BY <1>1, <1>3
  <2>2. CASE f[q] = none
    BY <2>1, <2>2 DEF Memories
  <2>3. CASE f[q] # none
    <3>1. Sees(n, f[q].pgdir) = Sees(m, f[q].pgdir)
      BY <1>3, <2>3, SeesSame DEF Others
    <3> QED
      BY <2>1, <2>3, <3>1 DEF Memories
  <2> QED
    BY <2>2, <2>3
<1>4. /\ Memories(n, g) = [q \in Thread |-> Memories(n, g)[q]]
      /\ Memories(m, f) = [q \in Thread |-> Memories(m, f)[q]]
  BY DEF Memories
<1> QED
  BY <1>2, <1>3, <1>4

\* Nobody sees that a process gives its address space back but this process.
LEMMA DropSeen ==
  ASSUME NEW m, Good(m, {}), NEW f \in [Thread -> Space \cup {none}], Spaces(m, f), NEW p \in Thread,
         NEW g, Turns(f, g, p, none)
  PROVE  Memories(drop(m, f[p]), g) = [Memories(m, f) EXCEPT ![p] = nothing]
<1> DEFINE n == drop(m, f[p])
<1>1. ASSUME NEW q \in Thread, q # p, f[q] # none, NEW la \in Addr PROVE Agrees(m, n, f[q].pgdir, la)
  <2>1. CASE f[p] = none
    BY <2>1 DEF drop, Agrees
  <2>2. CASE f[p] # none
    <3> DEFINE s == f[p]
    <3>1. s \in Space /\ s.pgdir \in Roots(m) /\ Within(m, s.pgdir, Extents(s.vmas, 1))
      BY <2>2, SpacesFact
    <3>2. f[q].pgdir \in Roots(m) /\ f[q].pgdir # s.pgdir
      BY <1>1, <2>2 DEF Spaces
    <3> HIDE DEF s
    <3>3. Roots(drop(m, s)) = Roots(m) \ {s.pgdir} /\ \A r \in Roots(drop(m, s)), lb \in Addr : Agrees(m, drop(m, s), r, lb)
      BY <3>1, DropGood
    <3> QED
      BY <3>2, <3>3 DEF s
  <2> QED
    BY <2>1, <2>2
<1> HIDE DEF n
<1>2. Others(m, n, f, p) /\ Finds(n, none, nothing)
  BY <1>1 DEF Others, Finds
<1> QED
  BY <1>2, OneChanges DEF n

\* A program that was loaded sees the image of its segments.
LEMMA FreshImage ==
  ASSUME NEW n, Good(n, {}), NEW r \in Roots(n), NEW prog \in Program, Ready(n, r, prog)
  PROVE  \E img \in images : Private!Fresh(Sees(n, r), img)
<1> DEFINE dom == {la \in Addr : segments(prog, la) # {}}
           img == [la \in dom |-> prog[CHOOSE i \in segments(prog, la) : TRUE].image]
<1>1. prog \in Seq(Segment) /\ prog \in {q \in Program : \A i \in DOMAIN q : ~q[i].bad}
  BY AddressSpaceAssumption DEF Ready
<1>2. img \in images
  BY <1>1 DEF images
<1>3. ASSUME NEW la \in Addr, NEW i \in DOMAIN prog PROVE i \in segments(prog, la) <=> la \in Extent(prog[i])
  <2>1. prog[i] \in Segment
    BY <1>1, ElementOfSeq, LenProperties
  <2>2. prog[i].vm_start \in Nat /\ prog[i].vm_end \in Nat /\ la \in Nat
    BY <2>1, Sizes DEF Segment, Addr
  <2>3. la \in Extent(prog[i]) <=> prog[i].vm_start <= la /\ la < prog[i].vm_end
    BY <2>2 DEF Extent
  <2> QED
    BY <2>3 DEF segments
<1>4. ASSUME NEW la \in dom PROVE Sees(n, r)[la] = img[la]
  <2> DEFINE i == CHOOSE k \in segments(prog, la) : TRUE
  <2>1. i \in segments(prog, la) /\ i \in DOMAIN prog /\ la \in Addr
    BY DEF segments
  <2>2. img[la] = prog[i].image
    OBVIOUS
  <2> HIDE DEF i, img
  <2>3. la \in Extent(prog[i])
    BY <1>3, <2>1
  <2>4. pte(n, r, la) # invalid /\ n.data[pte(n, r, la)] = prog[i].image
    BY <2>1, <2>3 DEF Ready
  <2> QED
    BY <2>1, <2>2, <2>4 DEF Sees
<1>5. ASSUME NEW la \in Addr, la \notin dom
      PROVE  IF la \in StackPages THEN Sees(n, r)[la] \in Value ELSE Sees(n, r)[la] = NULL
  <2>1. \A i \in DOMAIN prog : la \notin Extent(prog[i])
    BY <1>3, <1>5
  <2>2. pte(n, r, la) # invalid <=> la \in StackPages
    BY <2>1 DEF Ready
  <2>3. pte(n, r, la) # invalid => n.data[pte(n, r, la)] \in Value
    BY MappedFacts
  <2> QED
    BY <2>2, <2>3 DEF Sees
<1>6. DOMAIN img = dom
  OBVIOUS
<1> HIDE DEF img, dom
<1>7. Private!Fresh(Sees(n, r), img)
  BY <1>4, <1>5, <1>6 DEF Private!Fresh, StackPages
<1> QED
  BY <1>2, <1>7

\* fork, as seen.
LEMMA ForkSeen ==
  ASSUME ForestInv, NEW c \in Proc, Fork(c), view = Memories(mem, mm), view' = Memories(mem', mm')
  PROVE  Private!Fork(c) \/ UNCHANGED <<view, current>>
<1> DEFINE from == mm[current]
<1>1. SatpInv /\ Good(mem, {}) /\ Spaces(mem, mm) /\ mm \in [Thread -> Space \cup {none}] /\ current \in Thread
  BY Facts DEF ForestInv
<1>2. c \in Thread /\ mm[c] = none
  BY <1>1 DEF Fork, SatpInv, OnlyTheLiving, Thread
<1>3. Elsewhere(mem, mem') /\ Forked(c)
  BY ForkForest
<1>4. current' = current
  BY DEF Fork
<1>5. Others(mem, mem', mm, c)
  BY <1>3 DEF Others, Elsewhere, Spaces, ForestInv
<1>6. CASE from = none
  <2>1. mm' = mm /\ mem' = mem
    BY <1>6 DEF Fork
  <2> QED
    BY <1>4, <2>1
<1>7. CASE from # none
  <2>1. PICK new \in Space :
          /\ mm' = [mm EXCEPT ![c] = new] /\ from.pgdir \in Roots(mem)
          /\ Within(mem, from.pgdir, Extents(from.vmas, 1))
          /\ CopyOf(mem', new.pgdir, from.pgdir) /\ HasCopies(mem', new.pgdir, from.pgdir, Extents(from.vmas, 1))
    BY <1>3, <1>7 DEF Forked
  <2>2. c # current
    BY <1>2, <1>7
  <2> HIDE DEF from
  <2>3. ASSUME NEW la \in Addr PROVE Agrees(mem, mem', from.pgdir, la)
    BY <1>3, <2>1 DEF Elsewhere
  <2>4. Sees(mem', from.pgdir) = Sees(mem, from.pgdir)
    BY <2>3, SeesSame
  <2>5. ASSUME NEW la \in Addr PROVE Sees(mem', new.pgdir)[la] = Sees(mem', from.pgdir)[la]
    <3>1. pte(mem', from.pgdir, la) = pte(mem, from.pgdir, la)
      BY <2>3 DEF Agrees
    <3>2. pte(mem', from.pgdir, la) # invalid => pte(mem', new.pgdir, la) # invalid
      BY <3>1, <2>1 DEF Within, HasCopies
    <3>3. pte(mem', new.pgdir, la) # invalid =>
            /\ pte(mem', from.pgdir, la) # invalid
            /\ mem'.data[pte(mem', new.pgdir, la)] = mem'.data[pte(mem', from.pgdir, la)]
      BY <2>1 DEF CopyOf
    <3> QED
      BY <3>2, <3>3 DEF Sees
  <2>6. Sees(mem', new.pgdir) = Sees(mem, from.pgdir)
    <3>1. Sees(mem', new.pgdir) = Sees(mem', from.pgdir)
      <4>1. /\ Sees(mem', new.pgdir) = [la \in Addr |-> Sees(mem', new.pgdir)[la]]
            /\ Sees(mem', from.pgdir) = [la \in Addr |-> Sees(mem', from.pgdir)[la]]
        BY DEF Sees
      <4> QED
        BY <2>5, <4>1
    <3> QED
      BY <2>4, <3>1
  <2>7. Memories(mem, mm)[current] = Sees(mem, from.pgdir) /\ Memories(mem, mm)[c] = nothing
    BY <1>1, <1>2, <1>7 DEF Memories, from
  <2>8. Turns(mm, mm', c, new) /\ Finds(mem', new, Sees(mem', new.pgdir))
    <3>1. new # none
      BY SpaceFacts
    <3> QED
      BY <2>1, <3>1 DEF Turns, Finds
  <2>9. Memories(mem', mm') = [Memories(mem, mm) EXCEPT ![c] = Sees(mem', new.pgdir)]
    BY <1>1, <1>2, <1>5, <2>8, OneChanges
  <2>10. view' = [view EXCEPT ![c] = view[current]] /\ view[c] = Private!none
    BY <2>6, <2>7, <2>9 DEF Private!none, nothing
  <2> QED
    BY <1>4, <2>2, <2>10 DEF Private!Fork
<1> QED
  BY <1>6, <1>7

\* The current process stores something at la.
LEMMA StoreSeen ==
  ASSUME ForestInv, NEW la \in Addr, mm[current] # none, mm' = mm, current' = current, Good(mem', {}),
         Edited(mem, mem', mm[current].pgdir, {la}), pte(mem', mm[current].pgdir, la) # invalid,
         view = Memories(mem, mm), view' = Memories(mem', mm')
  PROVE  Private!Store(la)
<1> DEFINE r == mm[current].pgdir
           v == mem'.data[pte(mem', r, la)]
<1>1. Good(mem, {}) /\ Spaces(mem, mm) /\ mm \in [Thread -> Space \cup {none}] /\ current \in Thread
  BY Facts DEF ForestInv
<1>2. r \in Roots(mem) /\ r \in Roots(mem')
  BY <1>1, SpacesFact DEF Edited
<1>3. Others(mem, mem', mm, current)
  <2>1. ASSUME NEW q \in Thread, q # current, mm[q] # none PROVE mm[q].pgdir \in Roots(mem) /\ mm[q].pgdir # r
    BY <1>1, <2>1 DEF Spaces
  <2> QED
    BY <2>1 DEF Others, Edited
<1>4. pte(mem', r, la) # invalid
  OBVIOUS
<1>5. Edited(mem, mem', r, {la})
  OBVIOUS
<1> HIDE DEF r
<1>6. v \in Value
  BY <1>2, <1>4, MappedFacts
<1>7. Sees(mem', r) = [Sees(mem, r) EXCEPT ![la] = v]
  BY <1>2, <1>4, <1>5, SeesOne
<1> HIDE DEF v
<1>8. Turns(mm, mm', current, mm[current]) /\ Finds(mem', mm[current], Sees(mem', r))
  BY <1>1 DEF Turns, Finds, r
<1>9. view' = [view EXCEPT ![current] = Sees(mem', r)]
  BY <1>1, <1>3, <1>8, OneChanges
<1>10. view[current] = Sees(mem, r)
  BY <1>1 DEF Memories, r
<1> HIDE DEF r
<1>11. view' = [view EXCEPT ![current][la] = v]
  BY <1>7, <1>9, <1>10
<1> QED
  BY <1>6, <1>11 DEF Private!Store

\* exec, as seen.
LEMMA ExecSeen ==
  ASSUME ForestInv, NEW prog \in Program, Exec(prog), view = Memories(mem, mm), view' = Memories(mem', mm')
  PROVE  Private!Run \/ Private!End
<1> DEFINE d == drop(mem, mm[current])
           g == [mm EXCEPT ![current] = none]
<1>1. SatpInv /\ Good(mem, {}) /\ Spaces(mem, mm) /\ mm \in [Thread -> Space \cup {none}] /\ current \in Thread
  BY Facts DEF ForestInv
<1>2. Good(d, {}) /\ Spaces(d, g)
  BY <1>1, SpacesDropped
<1>3. Turns(mm, g, current, none)
  BY DEF Turns
<1>4. Memories(d, g) = [view EXCEPT ![current] = nothing]
  BY <1>1, <1>3, DropSeen
<1>5. load_icode(d, prog) /\ current # initproc
  BY DEF Exec
<1>6. g \in [Thread -> Space \cup {none}] /\ g[current] = none
  BY <1>1
<1> HIDE DEF d
<1>7. Good(mem', {}) /\ Spaces(mem', mm') /\ Elsewhere(d, mem') /\ Started(prog)
  BY <1>1, <1>2, <1>5, LoadForest
<1>8. Others(d, mem', g, current)
  BY <1>2, <1>7 DEF Others, Elsewhere, Spaces
<1>9. ASSUME NEW s, NEW x, mm' = [mm EXCEPT ![current] = s], Finds(mem', s, x)
      PROVE  view' = [view EXCEPT ![current] = x]
  <2>1. Turns(g, mm', current, s)
    BY <1>9 DEF Turns
  <2> HIDE DEF g
  <2>2. view' = [Memories(d, g) EXCEPT ![current] = x]
    BY <1>1, <1>6, <1>8, <1>9, <2>1, OneChanges
  <2>3. [Memories(d, g) EXCEPT ![current] = x] = [view EXCEPT ![current] = x]
    BY <1>4
  <2> QED
    BY <2>2, <2>3
<1> HIDE DEF g
<1>10. CASE mm' = [mm EXCEPT ![current] = none] /\ current' \in Thread \ {current}
  <2>1. Finds(mem', none, nothing)
    BY DEF Finds
  <2>2. view' = [view EXCEPT ![current] = nothing]
    BY <1>9, <1>10, <2>1
  <2> QED
    BY <1>10, <2>2 DEF Private!End, Private!none, nothing
<1>11. ASSUME NEW new \in Space, mm' = [mm EXCEPT ![current] = new], current' = current, Ready(mem', new.pgdir, prog)
       PROVE  Private!Run
  <2> DEFINE x == Sees(mem', new.pgdir)
  <2>1. new # none
    BY SpaceFacts
  <2>2. mm'[current] = new
    BY <1>1, <1>11
  <2>3. new.pgdir \in Roots(mem')
    BY <1>1, <1>7, <2>1, <2>2 DEF Spaces
  <2>4. PICK img \in images : Private!Fresh(x, img)
    BY <1>7, <1>11, <2>3, FreshImage
  <2> HIDE DEF x
  <2>5. Finds(mem', new, x)
    BY <2>1 DEF Finds, x
  <2>6. view' = [view EXCEPT ![current] = x]
    BY <1>9, <1>11, <2>5
  <2>7. view'[current] = x
    BY <1>1, <2>6 DEF Memories
  <2> QED
    BY <1>11, <2>4, <2>6, <2>7 DEF Private!Run
<1> QED
  BY <1>7, <1>10, <1>11 DEF Started

\* exit, as seen.
LEMMA ExitSeen ==
  ASSUME ForestInv, Exit, view = Memories(mem, mm), view' = Memories(mem', mm')
  PROVE  Private!End
<1> DEFINE d == drop(mem, mm[current])
           g == [mm EXCEPT ![current] = none]
<1>1. SatpInv /\ Good(mem, {}) /\ Spaces(mem, mm) /\ mm \in [Thread -> Space \cup {none}] /\ current \in Thread
      /\ alive \subseteq Thread /\ initproc \in Thread
  BY Facts DEF ForestInv
<1>2. Turns(mm, g, current, none)
  BY DEF Turns
<1>3. Memories(d, g) = [view EXCEPT ![current] = nothing]
  BY <1>1, <1>2, DropSeen
<1>4. do_exit(d) /\ current # initproc
  BY DEF Exit
<1> HIDE DEF d
<1>5. mem' = d /\ mm' = g /\ current' \in Thread \ {current}
  BY <1>1, <1>4 DEF do_exit, goes
<1> HIDE DEF g
<1> QED
  BY <1>3, <1>5 DEF Private!End, Private!none, nothing

\* What a step does to the memories of the processes PrivateMemory allows.
LEMMA NextSeen ==
  ASSUME ForestInv, [Next]_vars, view = Memories(mem, mm), view' = Memories(mem', mm')
  PROVE  Private!Next \/ UNCHANGED <<view, current>>
<1>1. current \in Thread /\ Proc \subseteq Thread /\ Written \subseteq Addr
  BY Facts, AddressSpaceAssumption DEF ForestInv, Thread
<1>2. ASSUME NEW p \in Thread, Switch(p) PROVE Private!Next
  <2>1. view' = view /\ current' \in Thread
    BY <1>2 DEF Switch
  <2> QED
    BY <2>1 DEF Private!Next, Private!Switch
<1>3. ASSUME NEW c \in Proc, Fork(c) PROVE Private!Next \/ UNCHANGED <<view, current>>
  <2>1. Private!Fork(c) \/ UNCHANGED <<view, current>>
    BY <1>3, ForkSeen
  <2> QED
    BY <1>1, <2>1 DEF Private!Next
<1>4. ASSUME NEW prog \in Program, Exec(prog) PROVE Private!Next
  <2>1. Private!Run \/ Private!End
    BY <1>4, ExecSeen
  <2> QED
    BY <2>1 DEF Private!Next
<1>5. ASSUME Exit PROVE Private!Next
  <2>1. Private!End
    BY <1>5, ExitSeen
  <2> QED
    BY <2>1 DEF Private!Next
<1>6. ASSUME NEW la \in Written, NEW v \in Value, Write(la, v) PROVE Private!Next
  <2>1. /\ Good(mem', {}) /\ Edited(mem, mem', mm[current].pgdir, {la})
        /\ pte(mem', mm[current].pgdir, la) # invalid
    BY <1>6, WriteForest
  <2>2. la \in Addr /\ mm[current] # none /\ mm' = mm /\ current' = current
    BY <1>1, <1>6 DEF Write, in_user
  <2>3. Private!Store(la)
    BY <2>1, <2>2, StoreSeen
  <2> QED
    BY <2>2, <2>3 DEF Private!Next
<1>7. ASSUME NEW la \in Addr, Fault(la) PROVE Private!Next
  <2>1. /\ Good(mem', {}) /\ Edited(mem, mem', mm[current].pgdir, {la})
        /\ pte(mem', mm[current].pgdir, la) # invalid
    BY <1>7, FaultForest
  <2>2. mm[current] # none /\ mm' = mm /\ current' = current
    BY <1>7 DEF Fault, in_user
  <2>3. Private!Store(la)
    BY <2>1, <2>2, StoreSeen
  <2> QED
    BY <2>3 DEF Private!Next
<1>8. CASE UNCHANGED vars
  BY <1>8 DEF vars
<1> QED
  BY <1>2, <1>3, <1>4, <1>5, <1>6, <1>7, <1>8 DEF Next

\* Before and after a step.
LEMMA ViewNext == ForestInv' => view' = Memories(mem', mm')
<1>1. ForestInv => view = Memories(mem, mm)
  BY ViewIsMemories DEF ForestInv
<1>2. (ForestInv => view = Memories(mem, mm))'
  BY <1>1, PTL
<1> QED
  BY <1>2

\* The page tables give each process a memory of its own: only its own steps change what it
\* finds there, a child starts with a copy of its parent's, and a new program with its image.
\* It is so for any programs: one whose segments overlap is refused, or stops the kernel.
THEOREM MemoryPrivate == Spec => ImplementsPrivate
<1>1. Init => Private!Init
  <2> SUFFICES ASSUME Init PROVE Private!Init
    OBVIOUS
  <2>1. \A p \in Thread : mm[p] = none
    BY DEF Init
  <2>2. view = [p \in Thread |-> Private!none]
    BY <2>1 DEF view, Private!none
  <2>3. current \in Thread
    BY DEF Init, Thread
  <2> QED
    BY <2>2, <2>3 DEF Private!Init
<1>2. ForestInv => view = Memories(mem, mm)
  BY ViewIsMemories DEF ForestInv
<1>3. ForestInv' => view' = Memories(mem', mm')
  BY ViewNext
<1>4. ForestInv /\ [Next]_vars => [Private!Next]_<<view, current>>
  BY <1>2, <1>3, NextForest, NextSeen
<1> QED
  BY <1>1, <1>4, InitForest, NextForest, PTL DEF Spec, ImplementsPrivate, Private!Spec
=============================================================================
