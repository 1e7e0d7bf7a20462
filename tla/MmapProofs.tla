----------------------------- MODULE MmapProofs -----------------------------
(***************************************************************************)
(* Proofs about module Mmap, for address spaces and pages of any size.     *)
(***************************************************************************)
EXTENDS Mmap, ListProofs

\* What is on the list.
Area == [vm_start : Addr, vm_end : Addr, vm_flags : Flags]

\* The inductive invariant: Sorted needs to know what the list holds, and the answers of
\* find_vma need that mmap_cache is an area of the list.
IInv ==
  /\ mmap_list \in Seq(Area)
  /\ mmap_cache \in Areas(mmap_list) \cup {NULL}
  /\ Sorted

-----------------------------------------------------------------------------
(* The operators. *)

\* Rounding leaves a number.
LEMMA RoundType ==
  ASSUME NEW a \in Int
  PROVE  ROUNDDOWN(a) \in Int /\ ROUNDUP(a) \in Int
<1>1. PGSIZE \in Nat \ {0}
  BY MmapAssumption
<1>2. \A b \in Int : b % PGSIZE \in Int
  BY <1>1
<1>3. \A b \in Int : ROUNDDOWN(b) \in Int
  BY <1>2 DEF ROUNDDOWN
<1> QED
  BY <1>1, <1>3 DEF ROUNDUP

\* What the list holds.
LEMMA AreaFacts ==
  ASSUME NEW list \in Seq(Area)
  PROVE  /\ DOMAIN list = 1..Len(list) /\ Len(list) \in Nat
         /\ \A i \in 1..Len(list) : list[i] \in Area
         /\ \A i \in 1..Len(list) :
              /\ list[i].vm_start \in Addr /\ list[i].vm_end \in Addr
              /\ list[i].vm_start \in Int /\ list[i].vm_end \in Int
              /\ list[i] # NULL
<1>1. DOMAIN list = 1..Len(list) /\ Len(list) \in Nat
  BY LenProperties
<1>2. \A i \in 1..Len(list) : list[i] \in Area
  BY <1>1, ElementOfSeq
<1>3. \A a \in Area : a.vm_start \in Addr /\ a.vm_end \in Addr /\ a.vm_flags \in Flags
  BY DEF Area
<1>4. Addr \subseteq Nat
  BY MmapAssumption DEF Addr
<1>5. NULL \notin Area
  BY <1>4, MmapAssumption DEF Area
<1>6. ASSUME NEW i \in 1..Len(list)
      PROVE  /\ list[i].vm_start \in Addr /\ list[i].vm_end \in Addr
             /\ list[i].vm_start \in Int /\ list[i].vm_end \in Int
             /\ list[i] # NULL
  <2>1. list[i] \in Area
    BY <1>2
  <2>2. list[i].vm_start \in Addr /\ list[i].vm_end \in Addr
    BY <1>3, <2>1
  <2>3. list[i] # NULL
    BY <1>5, <2>1
  <2>4. Addr \subseteq Int
    BY <1>4
  <2>5. list[i].vm_start \in Int /\ list[i].vm_end \in Int
    BY <2>2, <2>4
  <2> QED
    BY <2>2, <2>3, <2>5
<1> QED
  BY <1>1, <1>2, <1>6

\* find_vma with an area of the list in the cache, or none: an area that has addr, if there
\* is one.
LEMMA FindVma ==
  ASSUME NEW list \in Seq(Area), NEW cache \in Areas(list) \cup {NULL}, NEW addr
  PROVE  LET vma == find_vma(list, cache, addr)
         IN  \/ vma = NULL /\ \A v \in Areas(list) : ~has(v, addr)
             \/ vma # NULL /\ vma \in Areas(list) /\ has(vma, addr)
<1> DEFINE hits == {i \in DOMAIN list : has(list[i], addr)}
<1>1. DOMAIN list = 1..Len(list) /\ \A v \in Areas(list) : v # NULL
  BY AreaFacts DEF Areas
<1>2. CASE cache # NULL /\ has(cache, addr)
  BY <1>2 DEF find_vma
<1>3. CASE ~(cache # NULL /\ has(cache, addr)) /\ hits = {}
  BY <1>3 DEF find_vma, Areas
<1>4. CASE ~(cache # NULL /\ has(cache, addr)) /\ hits # {}
  <2>1. hits \in SUBSET Nat
    BY <1>1
  <2>2. \E i \in hits : \A j \in hits : i <= j
    <3> HIDE DEF hits
    <3> QED
      BY <1>4, <2>1, LeastNat
  <2> DEFINE i == CHOOSE k \in hits : \A j \in hits : k <= j
  <2>3. i \in hits
    <3> HIDE DEF hits
    <3> QED
      BY <2>2
  <2>4. find_vma(list, cache, addr) = list[i]
    BY <1>4 DEF find_vma
  <2>5. list[i] \in Areas(list) /\ has(list[i], addr)
    <3> HIDE DEF i
    <3> QED
      BY <2>3 DEF Areas
  <2> QED
    BY <1>1, <2>4, <2>5
<1> QED
  BY <1>2, <1>3, <1>4

\* Areas that are sorted and disjoint: Sorted says so of mmap_list.
SortedList(list) ==
  /\ \A i \in DOMAIN list : list[i].vm_start < list[i].vm_end
  /\ \A i, j \in DOMAIN list : i < j => list[i].vm_end <= list[j].vm_start

\* In a sorted list no two areas have the same address.
LEMMA OneArea ==
  ASSUME NEW list \in Seq(Area), SortedList(list), NEW addr \in Int,
         NEW v \in Areas(list), NEW w \in Areas(list), has(v, addr), has(w, addr)
  PROVE  v = w
<1>1. PICK i \in DOMAIN list : v = list[i]
  BY DEF Areas
<1>2. PICK j \in DOMAIN list : w = list[j]
  BY DEF Areas
<1>3. /\ i \in Int /\ j \in Int
      /\ list[i].vm_start \in Int /\ list[i].vm_end \in Int
      /\ list[j].vm_start \in Int /\ list[j].vm_end \in Int
  BY <1>1, <1>2, AreaFacts
<1>4. ~(i < j) /\ ~(j < i)
  BY <1>1, <1>2, <1>3 DEF has, SortedList
<1> QED
  BY <1>1, <1>2, <1>3, <1>4

\* place: the areas before it start at vma's start or below, the one there above.
LEMMA Place ==
  ASSUME NEW list \in Seq(Area), NEW vma, vma.vm_start \in Int
  PROVE  /\ place(list, vma) \in 1..(Len(list) + 1)
         /\ \A j \in 1..Len(list) :
              /\ j < place(list, vma) => list[j].vm_start <= vma.vm_start
              /\ j = place(list, vma) => list[j].vm_start > vma.vm_start
<1> DEFINE above == {i \in DOMAIN list : list[i].vm_start > vma.vm_start}
<1>1. /\ DOMAIN list = 1..Len(list) /\ Len(list) \in Nat
      /\ \A i \in 1..Len(list) : list[i].vm_start \in Int
  BY AreaFacts
<1>2. CASE above = {}
  <2>1. place(list, vma) = Len(list) + 1
    BY <1>2 DEF place
  <2> QED
    BY <1>1, <1>2, <2>1
<1>3. CASE above # {}
  <2>1. above \in SUBSET Nat
    BY <1>1
  <2>2. \E i \in above : \A j \in above : i <= j
    <3> HIDE DEF above
    <3> QED
      BY <1>3, <2>1, LeastNat
  <2> DEFINE m == CHOOSE i \in above : \A j \in above : i <= j
  <2>3. m \in above /\ \A j \in above : m <= j
    <3> HIDE DEF above
    <3> QED
      BY <2>2
  <2>4. place(list, vma) = m
    BY <1>3 DEF place
  <2> HIDE DEF m
  <2>5. \A j \in 1..Len(list) : j < m => list[j].vm_start <= vma.vm_start
    BY <1>1, <2>1, <2>3
  <2> QED
    BY <1>1, <2>3, <2>4, <2>5
<1> QED
  BY <1>2, <1>3

\* What insert_vma_struct makes of a list of areas.
LEMMA InsertType ==
  ASSUME NEW list \in Seq(Area), NEW vma \in Area, vma.vm_start \in Int
  PROVE  LET l == insert_vma_struct(list, vma)
             k == place(list, vma)
         IN  /\ l \in Seq(Area)
             /\ Len(l) = Len(list) + 1
             /\ \A i \in 1..Len(l) :
                   l[i] = IF i < k THEN list[i] ELSE IF i = k THEN vma ELSE list[i - 1]
<1> DEFINE k == place(list, vma)
           l == InsertAt(list, k, vma)
<1>1. k \in 1..(Len(list) + 1)
  BY Place
<1> HIDE DEF k
<1>2. l \in Seq(Area)
  BY <1>1, ListInsert
<1>3. Len(l) = Len(list) + 1
  BY <1>1, ListInsert
<1>4. \A i \in 1..Len(l) : l[i] = IF i < k THEN list[i] ELSE IF i = k THEN vma ELSE list[i - 1]
  BY <1>1, ListInsert
<1> HIDE DEF l
<1>5. insert_vma_struct(list, vma) = l
  BY DEF insert_vma_struct, k, l
<1> QED
  BY <1>2, <1>3, <1>4, <1>5 DEF k

\* Where the assertions of insert_vma_struct hold, vma is between the areas.
LEMMA Between ==
  ASSUME NEW list \in Seq(Area), SortedList(list), NEW vma,
         vma.vm_start \in Int, vma.vm_end \in Int, overlap_asserts(list, vma)
  PROVE  LET k == place(list, vma)
         IN  /\ \A i \in 1..Len(list) : i < k => list[i].vm_end <= vma.vm_start
             /\ \A i \in 1..Len(list) : k <= i => vma.vm_end <= list[i].vm_start
<1> DEFINE k == place(list, vma)
           n == Len(list)
<1>1. /\ DOMAIN list = 1..n /\ n \in Nat
      /\ \A i \in 1..n : list[i].vm_start \in Int /\ list[i].vm_end \in Int
  BY AreaFacts
<1>2. k \in 1..(n + 1)
  BY Place
<1>3. /\ k > 1 => list[k - 1].vm_end <= vma.vm_start
      /\ k <= n => vma.vm_end <= list[k].vm_start
  BY DEF overlap_asserts
<1>4. /\ \A i \in 1..n : list[i].vm_start < list[i].vm_end
      /\ \A i, j \in 1..n : i < j => list[i].vm_end <= list[j].vm_start
  BY <1>1 DEF SortedList
<1> HIDE DEF k, n
<1>5. ASSUME NEW i \in 1..n, i < k PROVE list[i].vm_end <= vma.vm_start
  <2>1. CASE i = k - 1
    BY <1>1, <1>2, <1>3, <2>1
  <2>2. CASE i < k - 1
    <3>1. k - 1 \in 1..n /\ k > 1
      BY <1>1, <1>2, <2>2
    <3>2. /\ list[i].vm_end <= list[k - 1].vm_start
          /\ list[k - 1].vm_start < list[k - 1].vm_end
          /\ list[k - 1].vm_end <= vma.vm_start
      BY <1>3, <1>4, <2>2, <3>1
    <3> QED
      BY <1>1, <3>1, <3>2
  <2> QED
    BY <1>1, <1>2, <1>5, <2>1, <2>2
<1>6. ASSUME NEW i \in 1..n, k <= i PROVE vma.vm_end <= list[i].vm_start
  <2>1. CASE i = k
    BY <1>1, <1>2, <1>3, <2>1
  <2>2. CASE k < i
    <3>1. k \in 1..n
      BY <1>1, <1>2, <2>2
    <3>2. /\ vma.vm_end <= list[k].vm_start
          /\ list[k].vm_start < list[k].vm_end
          /\ list[k].vm_end <= list[i].vm_start
      BY <1>1, <1>3, <1>4, <2>2, <3>1
    <3> QED
      BY <1>1, <3>1, <3>2
  <2> QED
    BY <1>1, <1>2, <1>6, <2>1, <2>2
<1> QED
  BY <1>5, <1>6 DEF k, n

\* insert_vma_struct keeps the list sorted if its assertions hold.
LEMMA InsertSorted ==
  ASSUME NEW list \in Seq(Area), SortedList(list), NEW vma \in Area,
         vma.vm_start \in Int, vma.vm_end \in Int, vma.vm_start < vma.vm_end,
         overlap_asserts(list, vma)
  PROVE  SortedList(insert_vma_struct(list, vma))
<1> DEFINE l == insert_vma_struct(list, vma)
           k == place(list, vma)
           n == Len(list)
<1>1. /\ DOMAIN list = 1..n /\ n \in Nat
      /\ \A i \in 1..n : list[i].vm_start \in Int /\ list[i].vm_end \in Int
  BY AreaFacts
<1>2. k \in 1..(n + 1)
  BY Place
<1>3. /\ l \in Seq(Area) /\ Len(l) = n + 1
      /\ \A i \in 1..(n + 1) : l[i] = IF i < k THEN list[i] ELSE IF i = k THEN vma ELSE list[i - 1]
  BY InsertType
<1>4. DOMAIN l = 1..(n + 1)
  BY <1>3, LenProperties
<1>5. /\ \A i \in 1..n : i < k => list[i].vm_end <= vma.vm_start
      /\ \A i \in 1..n : k <= i => vma.vm_end <= list[i].vm_start
  BY Between
<1>6. /\ \A i \in 1..n : list[i].vm_start < list[i].vm_end
      /\ \A i, j \in 1..n : i < j => list[i].vm_end <= list[j].vm_start
  BY <1>1 DEF SortedList
<1> HIDE DEF l, k, n
<1>7. \A i \in 1..(n + 1) : l[i].vm_start < l[i].vm_end
  <2> TAKE i \in 1..(n + 1)
  <2>1. l[i] = vma \/ \E j \in 1..n : l[i] = list[j]
    BY <1>1, <1>2, <1>3
  <2> QED
    BY <1>6, <2>1
<1>8. ASSUME NEW i \in 1..(n + 1), NEW j \in 1..(n + 1), i < j
       PROVE  l[i].vm_end <= l[j].vm_start
  <2>1. CASE j < k
    <3>1. i \in 1..n /\ j \in 1..n /\ l[i] = list[i] /\ l[j] = list[j]
      BY <1>1, <1>2, <1>3, <1>8, <2>1
    <3> QED
      BY <1>6, <1>8, <3>1
  <2>2. CASE j = k
    <3>1. i \in 1..n /\ i < k /\ l[i] = list[i] /\ l[j] = vma
      BY <1>1, <1>2, <1>3, <1>8, <2>2
    <3> QED
      BY <1>5, <3>1
  <2>3. CASE i = k
    <3>1. j - 1 \in 1..n /\ k <= j - 1 /\ l[i] = vma /\ l[j] = list[j - 1]
      BY <1>1, <1>2, <1>3, <1>8, <2>3
    <3> QED
      BY <1>5, <3>1
  <2>4. CASE k < i
    <3>1. i - 1 \in 1..n /\ j - 1 \in 1..n /\ i - 1 < j - 1 /\ l[i] = list[i - 1] /\ l[j] = list[j - 1]
      BY <1>1, <1>2, <1>3, <1>8, <2>4
    <3> QED
      BY <1>6, <3>1
  <2>5. CASE i < k /\ k < j
    <3>1. i \in 1..n /\ j - 1 \in 1..n /\ i < j - 1 /\ l[i] = list[i] /\ l[j] = list[j - 1]
      BY <1>1, <1>2, <1>3, <1>8, <2>5
    <3> QED
      BY <1>6, <3>1
  <2> QED
    BY <1>1, <1>2, <2>1, <2>2, <2>3, <2>4, <2>5
<1> QED
  BY <1>4, <1>7, <1>8 DEF SortedList, l

-----------------------------------------------------------------------------
(* The steps. *)

\* The areas of a list.
LEMMA AreasOfList ==
  ASSUME NEW list \in Seq(Area)
  PROVE  \A v : v \in Areas(list) <=> \E i \in 1..Len(list) : v = list[i]
BY AreaFacts DEF Areas

\* What mm_map accepts is an area: within the user's addresses, with a byte at least.
LEMMA AcceptedArea ==
  ASSUME NEW list \in Seq(Area), NEW cache, NEW addr \in Addr, NEW len \in Nat,
         NEW vm_flags \in Flags, mm_map(list, cache, addr, len) = "0"
  PROVE  LET a == area(addr, len, vm_flags)
         IN  /\ a \in Area
             /\ a.vm_start \in Int /\ a.vm_end \in Int /\ a.vm_start < a.vm_end
             /\ overlap_asserts(list, a)
<1> DEFINE a == area(addr, len, vm_flags)
           b == area(addr, len, {})
<1>1. /\ a.vm_start = ROUNDDOWN(addr) /\ a.vm_end = ROUNDUP(addr + len) /\ a.vm_flags = vm_flags
      /\ b.vm_start = ROUNDDOWN(addr) /\ b.vm_end = ROUNDUP(addr + len)
      /\ a = [vm_start |-> a.vm_start, vm_end |-> a.vm_end, vm_flags |-> a.vm_flags]
  BY DEF area
<1>2. addr \in Int /\ addr + len \in Int
  BY MmapAssumption DEF Addr
<1>3. a.vm_start \in Int /\ a.vm_end \in Int
  BY <1>1, <1>2, RoundType
<1>4. USER_ACCESS(b.vm_start, b.vm_end) /\ overlap_asserts(list, b)
  BY DEF mm_map
<1>5. place(list, a) = place(list, b)
  <2>1. a.vm_start = b.vm_start
    BY <1>1
  <2> HIDE DEF a, b
  <2> QED
    BY <2>1 DEF place
<1>6. overlap_asserts(list, a)
  BY <1>1, <1>4, <1>5 DEF overlap_asserts
<1>7. a.vm_start \in Addr /\ a.vm_end \in Addr /\ a.vm_start < a.vm_end
  BY <1>1, <1>3, <1>4, MmapAssumption DEF USER_ACCESS, Addr
<1>8. a \in Area
  BY <1>1, <1>7 DEF Area
<1> QED
  BY <1>3, <1>6, <1>7, <1>8

\* mmap_cache after a look-up, on the list or on one with an area more.
LEMMA CacheStep ==
  ASSUME NEW list \in Seq(Area), NEW cache \in Areas(list) \cup {NULL}, NEW addr
  PROVE  caches(cache, find_vma(list, cache, addr)) \in Areas(list) \cup {NULL}
BY FindVma DEF caches

\* insert_vma_struct drops no area.
LEMMA InsertKeeps ==
  ASSUME NEW list \in Seq(Area), NEW vma \in Area, vma.vm_start \in Int
  PROVE  Areas(list) \subseteq Areas(insert_vma_struct(list, vma))
<1> DEFINE l == insert_vma_struct(list, vma)
           k == place(list, vma)
           n == Len(list)
<1>1. n \in Nat /\ k \in 1..(n + 1)
  BY AreaFacts, Place
<1>2. /\ l \in Seq(Area) /\ Len(l) = n + 1
      /\ \A i \in 1..(n + 1) : l[i] = IF i < k THEN list[i] ELSE IF i = k THEN vma ELSE list[i - 1]
  BY InsertType
<1> HIDE DEF l, k, n
<1>3. ASSUME NEW i \in 1..n PROVE \E j \in 1..(n + 1) : l[j] = list[i]
  <2>1. CASE i < k
    <3>1. i \in 1..(n + 1) /\ l[i] = list[i]
      BY <1>1, <1>2, <2>1
    <3> QED
      BY <3>1
  <2>2. CASE k <= i
    <3>1. i + 1 \in 1..(n + 1) /\ l[i + 1] = list[i]
      BY <1>1, <1>2, <2>2
    <3> QED
      BY <3>1
  <2> QED
    BY <1>1, <2>1, <2>2
<1> SUFFICES ASSUME NEW v \in Areas(list) PROVE v \in Areas(l)
  BY DEF l
<1>4. PICK i \in 1..n : v = list[i]
  BY AreasOfList DEF n
<1>5. PICK j \in 1..(n + 1) : l[j] = v
  BY <1>3, <1>4
<1> QED
  BY <1>2, <1>5, AreasOfList

\* mm_map.
LEMMA MapStep ==
  ASSUME IInv, NEW addr \in Addr, NEW len \in 0..(USERTOP - addr), NEW vm_flags \in Flags,
         Map(addr, len, vm_flags)
  PROVE  IInv'
<1> DEFINE a == area(addr, len, vm_flags)
           cache == caches(mmap_cache, find_vma(mmap_list, mmap_cache, ROUNDDOWN(addr)))
<1>1. mmap_list \in Seq(Area) /\ mmap_cache \in Areas(mmap_list) \cup {NULL}
  BY DEF IInv
<1>2. mmap_cache' \in Areas(mmap_list) \cup {NULL}
  <2>1. mmap_cache' = cache \/ mmap_cache' = mmap_cache
    BY DEF Map
  <2>2. cache \in Areas(mmap_list) \cup {NULL}
    BY <1>1, CacheStep
  <2> HIDE DEF cache
  <2> QED
    BY <1>1, <2>1, <2>2
<1> HIDE DEF cache
<1>3. CASE mm_map(mmap_list, mmap_cache, addr, len) # "0"
  <2>1. mmap_list' = mmap_list
    BY <1>3 DEF Map
  <2> QED
    BY <1>2, <2>1 DEF IInv, Sorted
<1>4. CASE mm_map(mmap_list, mmap_cache, addr, len) = "0"
  <2>1. mmap_list' = insert_vma_struct(mmap_list, a)
    BY <1>4 DEF Map
  <2>2. len \in Nat
    BY MmapAssumption DEF Addr
  <2>3. /\ a \in Area
        /\ a.vm_start \in Int /\ a.vm_end \in Int /\ a.vm_start < a.vm_end
        /\ overlap_asserts(mmap_list, a)
    BY <1>1, <1>4, <2>2, AcceptedArea
  <2> HIDE DEF a
  <2>4. mmap_list' \in Seq(Area)
    BY <1>1, <2>1, <2>3, InsertType
  <2>5. SortedList(mmap_list)
    BY DEF IInv, Sorted, SortedList
  <2>6. SortedList(mmap_list')
    BY <1>1, <2>1, <2>3, <2>5, InsertSorted
  <2>7. Areas(mmap_list) \subseteq Areas(mmap_list')
    BY <1>1, <2>1, <2>3, InsertKeeps
  <2>8. Sorted'
    BY <2>6 DEF Sorted, SortedList
  <2> QED
    BY <1>2, <2>4, <2>7, <2>8 DEF IInv, Areas
<1> QED
  BY <1>3, <1>4

\* The inductive invariant is one.
THEOREM Invariance == Spec => []IInv
<1>1. Init => IInv
  <2> SUFFICES ASSUME Init PROVE IInv
    OBVIOUS
  <2>1. mmap_list \in Seq(Area) /\ DOMAIN mmap_list = {}
    BY DEF Init
  <2>2. mmap_cache \in Areas(mmap_list) \cup {NULL}
    BY DEF Init
  <2>3. Sorted
    BY <2>1 DEF Sorted
  <2> QED
    BY <2>1, <2>2, <2>3 DEF IInv
<1>2. IInv /\ [Next]_vars => IInv'
  <2> SUFFICES ASSUME IInv, [Next]_vars PROVE IInv'
    OBVIOUS
  <2>1. ASSUME NEW addr \in Addr, NEW len \in 0..(USERTOP - addr), NEW vm_flags \in Flags,
               Map(addr, len, vm_flags)
        PROVE  IInv'
    BY <2>1, MapStep
  <2>2. ASSUME NEW addr \in Addr, Find(addr) PROVE IInv'
    <3>1. mmap_list' = mmap_list /\ mmap_cache' \in Areas(mmap_list) \cup {NULL}
      BY <2>2, CacheStep DEF Find, IInv
    <3> QED
      BY <3>1 DEF IInv, Sorted
  <2>3. CASE UNCHANGED vars
    BY <2>3 DEF vars, IInv, Sorted
  <2> QED
    BY <2>1, <2>2, <2>3 DEF Next
<1> QED
  BY <1>1, <1>2, PTL DEF Spec

\* Whichever order areas are mapped in, the list is sorted by address and the areas are
\* disjoint: insert_vma_struct and its assertions see to it.
THEOREM ListSorted == Spec => []Sorted
<1>1. IInv => Sorted
  BY DEF IInv
<1> QED
  BY <1>1, Invariance, PTL

\* mmap_cache never changes an answer of find_vma.
THEOREM CacheCorrect == Spec => []FindsTheArea
<1>1. IInv => FindsTheArea
  <2> SUFFICES ASSUME IInv, NEW addr \in Addr
               PROVE  LET vma == find_vma(mmap_list, mmap_cache, addr)
                      IN  IF vma = NULL THEN \A v \in Areas(mmap_list) : ~has(v, addr)
                          ELSE vma \in Areas(mmap_list) /\ has(vma, addr)
    BY DEF FindsTheArea
  <2> QED
    BY FindVma DEF IInv
<1> QED
  BY <1>1, Invariance, PTL

-----------------------------------------------------------------------------
(* mm_map. *)

\* mm_map looks for an area at the first address only, and then at the neighbours of the
\* place: with a sorted list that is enough.
LEMMA MapsFree ==
  ASSUME IInv, NEW addr \in Int, NEW len \in Int
  PROVE  LET pages == ROUNDDOWN(addr)..(ROUNDUP(addr + len) - 1)
         IN  mm_map(mmap_list, mmap_cache, addr, len) = "0" <=>
               /\ pages # {} /\ pages \subseteq USERBASE..(USERTOP - 1)
               /\ \A v \in Areas(mmap_list), a \in pages : ~has(v, a)
<1> DEFINE list == mmap_list
           vma == area(addr, len, {})
           from == ROUNDDOWN(addr)
           to == ROUNDUP(addr + len)
           found == find_vma(mmap_list, mmap_cache, from)
           free == \A v \in Areas(list), a \in from..(to - 1) : ~has(v, a)
<1>1. from \in Int /\ to \in Int /\ vma.vm_start = from /\ vma.vm_end = to
  BY RoundType DEF area
<1>2. /\ list \in Seq(Area) /\ SortedList(list)
      /\ mmap_cache \in Areas(list) \cup {NULL}
  BY DEF IInv, Sorted, SortedList
<1>3. USERBASE \in Int /\ USERTOP \in Int
  BY MmapAssumption
<1>4. /\ DOMAIN list = 1..Len(list) /\ Len(list) \in Nat
      /\ \A i \in 1..Len(list) : list[i].vm_start \in Int /\ list[i].vm_end \in Int
      /\ \A i \in 1..Len(list) : list[i].vm_start < list[i].vm_end
  BY <1>2, AreaFacts DEF SortedList
<1>5. \A v : v \in Areas(list) <=> \E i \in 1..Len(list) : v = list[i]
  BY <1>2, AreasOfList
<1>6. \/ found = NULL /\ \A v \in Areas(list) : ~has(v, from)
      \/ found # NULL /\ found \in Areas(list) /\ has(found, from)
  BY <1>2, FindVma
<1>7. mm_map(list, mmap_cache, addr, len) = "0" <=>
        /\ USER_ACCESS(from, to)
        /\ ~(found # NULL /\ to > found.vm_start)
        /\ overlap_asserts(list, vma)
  BY <1>1 DEF mm_map
<1> HIDE DEF list, vma, from, to, found
<1>8. USER_ACCESS(from, to) <=>
        from..(to - 1) # {} /\ from..(to - 1) \subseteq USERBASE..(USERTOP - 1)
  <2>1. CASE from < to
    <3>1. from \in from..(to - 1) /\ to - 1 \in from..(to - 1)
      BY <1>1, <2>1
    <3>2. from..(to - 1) \subseteq USERBASE..(USERTOP - 1) => USERBASE <= from /\ to <= USERTOP
      BY <1>1, <1>3, <3>1
    <3>3. USERBASE <= from /\ to <= USERTOP => from..(to - 1) \subseteq USERBASE..(USERTOP - 1)
      BY <1>1, <1>3
    <3> QED
      BY <2>1, <3>1, <3>2, <3>3 DEF USER_ACCESS
  <2>2. CASE ~(from < to)
    BY <1>1, <2>2 DEF USER_ACCESS
  <2> QED
    BY <2>1, <2>2
<1>9. ASSUME from < to, ~(found # NULL /\ to > found.vm_start), overlap_asserts(list, vma)
      PROVE  free
  <2>1. /\ \A i \in 1..Len(list) : i < place(list, vma) => list[i].vm_end <= from
        /\ \A i \in 1..Len(list) : place(list, vma) <= i => to <= list[i].vm_start
    BY <1>1, <1>2, <1>9, Between
  <2>2. place(list, vma) \in Int
    BY <1>1, <1>2, <1>4, Place
  <2>3. ASSUME NEW i \in 1..Len(list), NEW a \in from..(to - 1) PROVE ~has(list[i], a)
    BY <1>1, <1>4, <2>1, <2>2 DEF has
  <2> QED
    BY <1>5, <2>3
<1>10. ASSUME from < to, free
       PROVE  ~(found # NULL /\ to > found.vm_start) /\ overlap_asserts(list, vma)
  <2>1. \A i \in 1..Len(list), a \in from..(to - 1) : ~has(list[i], a)
    BY <1>5, <1>10
  <2>2. from \in from..(to - 1)
    BY <1>1, <1>10
  <2>3. found = NULL
    BY <1>6, <1>10, <2>2
  <2> DEFINE k == place(list, vma)
  <2>4. /\ k \in 1..(Len(list) + 1)
        /\ \A j \in 1..Len(list) :
             /\ j < k => list[j].vm_start <= from
             /\ j = k => list[j].vm_start > from
    BY <1>1, <1>2, Place
  <2> HIDE DEF k
  <2>5. ASSUME k > 1 PROVE list[k - 1].vm_end <= from
    <3>1. k - 1 \in 1..Len(list) /\ list[k - 1].vm_start <= from
      BY <1>4, <2>4, <2>5
    <3>2. ~has(list[k - 1], from)
      BY <2>1, <2>2, <3>1
    <3> QED
      BY <1>1, <1>4, <3>1, <3>2 DEF has
  <2>6. ASSUME k <= Len(list) PROVE to <= list[k].vm_start
    <3>1. k \in 1..Len(list) /\ list[k].vm_start > from
      BY <1>4, <2>4, <2>6
    <3>2. has(list[k], list[k].vm_start)
      BY <1>4, <3>1 DEF has
    <3>3. list[k].vm_start \notin from..(to - 1)
      BY <2>1, <3>1, <3>2
    <3> QED
      BY <1>1, <1>4, <3>1, <3>3
  <2> QED
    BY <1>1, <2>3, <2>5, <2>6 DEF overlap_asserts, k
<1>11. USER_ACCESS(from, to) => from < to
  BY DEF USER_ACCESS
<1>12. mm_map(list, mmap_cache, addr, len) = "0" <=> USER_ACCESS(from, to) /\ free
  BY <1>7, <1>9, <1>10, <1>11
<1> QED
  BY <1>8, <1>12 DEF list, from, to

\* mm_map accepts an area exactly if all the pages it touches are free user memory, with
\* any list that calls of mm_map can build and whatever find_vma left in the cache.
THEOREM MapsFreeMemory == Spec => []MapsFreePages
<1>1. IInv => MapsFreePages
  <2>1. Addr \subseteq Int /\ 0..USERTOP \subseteq Int
    BY MmapAssumption DEF Addr
  <2> QED
    BY <2>1, MapsFree DEF MapsFreePages
<1> QED
  BY <1>1, Invariance, PTL

-----------------------------------------------------------------------------
(* user_mem_check. *)

\* The bytes from start up to end are allowed.
AllAllowed(list, start, end, write) == \A a \in start..(end - 1) : Allowed(list, a, write)

\* One turn of the loop of user_mem_check: what it tests of the area it finds stands for
\* all the bytes the area has from start on.
LEMMA CheckTurn ==
  ASSUME NEW list \in Seq(Area), SortedList(list), NEW write \in BOOLEAN,
         NEW start \in Addr, NEW end \in Int, NEW c \in Areas(list) \cup {NULL}
  PROVE  LET vma == find_vma(list, c, start)
         IN  AllAllowed(list, start, end, write) <=>
               \/ start >= end
               \/ /\ vma # NULL
                  /\ start >= vma.vm_start
                  /\ ~denied(vma, start, write)
                  /\ AllAllowed(list, vma.vm_end, end, write)
<1> DEFINE vma == find_vma(list, c, start)
<1>1. start \in Int /\ PGSIZE \in Int
  BY MmapAssumption DEF Addr
<1>2. \/ vma = NULL /\ \A v \in Areas(list) : ~has(v, start)
      \/ vma # NULL /\ vma \in Areas(list) /\ has(vma, start)
  BY FindVma
<1>3. \A v \in Areas(list) : v.vm_start \in Int /\ v.vm_end \in Int
  BY AreaFacts, AreasOfList
<1> HIDE DEF vma
<1>4. CASE start >= end
  BY <1>1, <1>4 DEF AllAllowed
<1>5. CASE start < end
  <2>1. ASSUME AllAllowed(list, start, end, write)
        PROVE  /\ vma # NULL
               /\ start >= vma.vm_start
               /\ ~denied(vma, start, write)
               /\ AllAllowed(list, vma.vm_end, end, write)
    <3>1. Allowed(list, start, write)
      BY <1>1, <1>5, <2>1 DEF AllAllowed
    <3>2. PICK v \in Areas(list) :
            /\ has(v, start)
            /\ (IF write THEN "VM_WRITE" ELSE "VM_READ") \in v.vm_flags
            /\ ~(write /\ "VM_STACK" \in v.vm_flags /\ start < v.vm_start + PGSIZE)
      BY <3>1 DEF Allowed
    <3>3. vma # NULL /\ vma \in Areas(list) /\ has(vma, start)
      BY <1>2, <3>2
    <3>4. v = vma
      BY <1>1, <3>2, <3>3, OneArea
    <3>5. start >= vma.vm_start /\ vma.vm_end > start
      BY <1>1, <1>3, <3>3 DEF has
    <3>6. AllAllowed(list, vma.vm_end, end, write)
      BY <1>1, <1>3, <2>1, <3>3, <3>5 DEF AllAllowed
    <3> QED
      BY <3>2, <3>3, <3>4, <3>5, <3>6 DEF denied
  <2>2. ASSUME vma # NULL, ~denied(vma, start, write), AllAllowed(list, vma.vm_end, end, write)
        PROVE  AllAllowed(list, start, end, write)
    <3>1. vma \in Areas(list) /\ has(vma, start)
      BY <1>2, <2>2
    <3>2. /\ (IF write THEN "VM_WRITE" ELSE "VM_READ") \in vma.vm_flags
          /\ ~(write /\ "VM_STACK" \in vma.vm_flags /\ start < vma.vm_start + PGSIZE)
      BY <2>2 DEF denied
    <3>3. vma.vm_start \in Int /\ vma.vm_end \in Int
      BY <1>3, <3>1
    <3>4. ASSUME NEW a \in start..(end - 1), a < vma.vm_end PROVE Allowed(list, a, write)
      <4>1. has(vma, a)
        BY <1>1, <3>1, <3>3, <3>4 DEF has
      <4>2. a < vma.vm_start + PGSIZE => start < vma.vm_start + PGSIZE
        BY <1>1, <1>5, <3>3
      <4> QED
        BY <3>1, <3>2, <4>1, <4>2 DEF Allowed
    <3>5. ASSUME NEW a \in start..(end - 1), ~(a < vma.vm_end) PROVE Allowed(list, a, write)
      BY <1>1, <2>2, <3>3, <3>5 DEF AllAllowed
    <3> QED
      BY <3>4, <3>5 DEF AllAllowed
  <2> QED
    BY <1>1, <1>5, <2>1, <2>2 DEF vma
<1> QED
  BY <1>1, <1>4, <1>5 DEF vma

\* user_mem_check: the loop tests every byte. There is a function the loop computes, since
\* AllAllowed takes the same turns; and it is that one, for there is no last address from
\* which the two differ.
LEMMA CheckLoop ==
  ASSUME NEW list \in Seq(Area), SortedList(list), NEW cache \in Areas(list) \cup {NULL},
         NEW write \in BOOLEAN, NEW addr \in Addr, NEW len \in Int
  PROVE  user_mem_check(list, cache, addr, len, write) <=>
           USER_ACCESS(addr, addr + len) /\ AllAllowed(list, addr, addr + len, write)
<1> DEFINE end == addr + len
           C == Areas(list) \cup {NULL}
           turn(f, start, c) ==
             LET vma == find_vma(list, c, start)
             IN  \/ start >= end
                 \/ /\ vma # NULL
                    /\ start >= vma.vm_start
                    /\ ~denied(vma, start, write)
                    /\ f[vma.vm_end][vma]
           ok == CHOOSE f : f = [start \in Addr |-> [c \in C |-> turn(f, start, c)]]
           all == [start \in Addr |-> [c \in C |-> AllAllowed(list, start, end, write)]]
<1>1. user_mem_check(list, cache, addr, len, write) <=>
        USER_ACCESS(addr, end) /\ ok[addr][cache]
  BY DEF user_mem_check
<1>2. Addr \subseteq Nat /\ end \in Int /\ USERTOP \in Nat
  BY MmapAssumption DEF Addr
<1>3. \A v \in Areas(list) : v.vm_end \in Addr
  BY AreaFacts, AreasOfList
<1>4. \A start \in Addr, c \in C :
        find_vma(list, c, start) # NULL =>
          /\ find_vma(list, c, start) \in Areas(list)
          /\ has(find_vma(list, c, start), start)
  BY FindVma
<1> HIDE DEF end
<1>5. \A start \in Addr, c \in C : AllAllowed(list, start, end, write) <=> turn(all, start, c)
  <2> SUFFICES ASSUME NEW start \in Addr, NEW c \in C
               PROVE  AllAllowed(list, start, end, write) <=> turn(all, start, c)
    OBVIOUS
  <2> DEFINE vma == find_vma(list, c, start)
  <2>1. vma # NULL => vma.vm_end \in Addr /\ vma \in C
    BY <1>3, <1>4
  <2>2. AllAllowed(list, start, end, write) <=>
          \/ start >= end
          \/ /\ vma # NULL
             /\ start >= vma.vm_start
             /\ ~denied(vma, start, write)
             /\ AllAllowed(list, vma.vm_end, end, write)
    BY <1>2, CheckTurn
  <2> HIDE DEF vma
  <2>3. vma # NULL => (all[vma.vm_end][vma] <=> AllAllowed(list, vma.vm_end, end, write))
    BY <2>1
  <2> QED
    BY <2>2, <2>3 DEF vma
<1>6. all = [start \in Addr |-> [c \in C |-> turn(all, start, c)]]
  <2>1. \A start \in Addr, c \in C : AllAllowed(list, start, end, write) = turn(all, start, c)
    <3>1. \A start \in Addr, c \in C :
            AllAllowed(list, start, end, write) \in BOOLEAN /\ turn(all, start, c) \in BOOLEAN
      BY DEF AllAllowed
    <3> HIDE DEF turn, all
    <3> QED
      BY <1>5, <3>1
  <2> HIDE DEF turn
  <2> QED
    BY <2>1
<1>7. ok = [start \in Addr |-> [c \in C |-> turn(ok, start, c)]]
  <2> HIDE DEF turn, all
  <2> QED
    BY <1>6
<1> HIDE DEF ok
<1>8. \A start \in Addr, c \in C : ok[start][c] <=> turn(ok, start, c)
  <2> HIDE DEF turn
  <2> QED
    BY <1>7
<1>9. \A start \in Addr, c \in C : ok[start][c] <=> AllAllowed(list, start, end, write)
  <2> DEFINE Bad == {start \in Addr :
                       \E c \in C : ~(ok[start][c] <=> AllAllowed(list, start, end, write))}
             Left == {USERTOP - start : start \in Bad}
  <2> SUFFICES ASSUME Bad # {} PROVE FALSE
    OBVIOUS
  <2>1. Left \in SUBSET Nat /\ Left # {}
    BY <1>2 DEF Addr
  <2>2. PICK m \in Left : \A k \in Left : m <= k
    <3> HIDE DEF Left
    <3> QED
      BY <2>1, LeastNat
  <2>3. PICK start \in Bad : m = USERTOP - start
    BY <2>2
  <2>4. start \in Addr
    BY <2>3
  <2>5. \A s \in Addr : s > start => s \notin Bad
    <3>1. ASSUME NEW s \in Bad PROVE USERTOP - start <= USERTOP - s
      BY <2>2, <2>3
    <3> HIDE DEF Bad
    <3> QED
      BY <1>2, <2>4, <3>1
  <2>6. PICK c \in C : ~(ok[start][c] <=> AllAllowed(list, start, end, write))
    BY <2>3
  <2> DEFINE vma == find_vma(list, c, start)
  <2>7. vma # NULL => vma.vm_end \in Addr /\ vma \in C /\ vma.vm_end > start
    BY <1>2, <1>3, <1>4, <2>4 DEF has
  <2>8. AllAllowed(list, start, end, write) <=>
          \/ start >= end
          \/ /\ vma # NULL
             /\ start >= vma.vm_start
             /\ ~denied(vma, start, write)
             /\ AllAllowed(list, vma.vm_end, end, write)
    BY <1>2, <2>4, CheckTurn
  <2>9. ok[start][c] <=>
          \/ start >= end
          \/ /\ vma # NULL
             /\ start >= vma.vm_start
             /\ ~denied(vma, start, write)
             /\ ok[vma.vm_end][vma]
    BY <1>8, <2>4
  <2> HIDE DEF vma
  <2>10. vma # NULL => (ok[vma.vm_end][vma] <=> AllAllowed(list, vma.vm_end, end, write))
    BY <2>5, <2>7
  <2> QED
    BY <2>6, <2>8, <2>9, <2>10
<1> QED
  BY <1>1, <1>9 DEF end

\* user_mem_check allows exactly the accesses each byte of which is in an area with the
\* permission, over however many areas, whatever find_vma left in the cache.
THEOREM UserMemory == Spec => []ChecksEveryByte
<1>1. IInv => ChecksEveryByte
  <2> SUFFICES ASSUME IInv PROVE ChecksEveryByte
    OBVIOUS
  <2>1. Addr \subseteq Int /\ 0..USERTOP \subseteq Int /\ USERBASE \in Int
    BY MmapAssumption DEF Addr
  <2>2. /\ mmap_list \in Seq(Area) /\ SortedList(mmap_list)
        /\ mmap_cache \in Areas(mmap_list) \cup {NULL}
    BY DEF IInv, Sorted, SortedList
  <2>3. ASSUME NEW addr \in Addr, NEW len \in 0..USERTOP, NEW write \in BOOLEAN,
               addr + len <= USERTOP
        PROVE  user_mem_check(mmap_list, mmap_cache, addr, len, write) <=>
                 /\ len > 0 /\ addr >= USERBASE
                 /\ AllAllowed(mmap_list, addr, addr + len, write)
    <3>1. USER_ACCESS(addr, addr + len) <=> len > 0 /\ addr >= USERBASE
      BY <2>1, <2>3 DEF USER_ACCESS
    <3> QED
      BY <2>1, <2>2, <3>1, CheckLoop
  <2> SUFFICES ASSUME NEW addr \in Addr, NEW len \in 0..USERTOP, NEW write \in BOOLEAN,
                      addr + len <= USERTOP
               PROVE  user_mem_check(mmap_list, mmap_cache, addr, len, write) <=>
                        /\ len > 0 /\ addr >= USERBASE
                        /\ \A a \in addr..(addr + len - 1) : Allowed(mmap_list, a, write)
    BY DEF ChecksEveryByte
  <2>4. addr \in Int /\ len \in Int
    BY <2>1
  <2>5. AllAllowed(mmap_list, addr, addr + len, write) <=>
          \A a \in addr..(addr + len - 1) : Allowed(mmap_list, a, write)
    BY <2>4 DEF AllAllowed
  <2> QED
    BY <2>3, <2>5, Zenon
<1> QED
  BY <1>1, Invariance, PTL
=============================================================================
