-------------------------------- MODULE Mmap --------------------------------
(***************************************************************************)
(* The list of virtual memory areas of an address space in lab5,           *)
(* kern/mm/vmm.c: mm_map with insert_vma_struct, find_vma with the area it *)
(* found last in mmap_cache, user_mem_check.                               *)
(***************************************************************************)
EXTENDS Integers, SequencesExt

CONSTANTS
  PGSIZE,    \* bytes of a page
  USERBASE,
  USERTOP,
  Flags,     \* the vm_flags areas are mapped with: sets of VM_READ, VM_WRITE and VM_STACK
  NULL       \* no area

ASSUME MmapAssumption ==
  /\ PGSIZE \in Nat \ {0}
  /\ USERBASE \in Nat /\ USERTOP \in Nat
  /\ USERBASE % PGSIZE = 0 /\ USERTOP % PGSIZE = 0 /\ USERBASE < USERTOP
  /\ NULL \notin [vm_start : Nat, vm_end : Nat, vm_flags : Flags]

VARIABLES
  mmap_list,   \* the areas, in the order of the list
  mmap_cache   \* the area found last, or NULL

vars == <<mmap_list, mmap_cache>>

Addr == 0..USERTOP

USER_ACCESS(start, end) == USERBASE <= start /\ start < end /\ end <= USERTOP

ROUNDDOWN(a) == a - (a % PGSIZE)
ROUNDUP(a) == ROUNDDOWN(a + PGSIZE - 1)

Areas(list) == {list[i] : i \in DOMAIN list}
has(vma, addr) == vma.vm_start <= addr /\ addr < vma.vm_end

-----------------------------------------------------------------------------
\* Mutant: whatever is in the cache is taken.
find_cached(list, cache, addr) ==
  LET hits == {i \in DOMAIN list : has(list[i], addr)}
  IN  IF cache # NULL THEN cache
      ELSE IF hits = {} THEN NULL ELSE list[CHOOSE i \in hits : \A j \in hits : i <= j]

\* Mutant: an area has its end address, too.
find_end(list, cache, addr) ==
  LET hits == {i \in DOMAIN list : list[i].vm_start <= addr /\ addr <= list[i].vm_end}
  IN  IF cache # NULL /\ has(cache, addr) THEN cache
      ELSE IF hits = {} THEN NULL ELSE list[CHOOSE i \in hits : \A j \in hits : i <= j]

\* find_vma: the cached area if it has addr, or the first one of the list that has it.
find_vma(list, cache, addr) ==
  LET hits == {i \in DOMAIN list : has(list[i], addr)}
  IN  IF cache # NULL /\ has(cache, addr) THEN cache
      ELSE IF hits = {} THEN NULL ELSE list[CHOOSE i \in hits : \A j \in hits : i <= j]

\* What find_vma leaves in the cache when it returns found.
caches(cache, found) == IF found # NULL THEN found ELSE cache

\* Where insert_vma_struct puts vma: behind the areas before the first that starts above it.
place(list, vma) ==
  LET above == {i \in DOMAIN list : list[i].vm_start > vma.vm_start}
  IN  IF above = {} THEN Len(list) + 1 ELSE CHOOSE i \in above : \A j \in above : i <= j

\* Mutant: at the head of the list.
insert_at_head(list, vma) == <<vma>> \o list

\* The list with vma in its place.
insert_vma_struct(list, vma) == InsertAt(list, place(list, vma), vma)

\* check_vma_overlap of vma and its neighbours; where it fails the kernel stops.
overlap_asserts(list, vma) ==
  LET i == place(list, vma)
  IN  /\ i > 1 => list[i - 1].vm_end <= vma.vm_start
      /\ i <= Len(list) => vma.vm_end <= list[i].vm_start

\* The area mm_map creates: the pages that have a byte of the range.
area(addr, len, vm_flags) ==
  [vm_start |-> ROUNDDOWN(addr), vm_end |-> ROUNDUP(addr + len), vm_flags |-> vm_flags]

\* What mm_map returns: it looks for an area at the first address only.  vma_create does not
\* fail: kmalloc of less than a page panics when there is no memory.
mm_map(list, cache, addr, len) ==
  LET a == area(addr, len, {})
      found == find_vma(list, cache, a.vm_start)
  IN  IF ~USER_ACCESS(a.vm_start, a.vm_end) THEN "-E_INVAL"
      ELSE IF found # NULL /\ a.vm_end > found.vm_start THEN "-E_INVAL"
      ELSE IF overlap_asserts(list, a) THEN "0" ELSE "panic"

\* Mutant: one byte more of a stack is not written.
denied_one_more(vma, start, write) ==
  \/ (IF write THEN "VM_WRITE" ELSE "VM_READ") \notin vma.vm_flags
  \/ write /\ "VM_STACK" \in vma.vm_flags /\ start <= vma.vm_start + PGSIZE

\* An area does not allow an access from start on: the lowest page of a stack is not written.
denied(vma, start, write) ==
  \/ (IF write THEN "VM_WRITE" ELSE "VM_READ") \notin vma.vm_flags
  \/ write /\ "VM_STACK" \in vma.vm_flags /\ start < vma.vm_start + PGSIZE

\* user_mem_check: area by area from addr on, with the cache as each find_vma leaves it.
\* (Its answer for a kernel thread, that has no list, is not modelled.)
user_mem_check(list, cache, addr, len, write) ==
  LET ok[start \in Addr] == [c \in Areas(list) \cup {NULL} |->
        LET vma == find_vma(list, c, start)
        IN  \/ start >= addr + len
            \/ /\ vma # NULL
               /\ start >= vma.vm_start
               /\ ~denied(vma, start, write)
               /\ ok[vma.vm_end][vma]]
  IN  USER_ACCESS(addr, addr + len) /\ ok[addr][cache]

-----------------------------------------------------------------------------
\* mm_create.
Init == mmap_list = <<>> /\ mmap_cache = NULL

\* mm_map by load_icode; if the assertion of insert_vma_struct fails there is no next state.
Map(addr, len, vm_flags) ==
  LET found == find_vma(mmap_list, mmap_cache, ROUNDDOWN(addr))
      ret == mm_map(mmap_list, mmap_cache, addr, len)
  IN  /\ ret # "panic"
      /\ mmap_list' = IF ret = "0" THEN insert_vma_struct(mmap_list, area(addr, len, vm_flags)) ELSE mmap_list
      /\ mmap_cache' =
           IF USER_ACCESS(ROUNDDOWN(addr), ROUNDUP(addr + len)) THEN caches(mmap_cache, found) ELSE mmap_cache

\* find_vma by do_pgfault or user_mem_check, at any address.
Find(addr) ==
  /\ mmap_cache' = caches(mmap_cache, find_vma(mmap_list, mmap_cache, addr))
  /\ UNCHANGED mmap_list

Next ==
  \E addr \in Addr :
    \/ \E len \in 0..(USERTOP - addr), vm_flags \in Flags : Map(addr, len, vm_flags)
    \/ Find(addr)

Spec == Init /\ [][Next]_vars

-----------------------------------------------------------------------------
\* The areas are sorted by address and disjoint, whichever order they were mapped in:
\* what the assertions of insert_vma_struct and the walk of exit_mmap rely on.
Sorted ==
  /\ \A i \in DOMAIN mmap_list : mmap_list[i].vm_start < mmap_list[i].vm_end
  /\ \A i, j \in DOMAIN mmap_list : i < j => mmap_list[i].vm_end <= mmap_list[j].vm_start

\* The cache never changes an answer: find_vma finds the one area that has addr, if any.
FindsTheArea ==
  \A addr \in Addr :
    LET vma == find_vma(mmap_list, mmap_cache, addr)
    IN  IF vma = NULL THEN \A v \in Areas(mmap_list) : ~has(v, addr)
        ELSE vma \in Areas(mmap_list) /\ has(vma, addr)

\* The byte at a is in an area with the permission, for a write not in the lowest page of
\* a stack.
Allowed(list, a, write) ==
  \E v \in Areas(list) :
    /\ has(v, a)
    /\ (IF write THEN "VM_WRITE" ELSE "VM_READ") \in v.vm_flags
    /\ ~(write /\ "VM_STACK" \in v.vm_flags /\ a < v.vm_start + PGSIZE)

\* user_mem_check allows exactly the accesses to user memory each byte of which is allowed;
\* also when the range runs over several areas, or ends where one ends.
ChecksEveryByte ==
  \A addr \in Addr, len \in 0..USERTOP, write \in BOOLEAN :
    addr + len <= USERTOP =>
      (user_mem_check(mmap_list, mmap_cache, addr, len, write) <=>
         /\ len > 0 /\ addr >= USERBASE
         /\ \A a \in addr..(addr + len - 1) : Allowed(mmap_list, a, write))

\* mm_map accepts an area only if all the pages it touches are free user memory, and does
\* not refuse one that is.
MapsFreePages ==
  \A addr \in Addr, len \in 0..USERTOP :
    LET pages == ROUNDDOWN(addr)..(ROUNDUP(addr + len) - 1)
    IN  mm_map(mmap_list, mmap_cache, addr, len) = "0" <=>
          /\ pages # {} /\ pages \subseteq USERBASE..(USERTOP - 1)
          /\ \A v \in Areas(mmap_list), a \in pages : ~has(v, a)
=============================================================================
