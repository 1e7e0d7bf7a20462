---------------------------- MODULE AddressSpace ----------------------------
(***************************************************************************)
(* The address spaces of user processes in lab5: exec builds one (load_icode *)
(* of kern/process/proc.c), fork copies it (copy_mm, dup_mmap), a page     *)
(* fault extends it (do_pgfault of kern/mm/vmm.c), exit and exec tear it   *)
(* down (exit_mmap, put_pgdir), and proc_run changes satp with the process. *)
(*                                                                         *)
(* All of this runs in the kernel with interrupts off and without a call   *)
(* of schedule(): a system call is one action.  Which process runs next is *)
(* module Process's business: here it is any that is alive.  No process    *)
(* shares its address space (sys_fork passes no CLONE_VM, kernel threads   *)
(* have none), so mm_count is 1 and mm_lock free, and neither is kept.     *)
(***************************************************************************)
EXTENDS PageTable, Sequences

CONSTANTS
  Proc,         \* processes but initproc
  initproc,     \* a kernel thread, always alive, without an address space
  NULL,         \* no process, no page
  BOOT,         \* boot_cr3, and what the copy of the boot page directory holds
  Program,      \* the programs: sequences of segments, see Segment
  STACK,        \* USTACKTOP - USTACKSIZE
  LOADED,       \* how many pages of the stack load_icode allocates
  Value,        \* what a program can write to a page
  Written       \* the addresses programs write to: a bound on the programs

Thread == Proc \cup {initproc}

\* A segment of a program: where it goes, what is in each of its pages, and whether
\* load_icode rejects it: it is longer in the file than in memory, or not below USERTOP.
Segment ==
  {s \in [vm_start : Addr, vm_end : Addr \cup {USERTOP}, image : Value, bad : BOOLEAN] : s.vm_start < s.vm_end}

ASSUME AddressSpaceAssumption ==
  /\ initproc \notin Proc
  /\ NULL \notin Thread /\ NULL \notin Page
  /\ BOOT \notin Page /\ BOOT # TABLE
  /\ TABLE \notin Value /\ BOOT \notin Value /\ ZERO \in Value
  /\ STACK \in Addr /\ LOADED \in 1..(USERTOP - STACK)
  /\ Written \subseteq Addr
  /\ Program \subseteq Seq(Segment)

VARIABLES
  mem,      \* physical memory: see PageTable
  mm,       \* mm[p]: pgdir and the areas in the order of the list
  cr3,      \* proc->cr3
  alive,    \* the processes that are not zombies and not collected
  current,
  satp      \* the page directory the processor uses

vars == <<mem, mm, cr3, alive, current, satp>>

\* No area is empty.
Vma == {v \in [vm_start : Addr, vm_end : Addr \cup {USERTOP}] : v.vm_start < v.vm_end}

\* proc->mm is NULL: there is no address space.
none == [pgdir |-> NULL, vmas |-> <<>>]

TypeOK ==
  /\ mem \in [free : SUBSET Page, ref : [Page -> Nat], table : [Page -> [Index -> Page \cup {invalid}]],
              data : [Page -> Value \cup {TABLE, BOOT}], panic : BOOLEAN]
  /\ mm \in [Thread -> [pgdir : Page, vmas : Seq(Vma)] \cup {none}]
  /\ cr3 \in [Thread -> Page \cup {BOOT}]
  /\ alive \subseteq Proc
  /\ current \in alive \cup {initproc}
  /\ satp \in Page \cup {BOOT}

\* After boot initproc runs.
Init ==
  /\ mem = [free |-> Page, ref |-> [p \in Page |-> 0], table |-> [p \in Page |-> empty],
            data |-> [p \in Page |-> ZERO], panic |-> FALSE]
  /\ mm = [p \in Thread |-> none]
  /\ cr3 = [p \in Thread |-> BOOT]
  /\ alive = {}
  /\ current = initproc
  /\ satp = BOOT

-----------------------------------------------------------------------------
(* mm_struct *)

\* setup_pgdir: the next page is a copy of boot_pgdir, that has nothing below USERTOP.
setup_pgdir(m) ==
  IF m.free = {} THEN stop(m)
  ELSE [take(m) EXCEPT !.data[lowest(m.free)] = BOOT, !.table[lowest(m.free)] = empty]

\* Mutant: only the first area is unmapped.
unmap_first(m, s) == unmap_range(m, s.pgdir, s.vmas[1].vm_start, s.vmas[1].vm_end)

\* The first loop of exit_mmap.
unmap_all(m, s) ==
  LET done[i \in 0..Len(s.vmas)] ==
        IF i = 0 THEN m ELSE unmap_range(done[i - 1], s.pgdir, s.vmas[i].vm_start, s.vmas[i].vm_end)
  IN  done[Len(s.vmas)]

\* exit_mmap: all areas are unmapped, then their page tables freed, area by area.
exit_mmap(m, s) ==
  LET done[i \in 0..Len(s.vmas)] ==
        IF i = 0 THEN unmap_all(m, s)
        ELSE exit_range(done[i - 1], s.pgdir, s.vmas[i].vm_start, s.vmas[i].vm_end)
  IN  done[Len(s.vmas)]

\* exit_mmap, put_pgdir and mm_destroy, for the only user of the address space.
\* Whoever gets the page directory next finds some value in it.
drop(m, s) ==
  IF s = none THEN m
  ELSE [free_page(exit_mmap(m, s), s.pgdir) EXCEPT !.data[s.pgdir] = ZERO]

\* find_vma, without its cache: module Mmap shows that the cache changes nothing.
find_vma(vmas, a) == {i \in DOMAIN vmas : vmas[i].vm_start <= a /\ a < vmas[i].vm_end}

\* insert_vma_struct of an area that overlaps no other: its place in the list.
insert_vma(vmas, v) ==
  LET below == Cardinality({i \in DOMAIN vmas : vmas[i].vm_start <= v.vm_start})
  IN  SubSeq(vmas, 1, below) \o <<v>> \o SubSeq(vmas, below + 1, Len(vmas))

\* What the assertions of check_vma_overlap exclude.
overlaps(vmas, v) == \E i \in DOMAIN vmas : v.vm_start < vmas[i].vm_end /\ vmas[i].vm_start < v.vm_end

\* mm_map of the area v in s, the memory m and the areas vmas of a new address space: it is
\* refused if it starts in another one; if it reaches into one, the kernel stops.
mm_map(s, v) ==
  IF find_vma(s.vmas, v.vm_start) # {} THEN [s EXCEPT !.ok = FALSE]
  ELSE IF overlaps(s.vmas, v) THEN [s EXCEPT !.m = stop(@)]
  ELSE [s EXCEPT !.vmas = insert_vma(@, v)]

-----------------------------------------------------------------------------
(* Actions. *)

\* A call leaves the memory m.  One that needed a page when there was none has stopped the
\* kernel: there is no next state.
goes(m) == ~m.panic /\ mem' = m

\* proc_run.  lcr3 does not flush the TLB (riscv.h:245); here the new satp translates at once.
Switch(p) ==
  /\ p \in (alive \cup {initproc}) \ {current}
  /\ current' = p
  /\ satp' = cr3[p]
  /\ UNCHANGED <<mem, mm, cr3, alive>>

\* dup_mmap goes through the list from its end.
dup_mmap(m, to, from) ==
  LET done[i \in 1..(Len(from.vmas) + 1)] ==
        IF i = Len(from.vmas) + 1 THEN m
        ELSE copy_range(done[i + 1], to, from.pgdir, from.vmas[i].vm_start, from.vmas[i].vm_end)
  IN  done[1]

\* copy_mm for the new process c of do_fork; an address space is copied, none stays none.
Fork(c) ==
  LET from == mm[current]
      pgdir == lowest(mem.free)
  IN  /\ c \notin alive
      /\ alive' = alive \cup {c}
      /\ IF from = none
         THEN cr3' = [cr3 EXCEPT ![c] = BOOT] /\ UNCHANGED <<mem, mm>>
         ELSE /\ mem.free # {}
              /\ goes(dup_mmap(setup_pgdir(mem), pgdir, from))
              /\ mm' = [mm EXCEPT ![c] = [from EXCEPT !.pgdir = pgdir]]
              /\ cr3' = [cr3 EXCEPT ![c] = pgdir]
      /\ UNCHANGED <<current, satp>>

\* pgdir_alloc_page for the pages from start to end - 1.
alloc_range(m, pgdir, start, end) ==
  LET done[la \in start..end] ==
        IF la = start THEN m ELSE pgdir_alloc_page(done[la - 1], pgdir, la - 1)
  IN  done[end]

\* The same, with the content of a segment.
load_range(m, pgdir, seg) ==
  LET done[la \in seg.vm_start..seg.vm_end] ==
        IF la = seg.vm_start THEN m ELSE new_page(done[la - 1], pgdir, la - 1, seg.image)
  IN  done[seg.vm_end]

\* One segment in load_icode's loop: its area, and then its pages.
load_segment(s, pgdir, seg) ==
  LET mapped == mm_map(s, [vm_start |-> seg.vm_start, vm_end |-> seg.vm_end])
  IN  IF ~s.ok \/ seg.bad THEN [s EXCEPT !.ok = FALSE]
      ELSE IF ~mapped.ok THEN mapped
      ELSE [mapped EXCEPT !.m = load_range(@, pgdir, seg)]

\* The loop, and the area of the stack unless a segment failed.
load_segments(m, pgdir, prog) ==
  LET done[i \in 0..Len(prog)] ==
        IF i = 0 THEN [m |-> m, vmas |-> <<>>, ok |-> TRUE] ELSE load_segment(done[i - 1], pgdir, prog[i])
  IN  done[Len(prog)]

map_stack(s) == IF s.ok THEN mm_map(s, [vm_start |-> STACK, vm_end |-> USERTOP]) ELSE s

\* do_exit of the current process with its address space dropped, which leaves m; then
\* schedule() runs another process.  proc->cr3 keeps its value.
do_exit(m) ==
  /\ goes(m)
  /\ mm' = [mm EXCEPT ![current] = none]
  /\ alive' = alive \ {current}
  /\ \E p \in alive' \cup {initproc} : current' = p /\ satp' = cr3[p]
  /\ UNCHANGED cr3

\* Mutant: the process keeps its old cr3.
run_keeps_cr3(m, pgdir, vmas) ==
  /\ goes(alloc_range(m, pgdir, USERTOP - LOADED, USERTOP))
  /\ mm' = [mm EXCEPT ![current] = [pgdir |-> pgdir, vmas |-> vmas]]
  /\ satp' = pgdir
  /\ UNCHANGED <<cr3, alive, current>>

\* load_icode when all areas are there: the top pages of the stack are allocated as they
\* are, and then the new page directory is the process's.
run_program(m, pgdir, vmas) ==
  /\ goes(alloc_range(m, pgdir, USERTOP - LOADED, USERTOP))
  /\ mm' = [mm EXCEPT ![current] = [pgdir |-> pgdir, vmas |-> vmas]]
  /\ cr3' = [cr3 EXCEPT ![current] = pgdir]
  /\ satp' = pgdir
  /\ UNCHANGED <<alive, current>>

\* s is what load_icode has after mapping segments and stack: the program runs, or what there
\* is of the new address space goes as well, and the process exits.
exec_ends(s, pgdir) ==
  /\ ~s.m.panic
  /\ IF s.ok THEN run_program(s.m, pgdir, s.vmas)
     ELSE do_exit(drop(s.m, [pgdir |-> pgdir, vmas |-> s.vmas]))

\* load_icode in the memory m, with the next page as its page directory.
load_icode(m, prog) ==
  /\ m.free # {}
  /\ exec_ends(map_stack(load_segments(setup_pgdir(m), lowest(m.free), prog)), lowest(m.free))

\* do_execve.  The old address space goes first.
Exec(prog) ==
  /\ current # initproc
  /\ load_icode(drop(mem, mm[current]), prog)

Exit ==
  /\ current # initproc
  /\ do_exit(drop(mem, mm[current]))

\* The program at work: it writes through the page directory the processor has.
in_user == mm[current] # none

Write(la, v) ==
  /\ in_user
  /\ pte(mem, satp, la) # invalid
  /\ mem' = [mem EXCEPT !.data[pte(mem, satp, la)] = v]
  /\ UNCHANGED <<mm, cr3, alive, current, satp>>

\* It comes to an address without a page: do_pgfault gives it one.  Outside the areas it
\* fails, and trap() stops the kernel.  Faults at an address with a page, for its permissions
\* or to swap it in, do not come up: there are no permissions, and nothing is swapped out.
Fault(la) ==
  LET pgdir == mm[current].pgdir
  IN  /\ in_user
      /\ pte(mem, satp, la) = invalid
      /\ find_vma(mm[current].vmas, la) # {}
      /\ goes(pgdir_alloc_page(get_pte(mem, pgdir, la), pgdir, la))
      /\ UNCHANGED <<mm, cr3, alive, current, satp>>

Next ==
  \/ \E p \in Thread : Switch(p)
  \/ \E c \in Proc : Fork(c)
  \/ \E prog \in Program : Exec(prog)
  \/ Exit
  \/ \E la \in Written, v \in Value : Write(la, v)
  \/ \E la \in Addr : Fault(la)

Spec == Init /\ [][Next]_vars

-----------------------------------------------------------------------------
\* What entry path of p's page tables holds: <<>> is the root directory itself.
entry(p, path) ==
  LET at[i \in 0..Len(path)] ==
        IF i = 0 THEN mm[p].pgdir ELSE IF at[i - 1] = invalid THEN invalid ELSE mem.table[at[i - 1]][path[i]]
  IN  at[Len(path)]

PD1 == 0..(NROOT - 1)
PD0 == 0..(NPDEENTRY - 1)
PT == 0..(NPTEENTRY - 1)
Path == {<<>>} \cup {<<i>> : i \in PD1} \cup (PD1 \X PD0) \cup (PD1 \X PD0 \X PT)

\* What each process uses by each path.
used == [u \in {p \in Thread : mm[p] # none} \X Path |-> entry(u[1], u[2])]

\* Over any history of forks, execs, faults and exits no page is used twice, by two
\* processes, for two addresses, or as a table and as memory; none that is used is free;
\* a page of a program has exactly one reference; and what nobody uses any more is free,
\* but for page tables (exit_range loses some).
PagesUsedOnce ==
  LET u == used
      uses == [q \in Page |-> Cardinality({x \in DOMAIN u : u[x] = q})]
  IN  \A q \in Page :
        /\ uses[q] <= 1
        /\ uses[q] = 1 => q \notin mem.free
        /\ uses[q] = 0 => q \in mem.free \/ mem.data[q] = TABLE
        /\ mem.data[q] \in Value => mem.ref[q] = uses[q]

\* The processor never uses a page directory that was given back: satp is that of the
\* current process's address space, and boot_cr3 if it has none.  cr3 of a dead process,
\* or of one in exec, may be stale; schedule() must not bring it back.
SatpCurrent == satp = IF mm[current] = none THEN BOOT ELSE mm[current].pgdir

-----------------------------------------------------------------------------
\* What p finds at each address: the current process by way of satp.
view == [p \in Thread |-> [la \in Addr |->
          IF mm[p] = none THEN NULL
          ELSE LET q == pte(mem, IF p = current THEN satp ELSE mm[p].pgdir, la)
               IN  IF q = invalid THEN NULL ELSE mem.data[q]]]

\* What the segments of a program come to.
segments(prog, la) == {i \in DOMAIN prog : prog[i].vm_start <= la /\ la < prog[i].vm_end}
images ==
  {[la \in {x \in Addr : segments(prog, x) # {}} |-> prog[CHOOSE i \in segments(prog, la) : TRUE].image] :
     prog \in {q \in Program : \A i \in DOMAIN q : ~q[i].bad}}

\* Each process has a memory of its own, that fork copies and nobody else changes.
Private == INSTANCE PrivateMemory WITH
             memory <- view, Image <- images, Stack <- (USERTOP - LOADED)..(USERTOP - 1)
ImplementsPrivate == Private!Spec
=============================================================================
