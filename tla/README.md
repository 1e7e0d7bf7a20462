# A specification of the NKU 2023 OS labs (ucore for RISC-V)

The repository holds five stages of a teaching kernel, `lab1` to `lab5`.  Each lab is a
complete kernel made from the one before it, so most files exist several times.  `lab5` is
the last stage and the one specified here, with what only an earlier stage has: the best-fit
manager of `lab2` and the page replacement of `lab3`.

The kernel runs on one hart.  It does not preempt itself: a trap from user mode is handled
with interrupts off, a timer interrupt that arrives in a kernel thread only sets
`need_resched`, and the CPU changes hands in `schedule()` alone.  What makes it hard is not
parallelism but long histories: who is whose child after any sequence of forks, exits and
waits, where a sleeping process continues when a kill or a dead child wakes it, which pids
and pages are in use after a counter wrapped or three neighbouring blocks were freed, what a
fork of a fork shares with its parent, where a page is that went to the disk and came back.

## 1. Inventory

| component | source (`src/lab5/kern/` unless said) | state | operations | hard behaviours | what makes it correct | status |
|---|---|---|---|---|---|---|
| processes | `process/proc.c` | `proc_struct` (state, flags, wait_state, parent, cptr, yptr, optr), `proc_list`, `nr_process` | do_fork, do_exit, do_wait, do_kill, do_yield, do_execve, init_main, user_main, cpu_idle | exit racing wait and kill, orphans, a zombie's memory freed by its parent | table and family pointers agree; no lost wake-up; a zombie is collected once; a killed process dies | `Process`, `ProcTree`: all but the address space |
| scheduler | `schedule/sched.c` | `current`, `need_resched`, `proc_list` | wakeup_proc, schedule | list changes between two turns, idleproc as fallback | only runnable processes run; nobody starves | `Process` |
| pids | `process/proc.c:207` | `last_pid`, `next_safe` | get_pid | wrap-around, cached interval, restarting scan | unique pids; it returns | `PidAlloc`, `PidPool` |
| page frames | `mm/default_pmm.c`, `lab2/kern/mm/best_fit_pmm.c`, `libs/list.h` | `free_list`, `nr_free`, `property`, `PG_property` | init_memmap, alloc_pages, free_pages | the order neighbours are freed in; pointer updates | no page lost or given twice; neighbours merged; lowest or tightest area found | `FirstFit`, `PageRuns` |
| system calls, traps | `syscall/syscall.c`, `trap/trap.c` | trap frame; `PF_EXITING`, `need_resched` read in the tail of `trap()` | syscall, trap, timer, page fault | a kill or a tick between two tests | killed programs stop | in `Process`, without trap frames |
| page tables | `mm/pmm.c`, `mm/mmu.h` | page directories, `page->ref` | get_pte, page_insert, page_remove, pgdir_alloc_page, copy_range, unmap_range, exit_range | tables shared by areas; freeing directories | no page used twice, or while it is free; `ref` equals the number of mappings | `PageTable`, used by `AddressSpace` |
| address spaces | `process/proc.c`, `mm/vmm.c` | `mm`, `cr3`, `satp` | copy_mm, do_execve with load_icode, do_exit, exit_mmap, do_pgfault, proc_run | exec that fails half way; a page directory given back while `cr3` has it | each process has its own memory; satp never dangles | `AddressSpace`, `PrivateMemory` |
| virtual memory areas | `mm/vmm.c` | `mmap_list`, `mmap_cache` | mm_map, insert_vma_struct, find_vma, user_mem_check | the cache; ranges over several areas; rounding | sorted, disjoint; exact answers | `Mmap` |
| page replacement | `lab3/kern/mm/swap*.c`, `vmm.c`, `pmm.c` | `pra_list_head`, `visited`, `pra_vaddr`, swap entries in PTEs, the disk, the TLB | do_pgfault, map_swappable, swap_out_victim, swap_out, swap_in | victim choice, stale translations, a page on disk and in memory | contents kept; the policy takes the page it is named for | `Swap`, `Policies`, `SwapUse` |
| kmalloc | `mm/kmalloc.c` | `slobfree`, `bigblocks`, the heads of blocks | kmalloc, kfree, slob_alloc, slob_free | circular sorted list, wrap-around, a page taken in the middle of a search | no overlap, nothing lost, all merged | `Slob`, `Heap` |
| locks | `sync/sync.h` | `mm_lock` | lock, unlock | | | not modelled: see 6 |
| buddy manager | `lab2/kern/mm/buddy_pmm.c` | tree of `longest`, records | alloc_pages, free_pages | mixed sizes | | not modelled: see 6 |
| slub | `lab2/kern/mm/slub_pmm.c` | | | | | not modelled: it calls functions that no file defines |
| lab4 threads | `lab4/kern/process` | | | | | not modelled: lab5's files without exit, wait and kill |
| boot, drivers, console, debugging, libs, user programs, lab1, tools | | | | | | not modelled: start-up code, device I/O, strings and formatting; programs are the environment |

How they interact.  A trap enters `trap()`, which calls the system call or the handler, and
on the way back to user mode kills or reschedules the current process.  System calls work on
the process table and call `wakeup_proc` and `schedule`.  `do_fork` takes a pid from
`get_pid` and pages from `alloc_pages` (for the `proc_struct` through kmalloc, the kernel
stack, and the copy of the address space through the page tables); `do_exit` and `do_wait`
give them back.  `alloc_pages` calls the page manager with interrupts off and, when it finds
nothing, `swap_out`.

`PROJECT.json` lists the hazards, each at its line with the properties that would show it.

## 2. The modules

| module | models | made of |
|---|---|---|
| `Process` | processes, scheduler, system calls, tail of `trap()`, kernel threads | |
| `ProcTree` | abstract: a tree of processes, alive or zombie; fork, exit, collect | |
| `PidAlloc` | `get_pid` with its static variables over the list of processes | |
| `PidPool` | abstract: a set of pids that is gone through in a circle | |
| `FirstFit` | `default_pmm.c` and `best_fit_pmm.c` on lists with both pointers | |
| `PageRuns` | abstract: the lowest or the tightest free area, or a refusal | |
| `PageTable` | operators: three-level page tables over a memory of pages | |
| `AddressSpace` | fork, exec, exit, switch, page faults and stores of processes | EXTENDS `PageTable` |
| `PrivateMemory` | abstract: a memory for each process | |
| `Mmap` | the list of areas and its cache | |
| `Policies` | operators: map_swappable and swap_out_victim of fifo, clock, lru | |
| `Swap` | page faults of lab3 with swap_out, swap_in, disk and TLB | EXTENDS `Policies` |
| `SwapUse` | lru, with the history of the uses of pages | EXTENDS `Swap` |
| `Slob` | kmalloc and kfree | |
| `Heap` | abstract: disjoint bytes of each caller | |
| `MC...` | instances for TLC | EXTENDS the module of the name |
| `ListProofs` | lemmas on induction, on loops and on lists, used by all proof modules | |
| `ProcessProofs`, `PidAllocProofs`, `FirstFitProofs`, `MmapProofs`, `SwapProofs`, `AddressSpaceProofs`, `SlobProofs` | theorems and proofs | EXTENDS the module and `ListProofs` |

**Process.**  A process is named by its pid, and its fields are functions of it: `state`,
`exiting` (`flags & PF_EXITING`), `wait_child` (`wait_state == WT_CHILD`), `need_resched`,
`parent`, `cptr`, `yptr`, `optr`.  `proc_list` is a sequence, since its head insertion and
removals are all `libs/list.h` does for it and `FirstFit` looks at the pointers.  What the
code keeps in kernel stacks and the program counter is `pc[p]`, the place where `p` goes on
when it has the CPU, and `waitpid[p]`, the argument of the `do_wait` it is in.

One action is a stretch of kernel code up to the next `schedule()` or the return to user
mode.  Two are cut finer because what happens between matters: each turn of the loop of
`do_exit` (`Reparent`), and the tail of `trap()` (`TrapTail`).  While the pc of the current
process stands at such a place no other action is enabled, except `KernelTimer`, for kernel
threads run with interrupts on.  Correspondence:

| action | code |
|---|---|
| `Fork`, `ForkFails`, `ForkPanics` | sys_fork, do_fork, set_links; its failures |
| `Exit`, `ExecFails`, `Reparent`, `ExitSchedule` | sys_exit, a do_execve whose load_icode fails, the loop and the end of do_exit |
| `Wait`, `WaitReturns` | do_wait up to schedule(), and from there on |
| `Kill`, `Yield`, `Timer`, `OtherTrap`, `Fault` | do_kill, do_yield, the timer interrupt that ends the slice, traps that change nothing here, a page fault that cannot be served |
| `TrapTail` | the end of `trap()`, trap.c:287-294 |
| `CpuIdle`, `InitMain`, `InitWait`, `InitSchedule`, `InitEnd`, `UserMain`, `KernelTimer` | cpu_idle, init_main, user_main, a timer interrupt in them |
| `Stopped` | after `panic` |

User programs are the environment: in user mode a process takes any of these steps, in any
order.  `kill` is called with any pid (`Killable`) but idleproc's, which `find_proc`
refuses; killing initproc is allowed: when it is asleep in `do_wait` the kill wakes it, it goes
to `do_exit`, and that panics for initproc.  `NoMem` says which allocations may fail.  A failed
one of a single page never returns NULL after `swap_init`: `alloc_pages` calls
`swap_out(check_mm_struct, ...)`, `check_mm_struct` is NULL outside the self test, and the
kernel panics.  Only `setup_kstack`, which asks for two pages, sees NULL.
A panic stops the kernel: `panicked` holds its message.  `Fork` takes any pid that is not
in use; which one `get_pid` returns, and that it returns, is `PidAlloc`'s business.

**PidAlloc.**  `pids` is the list of the pids along `proc_list`; `Call` is `get_pid` up to
its loop, `Scan` one turn of it, `ScanEnds` and `Return` the way back into `do_fork`, which
puts the new process on the list, `Leave` the removal of a collected one.  `get_pid` runs
with interrupts off; cutting it at its turns only serves to reason about them.  `returned` is a
history variable, the pid given out last.  `PidPool` says which pid is next: the first one going
up from there, and round from 1 after the highest, that nobody has.  `get_pid` gives it without
a look at the list most of the time.

**FirstFit.**  A page is its index in `pages[]`; `list` holds the next and prev pointer of
each page and of `free_list`.  A call of `alloc_pages` or `free_pages` is one action, since
`pmm.c` brackets them with `local_intr_save`.  `list_insert` and `list_del` make the
assignments of `list.h` in their order, and `put` does what the insertion loop does, the
turn that is missing a `break` included (finding 2).  `best_fit_pmm.c` is the same program but
for the loop that chooses a block: `pmm_manager`, chosen in Init and never changed, says
which of the two it is, and `fit` is where they differ.  Values that are dead in the code (the
pointers of a page that is not on the list, the property of one that is no block) are set to
a default by `store`.

**PageTable, AddressSpace.**  The operators of `PageTable` map a state of physical memory to
the state a function of `pmm.c` leaves: `free`, `ref`, the entries of pages used as tables,
the content of the others, and `panic` for the `alloc_page` that found nothing.  Addresses
count pages, permission bits are left out.  `AddressSpace` has one action for each system
call or trap that changes address spaces: `Fork` (copy_mm with dup_mmap), `Exec` (the old
address space goes, load_icode builds the new one segment by segment, and on a failure takes
down what there is and exits), `Exit`, `Fault` (do_pgfault), `Write` (a store of the program
through `satp`), `Switch` (proc_run).  `mm_map` is as in `Mmap`: an area that starts in another is
refused, one that reaches into another stops the kernel.  These run with interrupts off and do not call
`schedule()` half way; which process runs next is `Process`'s business, so here it is any.
The two modules meet in what `Process` takes for granted of an address space: that it is
there or not, and that building one may panic or fail.

**Mmap.**  The list as a sequence, the cache as an area.  `mm_map` says what the call returns,
`Map` what it does; `Find` is any other look-up, which leaves its area in the cache.
`AddressSpace` uses `find_vma` without the cache, for `FindsTheArea` shows they agree.

**Swap, Policies.**  `mm` is a record: the page table entries of the pages of the program
(0, a frame, or a swap entry), the frames' content, `pra_vaddr` and `visited`, the list of
the policy, the disk.  `Fault` is do_pgfault with all it calls, `Access` a read or a write
that the processor translates by the entry or by what it holds in `tlb`.  The policy `sm` is
chosen in Init.  `SwapUse` adds to lru the order in which the pages were used last, which the
code does not keep.

**Slob.**  Addresses count units of `SLOB_UNIT` bytes; `units` and `next` are the fields of
the `slob_t` at an address.  A call is one action (`Small`, `Large`, `LargeFails`,
`KfreeSmall`, `KfreeLarge`), the page that slob_alloc takes in the middle of its search
included: the kernel is not preempted and interrupt handlers do not allocate.  The record of
a large object overwrites the length of its block with the order, as the struct does.
Which pages `alloc_pages` gives is left open: any.

## 3. What is checked

| run | instance | question |
|---|---|---|
| `process_safety` | 4 users, MAX_PROCESS 6, kills among them, any failed allocation; symmetry | process table, family pointers, parents, wake-ups, scheduler, the assertions of init_main, refinement of `ProcTree` |
| `process_live` | 3 users, MAX_PROCESS 5, kills of two of them and of initproc, a page may be missing | nobody starves; orphans are collected; killed processes stop |
| `process_kill` | 2 users | **violated**: a kill leads to do_exit (finding 1) |
| `pid_alloc` | MAX_PROCESS 7, MAX_PID 9 | unique pids, the safe gap, termination, refinement of `PidPool`: the next free pid in the circle |
| `first_fit` | both managers, 8 pages, 4 callers, highest page kept free; symmetry | sorted two-way list, pages conserved, merged, assertion, refinement of `PageRuns` |
| `first_fit_full` | 4 pages, 3 callers | **violated**: the assertion of free_pages (finding 2) |
| `address_space` | 2 processes and initproc, 18 pages, tables of 2 entries, 5 programs; symmetry | pages used once, satp, refinement of `PrivateMemory` |
| `mmap` | 5 pages of 2 bytes, 4 for users | sorted list, cache, mm_map and user_mem_check byte by byte |
| `swap` | 3 policies, 3 frames, 4 pages; symmetry | contents kept, frames accounted for; fifo and clock evict the oldest page; lru's `visited` orders the pages |
| `swap_stale` | the same, without the bound `Reswap` | **violated**: contents kept (finding 3) |
| `swap_lru` | lru, 3 frames, 4 pages, the history of uses | **violated**: lru evicts the page not used for longest (finding 4) |
| `slob` | 3 callers, 3 pages of 8 units, 6 sizes; symmetry | the circle, units conserved, refinement of `Heap` |

Bounds.  Four user processes give sibling lists of four, so one is removed from the middle
with neighbours on both sides, grandchildren that become orphans while their old parent's
siblings wait, and fork at the limit of `nr_process`.  With three users there is still an
orphan, its dead parent and a third process to kill either; liveness needs the full state
graph, since symmetry is unsound for it.  Eight pids for six processes on the list make the
scan wrap, collide and start over with as few spare pids as the static assertion `MAX_PID >
MAX_PROCESS` leaves; nothing depends on the real 4096 and 8192 (and the proof says so).
Eight pages and four callers free a block between two free ones, at either end, and with
exact and inexact fits; no caller holds two blocks, but callers are interchangeable, so four
callers are one that holds four.  `Reserve = 1` in `first_fit` restricts the callers: the
highest page is never given out, as is the case on a machine that never uses all its memory,
because with it given out the code is wrong (finding 2).

`address_space` has page tables of all three levels with two entries each (8 pages of
addresses), programs whose segments lie in one page table and in two, with a segment that
clashes with another, one that reaches into another from below, one that goes on into the stack
and one that is no good, and memory for two of them and a little more, so that allocation fails
in every place.  `Written` bounds the addresses programs write to; faults
come anywhere.  In `mmap` every area, look-up and access of the small address space is tried,
to the byte.  `swap` has more pages than frames by one, so each fault evicts; `Reswap =
FALSE` ends a behaviour where the victim is a page that was swapped in at an address that is
not the one its frame remembers, for there the code is wrong (finding 3).  `TOP`, 8,
is the highest of the four bits of `visited` that lru needs for three frames.  In `slob` the proportions are the
code's: a head of one unit, a record of one unit and a half, sizes that round up, that fill a
page but one unit, one page and two; `Size` is a bound on the callers.

`CHECK_DEADLOCK` is on in every run.  A kernel that has panicked stutters in `Stopped`.

Fairness (`FairSpec` of `Process`).  `WF_vars(KernelStep)`: the hart goes on executing
kernel code.  `SF_vars(Timer(p))`: the clock interrupts user programs, so one that is
scheduled over and over has its slice ended at some time; weak fairness would not do, as
each system call of `p` leaves user mode and disables the action for a moment.  No fairness
is assumed of user programs: they may loop, never exit and never wait.  The liveness
properties count a panic as an end.  In `PidAlloc`, `WF_vars(Scan \/ ScanEnds)`: the loop is
executed; whether anyone calls `get_pid` is left open.

## 4. What is proved

With TLAPS, for all values of the constants that satisfy the named assumptions of each
module (for `Process`: finitely many pids, idleproc, initproc and NULL apart, MAX_PROCESS
within them; for `PidAlloc` the static assertion of `get_pid`).  Three modules have theorems
under one more hypothesis.  `FirstFitProofs` assumes `Reserve > 0` and `SwapProofs` assumes
`Reswap = FALSE`, each of which keeps a finding of section 5 out: the passing runs have them,
and without them the runs `first_fit_full` and `swap_stale` show the properties violated;
`VisitedOrdersPages` assumes besides that `visited` has bits enough for the frames.  In
`SlobProofs` only `ImplementsTheHeap` assumes `OrderSuffices`, that `find_order` counts enough
pages for the sizes the callers ask for (section 6 has the sizes of which it does not).

| module | theorems | of the run's properties |
|---|---|---|
| `ProcessProofs` | TypeCorrect, ProcessTableCorrect, SchedulerCorrect, WakeupCorrect, SiblingListsCorrect, ParentsLive, NoWakeupLost, NoDeadlock, InitMainCorrect, KernelImplementsTree | TypeOK, ProcessTable, OnlyRunnableRuns, WakeupAssert, SiblingLists, ParentAlive, NoLostWakeup, SomeoneRuns, InitMainAsserts, ImplementsTree |
| `PidAllocProofs` | TypeCorrect, PidsUnique, GapSafe, PoolImplemented | TypeOK, UniquePids, SafeGap, ImplementsPool |
| `FirstFitProofs` | TypeCorrect, ListCorrect, NoPageLost, AllMerged, FreeNeverAsserts, ManagersImplementRuns | TypeOK, FreeList, PagesConserved, Coalesced, FreeAsserts, BestRun |
| `MmapProofs` | ListSorted, CacheCorrect, MapsFreeMemory, UserMemory | Sorted, FindsTheArea, MapsFreePages, ChecksEveryByte |
| `SwapProofs` | FramesOnce, ContentsKept, OldestEvicted, VisitedOrdersPages | FramesAccounted, ReadsLastWrite, EvictsOldest, VisitedTellsAge |
| `AddressSpaceProofs` | SatpIsCurrent, PagesOnce, TypeCorrect, MemoryPrivate | SatpCurrent, PagesUsedOnce, TypeOK, ImplementsPrivate |
| `SlobProofs` | ListIsCircle, UnitsAccounted, ImplementsTheHeap | FreeCircle, UnitsConserved, ImplementsHeap |

**ProcessProofs**, the lists and states.

    IInv == TypeOK /\ ProcessTable /\ IdleReady /\ current \in Live /\ OnlyRunnableRuns /\ WakeupAssert

No part is inductive alone.  That `remove_links` takes the right entry off `proc_list` needs
`ProcessTable` (each process is on it once) and that the one collected is not the one
running, which is `OnlyRunnableRuns`; that a wake-up resurrects neither a zombie nor a
freed process needs `WakeupAssert`; that `schedule()` picks a runnable process needs
`IdleReady` for its fallback.  There is one lemma for each kind of step (`ForkStep`,
`ExitStep`, `WaitStep`, `ReparentStep`, `KillStep`, and `GotoStep`, `PanicStep`, `QuietStep`
for the rest), and `NextIInv` puts them together.

**ProcessProofs**, the family.

    FamilyInv == Families /\ Unlinked /\ ParentAlive /\ LoopRuns /\ InitLives /\ Ages /\ Sleepers /\ Ends

beside the invariant above.  `Families` says of every process that its children
are a sequence whose links are `cptr`, `optr` and `yptr`, with the one exception of the first
child in the loop of `do_exit`.  The hard steps are `Reparent`, which takes the first child
of one list and makes it the first of another while both are in use, and `do_wait`, which
unlinks from the middle.  `Ages`: `proc_list` has children before their parents, so the links
form a tree.  `Sleepers`: a process asleep in `do_wait` has a child to wait for and none that
is dead; so a sleeping process waits for one that is alive, and the chain of these, which
moves towards the head of `proc_list`, ends at one that does not sleep (`NoDeadlock`).  With
the invariant each action is a step of `ProcTree` or none: `do_exit` and every turn of its
loop map to exit and adoption, and `reap` to the one collection of a process.

**PidAllocProofs.**  `IInv == TypeOK /\ UniquePids /\ SafeGap`: the gap is why a pid may be
returned without a look at the list, and uniqueness of the returned pid keeps the gap when
its process joins the list.  `PoolImplemented` needs to know besides what the call has passed:
`Rotation` has the pids between `returned` and `last_pid`, in the circle, in use while `get_pid`
runs, and, between calls, `last_pid` equal to `returned`.  The hard step is the one of
`last_pid` past the highest pid (`OneFurther`, `NextRotation`).

**FirstFitProofs.**

    IInv == Types /\ FreeBlocks(list, property, PG_property) /\ Blocks /\ Apart /\ Shared

`Linked` replaces "the list has these nodes" by what pointers say in a sorted list: the next
of each block is the least block above it.  So no proof has to speak of the length of a path,
but one, `WalkFacts`: the loop from `free_list` comes by all the blocks in order and then
by `free_list`.  `Parts` and `Gaps` say that blocks do not overlap and do not touch; `Shared`
that the pages outside the free blocks are exactly those the callers hold, which is what
makes a freed block find its place (`PutLinked` needs a block above it: the highest page is
never given out) and overlap none.  The lemmas follow the functions: insertion and
deletion (`InsertLinked`, `DeleteLinked`), the choice of a block (`FitFacts`, `FitIsBest`), split
(`SplitBlocks`), and the two merges, each of which may rely on only the new block touching
others (`MergeLowFacts`, `MergeHighFacts`).  For `PageRuns`, `AreasFacts` shows that the
maximal runs of unused pages are the free blocks.

**MmapProofs.**  `IInv` has the list sorted and the cache one of its areas or NULL.  `UserMemory` is
about the loop of `user_mem_check`, whose every turn starts where the last area ended: by
induction on the byte it has reached.

**SwapProofs.**  `IInv` says where each page is: in a frame, or in its own slot on the disk, or
nowhere yet (`OwnSlot`); that each frame is free, or on the queue once and one page's
(`Accounted`); that the frame, or the slot, has what was written last (`Contents`); and that a
translation the TLB holds is the entry's (`TlbAgrees`).

`OldestEvicted` adds `OrderInv`: the list of the policy is the list of arrivals, newest first
(`Queued`), which is all for fifo and clock.  lru takes the page with the smallest `visited`;
`VisitedOrdersPages` is that the numbers decrease along its list: `Aged` says that entry i was
halved `age[i]` times since it had the top bit, more often than those before it and at most twice
for each page that came since, and `Halved` that its number then lies between two powers of two.
The bands of different ages are disjoint as long as no bit falls off the end, which is the
hypothesis `Enough`: 2 * Cardinality(Frame) <= w + 3, where w is the highest bit.  With w = 31,
as in the code, that is 17 frames; with w = 3, as in the run, three.  So what lru evicts is the
page that came first as well, which is what finding 4 is about.

**AddressSpaceProofs.**  `SatpInv` relates three copies of the same fact: `satp`, `cr3` of each
process and `mm->pgdir`.  `OnlyTheLiving` has the processes that can run; the `cr3` of the
others may be stale.  The operators of `PageTable` are loops over addresses: each is shown to
return a memory of the right shape, for any number of pages and any width of the tables.

    ForestInv == SatpInv /\ Good(mem, {}) /\ Spaces(mem, mm)

`Good(m, H)`, where H is a page that the kernel has in its hand and has not mapped yet, says
that the used pages of m are a forest (`Forest`): of level-0 directories D, page tables T and
pages of programs each is the entry of exactly one table of the level above, the counts are
one for what is mapped and nothing leads from a free page.  That is what makes `page_remove`
free a page rather than share it, and what lets `exit_range` give tables back without a look
at who else might use them.  `Spaces`: each process has a page directory of its own, in which
nothing is mapped outside its areas; so the unmapping of the areas leaves no page behind
(`Within`).  The lemmas follow the functions (`MapGood`, `RemoveGood`, `CopyRangeGood`,
`DropGood`, `LoadSegmentsGood`, ...) and say of each that the memory stays good and that only
the given addresses of the given directory changed (`Edited`).  `ExitPd0Exits` is where the
finding of section 6 about `exit_range` has to be dealt with: the tables it leaks stay in D
and T of no process, with nothing mapped through them.

For `PrivateMemory`, `Memories(m, f)` is what each process finds by its own page directory;
`ViewIsMemories` says that this is what the processor finds by `satp`.  Each call is a step
there because of what its lemma says beside the invariant.  `Elsewhere`: no other directory
leads anywhere else, and the pages it leads to hold the same.  `Forked`: the child has a copy
of each page of its parent and no other.  `Loaded` and `Ready`: each page of a segment holds
the image of that segment, as no later segment goes over it: the kernel would have refused its
area or stopped at the assertion (`AreasApart`).  Besides there are the pages of the stack, apart
for the same reason.  A failed exec is the end of the process, with the half-loaded space given back
unseen.

**SlobProofs.**

    IInv == MemoryInv(heap, free, Objects(heap, got)) /\ CallersInv(heap, got)

`FreeBlocks` describes the circle by a set of blocks: each is linked to the least block above
it, the last one to the arena, and blocks neither overlap nor touch.  `CircleWalks` leads from
there to the sequence that the loops of the code come by, and `PlaceBelow` to the block after
which `slob_free` puts one.  The steps of the code follow: `TakeCuts` for `slob_alloc`,
`NotJoinedNext`, `JoinedNext`, `NotJoinedCur` and `JoinedCur` for `slob_free`, in which for a
moment a block that is in its place may touch the one before it.  `Shared` gives each unit
one owner, the list, a free page, an object, a record, or the pages of a large object; every
call moves units from owner to owner (`MoveFacts`).  `CallersInv` is what `kfree` has to go
by: the unit before a small object says how long it is, a large one has a record, and two
callers have not the same one.  That an object which happens to begin on a page is not taken
for a large one follows, as units have one owner.

**ListProofs.**  The provers cannot apply the library's induction theorems, which quantify
over operators.  `Induction` is about a set of numbers instead of a formula: what it is applied
to is a set that a proof defines.  It gives the recursive functions of the models
(`LoopExists`, `LoopKeeps`: a loop that keeps a predicate in each turn keeps it to its end)
and with them everything above that is about loops, `walk` and lists.

Only model-checked: all liveness properties, as the prover does not do fairness.

## 5. Findings

1. `do_kill` of a process that is preempted can be forgotten.  `trap()` tests PF_EXITING
   before its `schedule()`, and `do_wait` only after it.  A process killed while it was
   switched out returns to user mode; if its next trap is `wait` it sleeps, a second kill is
   refused as `-E_KILLED`, and it dies only when a child of it exits.  The head of `proc.c`
   gives the chain do_kill, wakeup_proc, do_wait, do_exit.  What does hold is checked by
   `KilledWaiterDies` and `KilledProgramStops`.
2. The insertion loops of `default_pmm.c` (and `best_fit_pmm.c`) do not leave after they
   appended a block above all others, and then insert it after itself.  The block is never
   merged, cannot be unlinked, and is given out twice.
3. `do_pgfault` of lab3 leaves `pra_vaddr` of a page it swaps in as the frame had it (the
   assignment is commented out).  When that page is the victim, swap_out takes the address of
   another page: either its assertion fails, or it writes the page to the other's slot on the
   disk and invalidates the other's entry, and the frame goes to a third page while the first
   is still mapped to it.
4. lru does not look at the uses of pages: it sets the highest bit of `visited` when a page gets
   its frame, and never again, so the page that came first is evicted, whatever was used since.
   Its own self test (`swap_lru.c:107-146`, built but not run, as `swap.c:43` selects clock)
   writes the pages c, a, d, b, e, b, a and counts on a being there still: it would fail at
   line 128.

## 6. Not modelled, and known deviations

Behaviour of the code that differs from what one would expect, met while modelling, and which
no run shows.  The modules have the first three as they are:

- A fork that finds no kernel stack panics the kernel where it should return `-E_NO_MEM`: the
  goto at `proc.c:509` leads to the label that frees the stack, one before the right one, with
  `kstack` still 0, and `PADDR` takes no such address.
- `mm_map` looks for an area at its first address only.  An area that starts below another and
  reaches into it is not refused, as the comment at `vmm.c:173` has it, but stops the kernel at
  the assertion at `vmm.c:108`.  `MapsFreePages` counts that as not accepted.
- `exit_range` frees a level-0 directory when all the entries it looked at were valid, where
  `pmm.c:333` says invalid.  It clears them, but goes by what they were before, and looks only
  at those of one area.  Page tables are lost with the directory that is freed over them, as
  after a program with the text and bss of testbss; directories are lost when an area has a
  hole.  `PagesUsedOnce` exempts page tables.
- clock marks a page when it gets its frame only, too, so it evicts in the order of arrival.
  Read in source order, its self test (`_clock_check_swap`) counts on page a being there after
  the fault of e, which it is not; `grade.sh:413-422` expects the compiled kernel to evict 0x1000
  first and to come back to it last: the plain stores in between are not in the output.
- `find_order` of `kmalloc.c` gives half the pages for sizes just above a power of two of
  pages (8193), and sizes just below a page (4064 to 4079) fail the assertion of slob_alloc.
  Nobody asks for such sizes; `Size` has none.  `ksize`, which nobody calls, counts the head.
- lru needs `2n - 2` bits of `page->visited` to tell `n` frames apart; with fewer it may evict
  the newest page.  32 bits are enough for the four frames of its self test.
- the buddy manager of lab2 gives a block out twice after alloc_pages(4), free_pages,
  alloc_pages(1), alloc_pages(4): `buddy_free_pages` marks the leaf, not the node of the
  block, as free with the size of the block.  No property of an allocator holds of it, so it
  has no module.
- `alloc_pages(1)` without a free page, and a page fault that cannot be served, stop the
  kernel; the modules have that as it is.

Left out:

- `sync.h`: the only lock is `mm_lock`, of an address space that no two processes share
  (`sys_fork` passes no CLONE_VM and kernel threads have none), taken and released inside one
  system call.  It is never found taken, and `mm_count` is never above 1.
- permission bits, and the branch of copy_range that shares pages: `dup_mmap` passes 0.
- `lab4`: lab5's files without exit, wait and kill.  `lab1` prints and counts ticks.
- boot, drivers, console, debugging, strings, formatting and the user programs; ELF files and
  trap frames as data.
- the copy of the swap code in lab5: `init.c` calls `swap_init`, but outside its self test
  `check_mm_struct` is NULL and no page is made swappable, so a page fault never finds a swap
  entry (that branch of `do_pgfault` is not in `AddressSpace`).  In lab3, a failing
  `swapfs_write`, which the RAM disk never reports.  The self tests of all labs.
- the TLB in `AddressSpace`: `lcr3` (`riscv.h:245`) writes `satp` without a `sfence.vma`; the
  module translates by the new directory at once.  (`Swap` has the TLB, for one address space.)
- `user_mem_check` of a kernel thread (`mm` NULL), which looks at the range alone, and mm_map's
  `-E_NO_MEM`: `vma_create` asks for less than a page, and the kernel panics before it sees NULL.

Most of the source lines are copies: the same kernel exists in five stages, each with its own
`riscv.h` and libraries, so the lines the modules stand for are a small part of all lines.

## 7. Plan

Every invariant, action property and refinement that a run checks is a theorem; what is left
is about liveness.  The prover does no fairness, but what bounds a loop can be proved.

1. `PidAlloc`: each pass of the loop of `get_pid` over the list either returns a pid or has
   found `last_pid` taken, and there are fewer processes than pids; so the passes are bounded,
   which is what `GetPidReturns` rests on.
2. `Process`: the turns of the loop of `do_exit` take one child each, so the loop ends.
3. `Swap`: how many turns the hand of the clock makes before it finds a page.
