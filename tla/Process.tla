------------------------------ MODULE Process -------------------------------
(***************************************************************************)
(* The processes of lab5: kern/process/proc.c, kern/schedule/sched.c and   *)
(* the tail of trap() in kern/trap/trap.c.                                 *)
(*                                                                         *)
(* The kernel runs on one hart and never preempts itself: a trap from user *)
(* mode is taken with interrupts off, and the CPU changes hands only in    *)
(* schedule().  So one action is a stretch of kernel code that runs to its *)
(* next schedule() or back to user mode; pc[p] says where p continues when *)
(* the CPU is given to it.  do_exit is cut at each turn of its loop and    *)
(* the tail of trap() is an action of its own: while the pc of the current *)
(* process stands there no other action is enabled.                        *)
(*                                                                         *)
(* A process is named by its pid.  That get_pid never returns a pid in use *)
(* is what module PidAlloc is about; here do_fork takes any unused pid.    *)
(***************************************************************************)
EXTENDS Integers, FiniteSets, SequencesExt

CONSTANTS
  User,         \* the pids get_pid can return after initproc's
  idleproc,     \* pid 0
  initproc,     \* pid 1
  NULL,         \* the null pointer
  MAX_PROCESS,  \* the bound of nr_process
  Killable,     \* the pids programs pass to kill; find_proc refuses idleproc's
  NoMem         \* what may run out: a "page", or two in a row for a "kstack"

Proc == User \cup {idleproc, initproc}

ASSUME ProcessAssumption ==
  /\ IsFiniteSet(User)
  /\ idleproc # initproc
  /\ {idleproc, initproc} \cap User = {}
  /\ NULL \notin Proc
  /\ MAX_PROCESS \in Nat
  /\ 3 <= MAX_PROCESS
  /\ MAX_PROCESS <= Cardinality(User) + 2
  /\ Killable \subseteq User \cup {initproc}
  /\ NoMem \subseteq {"page", "kstack"}

ANY == NULL   \* the pid argument 0 of do_wait

VARIABLES
  state,         \* proc->state, PROC_UNINIT for a pid without a proc_struct
  exiting,       \* proc->flags & PF_EXITING
  wait_child,    \* proc->wait_state = WT_CHILD
  need_resched,  \* proc->need_resched
  parent, cptr, yptr, optr,  \* the relations between processes
  proc_list,     \* the process list, from proc_list.next on
  nr_process,    \* the number of processes
  current,       \* the process that has the CPU
  pc,            \* where a process continues when it has the CPU
  waitpid,       \* the pid argument of the do_wait a process is in
  panicked       \* the message of the panic that stopped the kernel, or "no"

links == <<parent, cptr, yptr, optr, proc_list, nr_process>>
vars == <<state, exiting, wait_child, need_resched, links, current, pc, waitpid, panicked>>

Live == {p \in Proc : state[p] # "PROC_UNINIT"}

TypeOK ==
  /\ state \in [Proc -> {"PROC_UNINIT", "PROC_SLEEPING", "PROC_RUNNABLE", "PROC_ZOMBIE"}]
  /\ exiting \in [Proc -> BOOLEAN]
  /\ wait_child \in [Proc -> BOOLEAN]
  /\ need_resched \in [Proc -> BOOLEAN]
  /\ parent \in [Proc -> Proc \cup {NULL}]
  /\ cptr \in [Proc -> Proc \cup {NULL}]
  /\ yptr \in [Proc -> Proc \cup {NULL}]
  /\ optr \in [Proc -> Proc \cup {NULL}]
  /\ proc_list \in Seq(Proc)
  /\ nr_process \in Int
  /\ current \in Proc
  /\ pc \in [Proc -> {"none", "cpu_idle", "init_main", "init_wait", "init_sched",
                      "init_end", "user_main", "user", "trap_tail", "do_wait",
                      "do_exit", "dead"}]
  /\ waitpid \in [Proc -> User \cup {ANY}]
  /\ panicked \in {"no", "initproc exit", "handle pgfault failed", "invalid kva"}

\* proc_init: idleproc runs, and has created initproc.
Init ==
  /\ state = [p \in Proc |-> IF p \in User THEN "PROC_UNINIT" ELSE "PROC_RUNNABLE"]
  /\ exiting = [p \in Proc |-> FALSE]
  /\ wait_child = [p \in Proc |-> FALSE]
  /\ need_resched = [p \in Proc |-> p = idleproc]
  /\ parent = [p \in Proc |-> IF p = initproc THEN idleproc ELSE NULL]
  /\ cptr = [p \in Proc |-> IF p = idleproc THEN initproc ELSE NULL]
  /\ yptr = [p \in Proc |-> NULL]
  /\ optr = [p \in Proc |-> NULL]
  /\ proc_list = <<initproc>>
  /\ nr_process = 2
  /\ current = idleproc
  /\ pc = [p \in Proc |-> CASE p = idleproc -> "cpu_idle"
                            [] p = initproc -> "init_main"
                            [] OTHER -> "none"]
  /\ waitpid = [p \in Proc |-> ANY]
  /\ panicked = "no"

\* Where p is on proc_list (its list_link).
place(p) == CHOOSE i \in DOMAIN proc_list : proc_list[i] = p

-----------------------------------------------------------------------------
(* sched.c *)

\* Mutant: schedule() always starts from the head of the list.
round_from_head == proc_list

\* The processes schedule() looks at, in order: from the one after current
\* round to current itself; from the head of the list if idleproc is current.
round ==
  IF current = idleproc THEN proc_list
  ELSE SubSeq(proc_list, place(current) + 1, Len(proc_list)) \o SubSeq(proc_list, 1, place(current))

\* Mutant: the loop of schedule() ends before it comes back to current, and next
\* stays NULL if it finds nothing.
pick_no_fallback(st) ==
  LET found == {i \in 1..(Len(round) - 1) : st[round[i]] = "PROC_RUNNABLE"}
  IN  IF found = {} THEN NULL
      ELSE round[CHOOSE i \in found : \A j \in found : i <= j]

\* Mutant: schedule() does not look at the state of the process.
pick_any(st) == round[1]

\* The process schedule() picks when the states are st.
pick(st) ==
  LET r == round
      First(i) == /\ st[r[i]] = "PROC_RUNNABLE"
                  /\ \A j \in 1..(i - 1) : st[r[j]] # "PROC_RUNNABLE"
  IN  IF \E i \in DOMAIN r : First(i) THEN r[CHOOSE i \in DOMAIN r : First(i)]
      ELSE idleproc

\* schedule(), called when the states are st.
schedule(st) ==
  /\ need_resched' = [need_resched EXCEPT ![current] = FALSE]
  /\ current' = pick(st)

no_schedule == UNCHANGED <<need_resched, current>>

\* Mutant: wakeup_proc leaves wait_state as it is.
wakeup_proc_waiting(Q, st) ==
  /\ state' = [p \in Proc |-> IF p \in Q THEN "PROC_RUNNABLE" ELSE st[p]]
  /\ UNCHANGED wait_child

\* wakeup_proc on the processes Q, none of them a zombie, when the states are st.
wakeup_proc(Q, st) ==
  /\ state' = [p \in Proc |-> IF p \in Q THEN "PROC_RUNNABLE" ELSE st[p]]
  /\ wait_child' = [p \in Proc |-> IF p \in Q THEN FALSE ELSE wait_child[p]]

-----------------------------------------------------------------------------
(* the relations between processes *)

\* set_links of the new process c of p.
set_links(p, c) ==
  /\ proc_list' = <<c>> \o proc_list
  /\ nr_process' = nr_process + 1
  /\ parent' = [parent EXCEPT ![c] = p]
  /\ optr' = [optr EXCEPT ![c] = cptr[p]]
  /\ yptr' = [q \in Proc |-> IF q = cptr[p] THEN c ELSE yptr[q]]
  /\ cptr' = [cptr EXCEPT ![p] = c]

\* Mutant: remove_links does not count nr_process down.
remove_links_uncounted(c) ==
  /\ proc_list' = RemoveAt(proc_list, place(c))
  /\ UNCHANGED nr_process
  /\ parent' = [parent EXCEPT ![c] = NULL]
  /\ optr' = [q \in Proc |-> IF q = c THEN NULL
                             ELSE IF q = yptr[c] THEN optr[c] ELSE optr[q]]
  /\ yptr' = [q \in Proc |-> IF q = c THEN NULL
                             ELSE IF q = optr[c] THEN yptr[c] ELSE yptr[q]]
  /\ cptr' = IF yptr[c] = NULL THEN [cptr EXCEPT ![parent[c]] = optr[c]] ELSE cptr

\* remove_links of c; the proc_struct is freed after it, so its fields end NULL.
remove_links(c) ==
  /\ proc_list' = RemoveAt(proc_list, place(c))
  /\ nr_process' = nr_process - 1
  /\ parent' = [parent EXCEPT ![c] = NULL]
  /\ optr' = [q \in Proc |-> IF q = c THEN NULL
                             ELSE IF q = yptr[c] THEN optr[c] ELSE optr[q]]
  /\ yptr' = [q \in Proc |-> IF q = c THEN NULL
                             ELSE IF q = optr[c] THEN yptr[c] ELSE yptr[q]]
  /\ cptr' = IF yptr[c] = NULL THEN [cptr EXCEPT ![parent[c]] = optr[c]] ELSE cptr

\* The n-th child of p on its list, from cptr on; NULL past the end.
nth_child(p) ==
  LET nth[i \in 0..Cardinality(Proc)] ==
        IF i = 0 THEN cptr[p]
        ELSE IF nth[i - 1] = NULL THEN NULL ELSE optr[nth[i - 1]]
  IN  nth

-----------------------------------------------------------------------------
(* proc.c: do_fork *)

\* p has the CPU of a kernel that has not stopped, and continues at label.
At(p, label) == panicked = "no" /\ current = p /\ pc[p] = label

\* do_fork by p succeeds: c is a new child that starts at label, p goes on at next.
do_fork(p, c, label, next) ==
  /\ nr_process < MAX_PROCESS
  /\ state[c] = "PROC_UNINIT"
  /\ set_links(p, c)
  /\ state' = [state EXCEPT ![c] = "PROC_RUNNABLE"]
  /\ wait_child' = [wait_child EXCEPT ![p] = FALSE]
  /\ pc' = [pc EXCEPT ![c] = label, ![p] = next]
  /\ UNCHANGED <<exiting, waitpid, panicked>> /\ no_schedule

\* The kernel stops with the message msg.
panic(msg) ==
  /\ panicked' = msg
  /\ UNCHANGED <<state, exiting, wait_child, links, pc, waitpid>> /\ no_schedule

\* alloc_pages(1) finds no page: after swap_init it does not return NULL, it calls
\* swap_out of check_mm_struct, which is NULL, and nothing serves that page fault.
no_page == "page" \in NoMem /\ panic("handle pgfault failed")

\* No memory for the kernel stack: put_kstack is called with kstack = 0.
no_kstack == "kstack" \in NoMem /\ panic("invalid kva")

\* Only the place where p continues changes.
goto(p, label) ==
  /\ pc' = [pc EXCEPT ![p] = label]
  /\ UNCHANGED <<state, exiting, wait_child, links, waitpid, panicked>>

Fork(p) == At(p, "user") /\ \E c \in User : do_fork(p, c, "user", "trap_tail")

\* Too many processes: -E_NO_FREE_PROC.
ForkFails(p) ==
  /\ At(p, "user")
  /\ nr_process >= MAX_PROCESS
  /\ goto(p, "trap_tail") /\ no_schedule

\* No memory: one of the pages for the proc_struct and the copy of the address space,
\* or the kernel stack.
ForkPanics(p) == At(p, "user") /\ nr_process < MAX_PROCESS /\ (no_page \/ no_kstack)

-----------------------------------------------------------------------------
(* proc.c: do_exit *)

\* Mutant: do_exit wakes no parent, initproc no more than another.
waiting_none(p) == {}

\* The parent do_exit of p wakes: it waits for some child.
waiting_parent(p) == {q \in {parent[p]} : wait_child[q]}

\* do_exit up to its loop, in which the address space of p is freed; initproc must
\* not exit.
do_exit(p) ==
  \/ p = initproc /\ panic("initproc exit")
  \/ /\ p # initproc
     /\ wakeup_proc(waiting_parent(p), [state EXCEPT ![p] = "PROC_ZOMBIE"])
     /\ pc' = [pc EXCEPT ![p] = "do_exit"]
     /\ waitpid' = [waitpid EXCEPT ![p] = ANY]
     /\ UNCHANGED <<exiting, links, panicked>> /\ no_schedule

\* initproc is woken for the child c it is given: c is dead and it waits.
waiting_init(c) == {q \in {initproc} : state[c] = "PROC_ZOMBIE" /\ wait_child[q]}

\* Mutant: do_exit does not clear the yptr of the child it moves.
adopt_stale_yptr(p, c) ==
  /\ cptr' = [cptr EXCEPT ![p] = optr[c], ![initproc] = c]
  /\ optr' = [optr EXCEPT ![c] = cptr[initproc]]
  /\ yptr' = [q \in Proc |-> IF q = cptr[initproc] THEN c ELSE yptr[q]]
  /\ parent' = [parent EXCEPT ![c] = initproc]

\* Mutant: do_exit does not set the parent of the child it moves.
adopt_no_parent(p, c) ==
  /\ cptr' = [cptr EXCEPT ![p] = optr[c], ![initproc] = c]
  /\ optr' = [optr EXCEPT ![c] = cptr[initproc]]
  /\ yptr' = [q \in Proc |-> IF q = c THEN NULL
                             ELSE IF q = cptr[initproc] THEN c ELSE yptr[q]]
  /\ UNCHANGED parent

\* The links of initproc's children once c, the first child of p, is one of them.
adopt(p, c) ==
  /\ cptr' = [cptr EXCEPT ![p] = optr[c], ![initproc] = c]
  /\ optr' = [optr EXCEPT ![c] = cptr[initproc]]
  /\ yptr' = [q \in Proc |-> IF q = c THEN NULL
                             ELSE IF q = cptr[initproc] THEN c ELSE yptr[q]]
  /\ parent' = [parent EXCEPT ![c] = initproc]

\* One turn of do_exit's loop: the first child of p becomes initproc's.
Reparent(p) ==
  /\ At(p, "do_exit")
  /\ cptr[p] # NULL
  /\ adopt(p, cptr[p])
  /\ wakeup_proc(waiting_init(cptr[p]), state)
  /\ UNCHANGED <<exiting, proc_list, nr_process, pc, waitpid, panicked>> /\ no_schedule

\* Mutant: do_exit has no loop and leaves the children of p behind.
exit_leaves_children(p) ==
  /\ At(p, "do_exit")
  /\ schedule(state)
  /\ goto(p, "dead")

\* The end of do_exit: p gives up the CPU for good.
ExitSchedule(p) ==
  /\ At(p, "do_exit")
  /\ cptr[p] = NULL
  /\ schedule(state)
  /\ goto(p, "dead")

Exit(p) == At(p, "user") /\ do_exit(p)

-----------------------------------------------------------------------------
(* proc.c: do_wait *)

\* The children do_wait of p looks at.
candidates(p, pid) ==
  IF pid = ANY THEN Range(nth_child(p)) \ {NULL}
  ELSE {c \in {pid} : state[c] # "PROC_UNINIT" /\ parent[c] = p}

\* Mutant: do_wait with a pid does not look at the state of the child.
finds_any(p, pid, c) ==
  /\ c \in candidates(p, pid)
  /\ pid = ANY => state[c] = "PROC_ZOMBIE"

\* c is the dead child do_wait of p finds: the first on the list, or pid.
finds(p, pid, c) ==
  /\ c \in candidates(p, pid)
  /\ state[c] = "PROC_ZOMBIE"
  /\ pid = ANY => LET kids == nth_child(p)
                  IN  \E i \in DOMAIN kids :
                        kids[i] = c /\ \A j \in 0..(i - 1) : state[kids[j]] # "PROC_ZOMBIE"

\* Where p goes on when do_wait returns 0 (ok) or an error.
wait_returns(p, ok) ==
  IF p # initproc THEN "trap_tail" ELSE IF ok THEN "init_sched" ELSE "init_end"

\* do_wait finds a dead child: it is unlinked and its proc_struct is freed.
reap(p, pid) ==
  \E c \in Proc :
    /\ finds(p, pid, c)
    /\ remove_links(c)
    /\ state' = [state EXCEPT ![c] = "PROC_UNINIT"]
    /\ exiting' = [exiting EXCEPT ![c] = FALSE]
    /\ pc' = [pc EXCEPT ![c] = "none", ![p] = wait_returns(p, TRUE)]
    /\ waitpid' = [waitpid EXCEPT ![p] = ANY]
    /\ UNCHANGED <<wait_child, panicked>> /\ no_schedule

\* do_wait finds children and none of them dead: p sleeps and gives up the CPU.
sleep(p, pid) ==
  LET st == [state EXCEPT ![p] = "PROC_SLEEPING"]
  IN  /\ candidates(p, pid) # {}
      /\ ~ \E c \in Proc : finds(p, pid, c)
      /\ state' = st
      /\ wait_child' = [wait_child EXCEPT ![p] = TRUE]
      /\ schedule(st)
      /\ pc' = [pc EXCEPT ![p] = "do_wait"]
      /\ waitpid' = [waitpid EXCEPT ![p] = pid]
      /\ UNCHANGED <<exiting, links, panicked>>

\* do_wait finds no child: it returns -E_BAD_PROC.
no_child(p, pid) ==
  /\ candidates(p, pid) = {}
  /\ pc' = [pc EXCEPT ![p] = wait_returns(p, FALSE)]
  /\ waitpid' = [waitpid EXCEPT ![p] = ANY]
  /\ UNCHANGED <<state, exiting, wait_child, links, panicked>> /\ no_schedule

do_wait(p, pid) == reap(p, pid) \/ sleep(p, pid) \/ no_child(p, pid)

Wait(p) == At(p, "user") /\ \E pid \in User \cup {ANY} : do_wait(p, pid)

\* Mutant: PF_EXITING is not checked.
killed_unchecked(p) == FALSE

\* A process that was killed does not go on with do_wait when it wakes up.
killed_in_wait(p) == exiting[p]

\* schedule() in do_wait returns: p dies if it was killed, and repeats if not.
WaitReturns(p) ==
  /\ At(p, "do_wait")
  /\ IF killed_in_wait(p) THEN do_exit(p) ELSE do_wait(p, waitpid[p])

-----------------------------------------------------------------------------
(* The other system calls, and traps *)

\* The process a kill wakes: q can be interrupted in what it waits for.
interrupted(q) == {r \in {q} : wait_child[r]}

\* do_kill of q finds it and it was not killed yet.
Kill(p, q) ==
  /\ At(p, "user")
  /\ q \in Live /\ ~exiting[q]
  /\ exiting' = [exiting EXCEPT ![q] = TRUE]
  /\ wakeup_proc(interrupted(q), state)
  /\ pc' = [pc EXCEPT ![p] = "trap_tail"]
  /\ UNCHANGED <<links, waitpid, panicked>> /\ no_schedule

\* do_yield; and the timer interrupt that ends the time slice of p.
resched(p) ==
  /\ need_resched' = [need_resched EXCEPT ![p] = TRUE]
  /\ goto(p, "trap_tail") /\ UNCHANGED current

Yield(p) == At(p, "user") /\ resched(p)

Timer(p) == At(p, "user") /\ resched(p)

\* A trap that changes nothing here: a timer interrupt within the slice, a page
\* fault that is served, sys_getpid, a call refused for its arguments, a kill
\* of a pid not in use or killed already, an exec that succeeds.
OtherTrap(p) == At(p, "user") /\ goto(p, "trap_tail") /\ no_schedule

\* A page fault that is not served: at an address in no vma, or for want of a page.
Fault(p) == At(p, "user") /\ panic("handle pgfault failed")

\* do_execve has freed the old address space and load_icode fails.
ExecFails(p) == At(p, "user") /\ do_exit(p)

\* The tail of trap() kills p.
killed_in_trap(p) == exiting[p]

\* The tail of trap(): p dies, gives up the CPU, or goes back to user mode.
TrapTail(p) ==
  /\ At(p, "trap_tail")
  /\ \/ killed_in_trap(p) /\ do_exit(p)
     \/ /\ ~killed_in_trap(p) /\ need_resched[p]
        /\ schedule(state) /\ goto(p, "user")
     \/ /\ ~killed_in_trap(p) /\ ~need_resched[p]
        /\ goto(p, "user") /\ no_schedule

-----------------------------------------------------------------------------
(* The kernel threads *)

\* cpu_idle.
CpuIdle ==
  /\ At(idleproc, "cpu_idle")
  /\ need_resched[idleproc]
  /\ schedule(state) /\ goto(idleproc, "cpu_idle")

\* A timer interrupt in a kernel thread marks it and does not switch.
KernelTimer(p) ==
  /\ panicked = "no" /\ current = p
  /\ p \in {idleproc, initproc} \/ pc[p] = "user_main"
  /\ need_resched' = [need_resched EXCEPT ![p] = TRUE]
  /\ UNCHANGED <<state, exiting, wait_child, links, current, pc, waitpid, panicked>>

\* init_main creates user_main.
InitMain ==
  /\ At(initproc, "init_main")
  /\ \E c \in User : do_fork(initproc, c, "user_main", "init_wait")

InitMainFails == At(initproc, "init_main") /\ (no_page \/ no_kstack)

\* The loop of init_main: wait for any child, then schedule().
InitWait == At(initproc, "init_wait") /\ do_wait(initproc, ANY)

InitSchedule ==
  /\ At(initproc, "init_sched")
  /\ schedule(state) /\ goto(initproc, "init_wait")

\* What init_main asserts when it has no child left.
init_main_asserts ==
  /\ cptr[initproc] = NULL /\ yptr[initproc] = NULL /\ optr[initproc] = NULL
  /\ nr_process = 2
  /\ proc_list = <<initproc>>

\* The assertions of init_main hold, it returns to kernel_thread_entry, and that exits.
InitEnd == At(initproc, "init_end") /\ init_main_asserts /\ do_exit(initproc)

\* user_main becomes the first user process, or fails: its program is no valid ELF file,
\* or there is no page for it.
UserMain(p) == At(p, "user_main") /\ goto(p, "user") /\ no_schedule
UserMainFails(p) == At(p, "user_main") /\ (do_exit(p) \/ no_page)

\* panic has shut the machine down.
Stopped == panicked # "no" /\ UNCHANGED vars

-----------------------------------------------------------------------------
\* What a user program does, or has happen to it, while it has the CPU.
UserStep(p) ==
  \/ Fork(p) \/ ForkFails(p) \/ ForkPanics(p)
  \/ Exit(p) \/ ExecFails(p) \/ Fault(p)
  \/ Wait(p)
  \/ \E q \in Killable : Kill(p, q)
  \/ Yield(p) \/ Timer(p) \/ OtherTrap(p)

\* What the kernel does by itself.
KernelStep ==
  \/ \E p \in User : TrapTail(p) \/ Reparent(p) \/ ExitSchedule(p)
                    \/ UserMain(p) \/ UserMainFails(p)
  \/ \E p \in Proc : WaitReturns(p)
  \/ CpuIdle
  \/ InitMain \/ InitMainFails \/ InitWait \/ InitSchedule \/ InitEnd

Next ==
  \/ \E p \in User : UserStep(p)
  \/ KernelStep
  \/ \E p \in Proc : KernelTimer(p)
  \/ Stopped

Spec == Init /\ [][Next]_vars

\* The hart goes on executing kernel code, and the timer goes on ticking: a
\* program that is scheduled again and again has its slice ended at some time.
Fairness == WF_vars(KernelStep) /\ \A p \in User : SF_vars(Timer(p))

FairSpec == Spec /\ Fairness

-----------------------------------------------------------------------------
(* Safety *)

\* p is in the loop of do_exit.  The yptr of its first child may then lead to a
\* child that initproc has already: the next turn clears it.
InLoop(p) == pc[p] = "do_exit"

\* Every process but idleproc is on proc_list once, and nr_process counts them all
\* (set_links, remove_links): schedule() sees everyone and do_fork's limit is exact.
ProcessTable ==
  /\ Range(proc_list) = Live \ {idleproc}
  /\ IsInjective(proc_list)
  /\ nr_process = Len(proc_list) + 1
  /\ nr_process <= MAX_PROCESS

\* The list from cptr along optr holds exactly the processes whose parent is p, yptr
\* is the inverse of optr along it, and no pointer of a live process leads to a freed
\* proc_struct: what set_links, remove_links and the loop of do_exit keep up together.
SiblingLists ==
  /\ \A p \in Live :
       /\ Range(nth_child(p)) \ {NULL} = {c \in Live : parent[c] = p}
       /\ \A c \in Live : cptr[p] = c /\ ~InLoop(p) => yptr[c] = NULL
       /\ \A c \in Live : optr[p] = c => yptr[c] = p
       /\ \A y \in Live : yptr[p] = y /\ ~InLoop(parent[p]) => optr[y] = p
       /\ \A q \in {cptr[p], optr[p]} : q \in Live \cup {NULL}

\* Whose child is never left behind: the parent of a process is there and is not a
\* zombie, except in the loop of do_exit that gives the children to initproc.
ParentAlive ==
  \A c \in Live \ {idleproc} :
    /\ parent[c] \in Live
    /\ state[parent[c]] = "PROC_ZOMBIE" => InLoop(parent[c])

\* do_exit and do_wait share no lock but the CPU: a process never sleeps in do_wait
\* once what it waits for has happened, and has something to wait for.
NoLostWakeup ==
  \A p \in Live : state[p] = "PROC_SLEEPING" =>
    /\ candidates(p, waitpid[p]) # {}
    /\ \A c \in candidates(p, waitpid[p]) : state[c] # "PROC_ZOMBIE"

\* wakeup_proc asserts that it wakes no zombie: who it is called for, because of the
\* wait_state of that process, is asleep in do_wait.
WakeupAssert ==
  \A p \in Proc : wait_child[p] <=> state[p] = "PROC_SLEEPING" /\ pc[p] = "do_wait"

\* schedule() in do_exit never returns ("do_exit will not return"): the process with
\* the CPU is ready to run, and a process that went through do_exit never is again.
OnlyRunnableRuns ==
  /\ state[current] = "PROC_RUNNABLE" \/ InLoop(current)
  /\ \A p \in Proc : state[p] = "PROC_ZOMBIE" <=> pc[p] \in {"do_exit", "dead"}

\* As long as initproc has not ended there is a process to run besides idleproc: the
\* processes never all wait for each other.
SomeoneRuns ==
  panicked = "no" => \E p \in Proc \ {idleproc} : state[p] = "PROC_RUNNABLE" \/ InLoop(p)

\* The assertions at the end of init_main hold when they are reached.
InitMainAsserts == pc[initproc] = "init_end" => init_main_asserts

-----------------------------------------------------------------------------
(* Liveness *)

\* schedule() starves nobody, whatever the others fork, kill and wait for.
NoStarvation ==
  \A p \in User \cup {initproc} : state[p] = "PROC_RUNNABLE" ~> (current = p \/ panicked # "no")

\* A process killed in do_wait dies of it (do_kill wakes it, do_wait checks).
KilledWaiterDies ==
  \A p \in User : (exiting[p] /\ pc[p] = "do_wait" /\ state[p] = "PROC_RUNNABLE")
                    ~> (state[p] \in {"PROC_ZOMBIE", "PROC_UNINIT"} \/ panicked # "no")

\* A process that was killed outside do_wait does not go on running its program for
\* ever: it dies, or sleeps in do_wait.
KilledProgramStops ==
  \A p \in User : (exiting[p] /\ pc[p] = "user")
                    ~> (pc[p] \notin {"user", "trap_tail"} \/ panicked # "no")

\* What the head of proc.c says of SYS_kill: do_kill sets PF_EXITING, and that leads
\* to do_exit.
KillLeadsToExit ==
  \A p \in User : exiting[p] ~> (state[p] \in {"PROC_ZOMBIE", "PROC_UNINIT"} \/ panicked # "no")

-----------------------------------------------------------------------------
(* What it implements *)

\* In the loop of do_exit the children of p count as initproc's already.
TreeParent(c) ==
  IF state[c] # "PROC_UNINIT" /\ InLoop(parent[c]) THEN initproc ELSE parent[c]

Tree == INSTANCE ProcTree WITH
  parent <- [c \in User |-> TreeParent(c)],
  zombie <- {c \in User : state[c] = "PROC_ZOMBIE"}

\* Seen through parents and zombies alone, the kernel is the tree of processes that
\* ProcTree specifies: a zombie stays until its parent collects it, once.
ImplementsTree == Tree!Init /\ [][Tree!Next]_(Tree!vars)

\* initproc collects every child of its that is dead, unless the kernel stopped.
InitCollects ==
  \A c \in User : (state[c] = "PROC_ZOMBIE" /\ TreeParent(c) = initproc)
                    ~> (state[c] = "PROC_UNINIT" \/ panicked # "no")
=============================================================================
