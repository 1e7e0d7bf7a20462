---------------------------- MODULE ProcessProofs ---------------------------
(***************************************************************************)
(* Proofs about module Process for any number of processes: the lists and  *)
(* states of the processes, then their family, who is whose child and who  *)
(* waits for whom, and that the kernel implements ProcTree.                *)
(***************************************************************************)
EXTENDS Process, ListProofs, FiniteSetTheorems

\* idleproc is always there and ready to run: schedule() can fall back to it.
IdleReady == state[idleproc] = "PROC_RUNNABLE" /\ pc[idleproc] = "cpu_idle"

\* The inductive invariant.  ProcessTable makes place() meaningful; it needs
\* OnlyRunnableRuns (a process does not free itself) and WakeupAssert (waking
\* does not bring back a process that is not there).
IInv ==
  /\ TypeOK /\ ProcessTable
  /\ IdleReady /\ current \in Live
  /\ OnlyRunnableRuns /\ WakeupAssert

\* idleproc, initproc, the pids of User and NULL are all different.
LEMMA ProcFacts ==
  /\ idleproc \in Proc /\ initproc \in Proc /\ User \subseteq Proc
  /\ idleproc # initproc /\ idleproc \notin User /\ initproc \notin User
  /\ NULL \notin Proc /\ NULL \notin User
BY ProcessAssumption DEF Proc

\* place(p) is where p is on proc_list.
LEMMA PlaceOf ==
  ASSUME TypeOK, ProcessTable, NEW p \in Live \ {idleproc}
  PROVE  /\ place(p) \in 1..Len(proc_list)
         /\ proc_list[place(p)] = p
<1>1. proc_list \in Seq(Proc)
  BY DEF TypeOK
<1>2. DOMAIN proc_list = 1..Len(proc_list)
  BY <1>1
<1>3. \E i \in DOMAIN proc_list : proc_list[i] = p
  BY DEF ProcessTable, Range
<1> QED
  BY <1>2, <1>3 DEF place

\* schedule() picks idleproc or a process of the list that is ready to run.
LEMMA PickRunnable ==
  ASSUME TypeOK, ProcessTable, current \in Live,
         NEW st \in [Proc -> {"PROC_UNINIT", "PROC_SLEEPING", "PROC_RUNNABLE", "PROC_ZOMBIE"}],
         st[idleproc] = "PROC_RUNNABLE"
  PROVE  pick(st) \in Proc /\ st[pick(st)] = "PROC_RUNNABLE"
<1> DEFINE n == Len(proc_list)
<1>1. proc_list \in Seq(Proc) /\ n \in Nat /\ \A i \in 1..n : proc_list[i] \in Proc
  <2>1. proc_list \in Seq(Proc)
    BY DEF TypeOK
  <2> QED
    BY <2>1, LenProperties, ElementOfSeq
<1>2. round \in Seq(Proc)
  <2>1. CASE current = idleproc
    BY <1>1, <2>1 DEF round
  <2>2. CASE current # idleproc
    <3>1. place(current) \in 1..n
      BY <2>2, PlaceOf
    <3>2. SubSeq(proc_list, place(current) + 1, n) \in Seq(Proc)
      BY <1>1, <3>1, SubSeqProperties
    <3>3. SubSeq(proc_list, 1, place(current)) \in Seq(Proc)
      BY <1>1, <3>1, SubSeqProperties
    <3> QED
      BY <2>2, <3>2, <3>3, ConcatProperties DEF round
  <2> QED
    BY <2>1, <2>2
<1>3. \A i \in DOMAIN round : round[i] \in Proc
  BY <1>2
<1> QED
  BY <1>3, ProcFacts DEF pick

\* list_del of c: the list without c, still without repetitions.
LEMMA ListDel ==
  ASSUME TypeOK, ProcessTable, NEW c \in Live \ {idleproc}
  PROVE  LET l == RemoveAt(proc_list, place(c))
         IN  /\ l \in Seq(Proc)
             /\ Len(l) = Len(proc_list) - 1
             /\ Range(l) = Range(proc_list) \ {c}
             /\ IsInjective(l)
<1>1. proc_list \in Seq(Proc) /\ IsInjective(proc_list)
  BY DEF TypeOK, ProcessTable
<1>2. place(c) \in 1..Len(proc_list) /\ proc_list[place(c)] = c
  BY PlaceOf
<1> QED
  BY <1>1, <1>2, ListDelete

\* list_add of c, which is not on the list, at its head.
LEMMA ListAdd ==
  ASSUME TypeOK, ProcessTable, NEW c \in Proc \ Live
  PROVE  LET l == <<c>> \o proc_list
         IN  /\ l \in Seq(Proc)
             /\ Len(l) = Len(proc_list) + 1
             /\ Range(l) = Range(proc_list) \cup {c}
             /\ IsInjective(l)
<1>1. proc_list \in Seq(Proc) /\ IsInjective(proc_list) /\ c \notin Range(proc_list)
  BY DEF TypeOK, ProcessTable
<1> QED
  BY <1>1, ListAddHead

-----------------------------------------------------------------------------
(* The parts that actions share. *)

\* p, not idleproc, has the CPU and is not in do_exit: then it is ready to run.
LEMMA AtFacts ==
  ASSUME IInv, NEW p \in Proc, NEW label, At(p, label), label # "do_exit"
  PROVE  /\ current = p /\ pc[p] = label /\ state[p] = "PROC_RUNNABLE" /\ p \in Live
         /\ label # "cpu_idle" => p # idleproc
BY DEF IInv, At, OnlyRunnableRuns, InLoop, Live, IdleReady

\* do_fork.
LEMMA ForkStep ==
  ASSUME IInv, NEW p \in Proc \ {idleproc}, current = p, state[p] = "PROC_RUNNABLE",
         NEW c \in User, NEW label \in {"user", "user_main"},
         NEW next \in {"trap_tail", "init_wait"},
         do_fork(p, c, label, next)
  PROVE  IInv'
<1> USE ProcFacts
<1>1. c \in Proc \ Live /\ c # p
  BY DEF do_fork, Live
<1>2. /\ proc_list' \in Seq(Proc)
      /\ Len(proc_list') = Len(proc_list) + 1
      /\ Range(proc_list') = Range(proc_list) \cup {c}
      /\ IsInjective(proc_list')
  BY <1>1, ListAdd DEF IInv, do_fork, set_links
<1>3. TypeOK'
  <2>1. /\ parent' \in [Proc -> Proc \cup {NULL}] /\ cptr' \in [Proc -> Proc \cup {NULL}]
        /\ yptr' \in [Proc -> Proc \cup {NULL}] /\ optr' \in [Proc -> Proc \cup {NULL}]
        /\ nr_process' \in Int
    <3>1. /\ cptr \in [Proc -> Proc \cup {NULL}] /\ yptr \in [Proc -> Proc \cup {NULL}]
          /\ parent \in [Proc -> Proc \cup {NULL}] /\ optr \in [Proc -> Proc \cup {NULL}]
          /\ nr_process \in Int /\ c \in Proc
      BY DEF IInv, TypeOK
    <3>2. parent' \in [Proc -> Proc \cup {NULL}] /\ cptr' \in [Proc -> Proc \cup {NULL}]
      BY <3>1 DEF do_fork, set_links
    <3>3. yptr' \in [Proc -> Proc \cup {NULL}]
      BY <3>1 DEF do_fork, set_links
    <3>4. optr' \in [Proc -> Proc \cup {NULL}] /\ nr_process' \in Int
      BY <3>1 DEF do_fork, set_links
    <3> QED
      BY <3>2, <3>3, <3>4
  <2>2. /\ state' \in [Proc -> {"PROC_UNINIT", "PROC_SLEEPING", "PROC_RUNNABLE", "PROC_ZOMBIE"}]
        /\ wait_child' \in [Proc -> BOOLEAN]
        /\ pc' \in [Proc -> {"none", "cpu_idle", "init_main", "init_wait", "init_sched",
                            "init_end", "user_main", "user", "trap_tail", "do_wait",
                            "do_exit", "dead"}]
    BY DEF IInv, TypeOK, do_fork
  <2> QED
    BY <1>2, <2>1, <2>2 DEF IInv, TypeOK, do_fork, no_schedule, ANY
<1>4. Live' = Live \cup {c}
  <2>1. \A q \in Proc : state'[q] = IF q = c THEN "PROC_RUNNABLE" ELSE state[q]
    BY DEF IInv, TypeOK, do_fork
  <2> QED
    BY <1>1, <2>1 DEF Live
<1>5. ProcessTable'
  <2>1. Range(proc_list') = Live' \ {idleproc}
    BY <1>2, <1>4 DEF IInv, ProcessTable
  <2>2. nr_process' = Len(proc_list') + 1 /\ nr_process' <= MAX_PROCESS
    <3>1. Len(proc_list) \in Nat /\ MAX_PROCESS \in Nat /\ nr_process \in Int
      BY LenProperties, ProcessAssumption DEF IInv, TypeOK
    <3>2. nr_process = Len(proc_list) + 1
      BY DEF IInv, ProcessTable
    <3>3. nr_process < MAX_PROCESS /\ nr_process' = nr_process + 1
      BY DEF do_fork, set_links
    <3> QED
      BY <1>2, <3>1, <3>2, <3>3
  <2> QED
    BY <1>2, <2>1, <2>2 DEF ProcessTable
<1>6. IdleReady' /\ current' \in Live'
  BY <1>4 DEF IInv, TypeOK, IdleReady, do_fork, no_schedule
<1>7. OnlyRunnableRuns'
  BY <1>1 DEF IInv, TypeOK, OnlyRunnableRuns, InLoop, do_fork, no_schedule
<1>8. WakeupAssert'
  BY <1>1 DEF IInv, TypeOK, WakeupAssert, do_fork
<1> QED
  BY <1>3, <1>5, <1>6, <1>7, <1>8 DEF IInv

\* A step that changes neither who is there, nor who runs, nor where.
LEMMA QuietStep ==
  ASSUME IInv,
         UNCHANGED <<state, exiting, wait_child, links, current, pc, waitpid>>,
         need_resched' \in [Proc -> BOOLEAN],
         panicked' \in {"no", "initproc exit", "handle pgfault failed", "invalid kva"}
  PROVE  IInv'
BY DEF IInv, TypeOK, ProcessTable, IdleReady, OnlyRunnableRuns, WakeupAssert, links, Live, InLoop, ANY

\* The kernel stops.
LEMMA PanicStep ==
  ASSUME IInv, NEW msg \in {"initproc exit", "handle pgfault failed", "invalid kva"}, panic(msg)
  PROVE  IInv'
BY QuietStep DEF panic, no_schedule, IInv, TypeOK

\* do_exit up to its loop.
LEMMA ExitStep ==
  ASSUME IInv, NEW p \in Proc \ {idleproc}, current = p, state[p] = "PROC_RUNNABLE",
         do_exit(p)
  PROVE  IInv'
<1> USE ProcFacts
<1>1. CASE p = initproc
  BY <1>1, PanicStep DEF do_exit
<1>2. CASE p # initproc
  <2>1. /\ wakeup_proc(waiting_parent(p), [state EXCEPT ![p] = "PROC_ZOMBIE"])
        /\ pc' = [pc EXCEPT ![p] = "do_exit"]
        /\ waitpid' = [waitpid EXCEPT ![p] = ANY]
        /\ UNCHANGED <<exiting, links, panicked, need_resched, current>>
    BY <1>2 DEF do_exit, no_schedule
  <2>2. /\ state' \in [Proc -> {"PROC_UNINIT", "PROC_SLEEPING", "PROC_RUNNABLE", "PROC_ZOMBIE"}]
        /\ wait_child' \in [Proc -> BOOLEAN]
    BY <2>1 DEF IInv, TypeOK, wakeup_proc
  <2>3. TypeOK'
    BY <2>1, <2>2 DEF IInv, TypeOK, links, ANY
  <2>4. \A q \in Proc : wait_child[q] => state[q] = "PROC_SLEEPING"
    BY DEF IInv, WakeupAssert
  <2>5. \A q \in Proc : state'[q] = IF q = p THEN "PROC_ZOMBIE"
                                 ELSE IF q = parent[p] /\ wait_child[q] THEN "PROC_RUNNABLE"
                                 ELSE state[q]
    BY <2>1, <2>4 DEF IInv, TypeOK, wakeup_proc, waiting_parent
  <2>6. Live' = Live
    BY <2>4, <2>5 DEF Live
  <2>7. ProcessTable'
    BY <2>1, <2>6 DEF IInv, ProcessTable, links
  <2>8. IdleReady' /\ current' \in Live'
    BY <2>1, <2>5, <2>6 DEF IInv, TypeOK, IdleReady
  <2>9. OnlyRunnableRuns'
    <3>1. \A q \in Proc : state[q] = "PROC_ZOMBIE" <=> pc[q] \in {"do_exit", "dead"}
      BY DEF IInv, OnlyRunnableRuns
    <3>2. \A q \in Proc : pc'[q] = IF q = p THEN "do_exit" ELSE pc[q]
      BY <2>1 DEF IInv, TypeOK
    <3>3. \A q \in Proc : state'[q] = "PROC_ZOMBIE" <=> pc'[q] \in {"do_exit", "dead"}
      BY <2>4, <2>5, <3>1, <3>2
    <3> QED
      BY <2>1, <3>2, <3>3 DEF OnlyRunnableRuns, InLoop
  <2>10. WakeupAssert'
    BY <2>1, <2>4, <2>5 DEF IInv, TypeOK, WakeupAssert, wakeup_proc, waiting_parent
  <2> QED
    BY <2>3, <2>7, <2>8, <2>9, <2>10 DEF IInv
<1> QED
  BY <1>1, <1>2

\* A step that moves p on, and at most runs schedule().
LEMMA GotoStep ==
  ASSUME IInv, NEW p \in Proc, current = p,
         state[p] = "PROC_RUNNABLE" \/ pc[p] = "do_exit",
         pc[p] # "do_wait",
         NEW label \in {"cpu_idle", "init_wait", "user", "trap_tail", "dead"},
         p = idleproc <=> label = "cpu_idle",
         pc[p] = "do_exit" <=> label = "dead",
         goto(p, label),
         \/ no_schedule /\ state[p] = "PROC_RUNNABLE"
         \/ schedule(state)
         \/ /\ need_resched' = [need_resched EXCEPT ![p] = TRUE]
            /\ current' = current
            /\ state[p] = "PROC_RUNNABLE"
  PROVE  IInv'
<1> USE ProcFacts
<1>1. need_resched' \in [Proc -> BOOLEAN]
  BY DEF IInv, TypeOK, schedule, no_schedule
<1>2. current' \in Proc /\ (state[current'] = "PROC_RUNNABLE")
  <2>1. CASE schedule(state)
    BY <2>1, PickRunnable DEF IInv, TypeOK, schedule, IdleReady
  <2> QED
    BY <2>1 DEF no_schedule
<1>3. pc' = [pc EXCEPT ![p] = label] /\ UNCHANGED <<state, exiting, wait_child, links, waitpid, panicked>>
  BY DEF goto
<1>4. TypeOK'
  BY <1>1, <1>2, <1>3 DEF IInv, TypeOK, links, ANY
<1>5. ProcessTable' /\ current' \in Live'
  BY <1>2, <1>3 DEF IInv, ProcessTable, links, Live
<1>6. IdleReady' /\ OnlyRunnableRuns'
  BY <1>2, <1>3 DEF IInv, TypeOK, IdleReady, OnlyRunnableRuns
<1>7. WakeupAssert'
  BY <1>3 DEF IInv, TypeOK, WakeupAssert
<1> QED
  BY <1>4, <1>5, <1>6, <1>7 DEF IInv

\* A step of do_wait by p.
LEMMA WaitStep ==
  ASSUME IInv, NEW p \in Proc \ {idleproc}, current = p, state[p] = "PROC_RUNNABLE",
         NEW pid \in User \cup {ANY},
         do_wait(p, pid)
  PROVE  IInv'
<1> USE ProcFacts
<1> DEFINE Labels == {"none", "cpu_idle", "init_main", "init_wait", "init_sched",
                      "init_end", "user_main", "user", "trap_tail", "do_wait",
                      "do_exit", "dead"}
<1>0. \A ok \in BOOLEAN : wait_returns(p, ok) \in Labels \ {"do_wait", "do_exit", "dead"}
  BY DEF wait_returns
<1>1. CASE reap(p, pid)
  <2>1. PICK c \in Proc :
          /\ finds(p, pid, c)
          /\ remove_links(c)
          /\ state' = [state EXCEPT ![c] = "PROC_UNINIT"]
          /\ exiting' = [exiting EXCEPT ![c] = FALSE]
          /\ pc' = [pc EXCEPT ![c] = "none", ![p] = wait_returns(p, TRUE)]
          /\ waitpid' = [waitpid EXCEPT ![p] = ANY]
          /\ UNCHANGED <<wait_child, panicked>> /\ no_schedule
    BY <1>1 DEF reap
  <2>2. state[c] = "PROC_ZOMBIE"
    BY <2>1 DEF finds
  <2>3. c \in Live \ {idleproc} /\ c # p
    BY <2>2 DEF Live, IInv, IdleReady
  <2>4. /\ proc_list' \in Seq(Proc)
        /\ Len(proc_list') = Len(proc_list) - 1
        /\ Range(proc_list') = Range(proc_list) \ {c}
        /\ IsInjective(proc_list')
    BY <2>1, <2>3, ListDel DEF IInv, remove_links
  <2>5. TypeOK'
    <3>1. /\ parent' \in [Proc -> Proc \cup {NULL}] /\ cptr' \in [Proc -> Proc \cup {NULL}]
          /\ yptr' \in [Proc -> Proc \cup {NULL}] /\ optr' \in [Proc -> Proc \cup {NULL}]
          /\ nr_process' \in Int
      <4>1. /\ cptr \in [Proc -> Proc \cup {NULL}] /\ yptr \in [Proc -> Proc \cup {NULL}]
            /\ parent \in [Proc -> Proc \cup {NULL}] /\ optr \in [Proc -> Proc \cup {NULL}]
            /\ nr_process \in Int
        BY DEF IInv, TypeOK
      <4>2. parent' \in [Proc -> Proc \cup {NULL}] /\ nr_process' \in Int
        BY <2>1, <4>1 DEF remove_links
      <4>3. cptr' \in [Proc -> Proc \cup {NULL}]
        BY <2>1, <4>1 DEF remove_links
      <4>4. yptr' \in [Proc -> Proc \cup {NULL}]
        BY <2>1, <4>1 DEF remove_links
      <4>5. optr' \in [Proc -> Proc \cup {NULL}]
        BY <2>1, <4>1 DEF remove_links
      <4> QED
        BY <4>2, <4>3, <4>4, <4>5
    <3>2. /\ state' \in [Proc -> {"PROC_UNINIT", "PROC_SLEEPING", "PROC_RUNNABLE", "PROC_ZOMBIE"}]
          /\ exiting' \in [Proc -> BOOLEAN]
          /\ pc' \in [Proc -> Labels]
          /\ waitpid' \in [Proc -> User \cup {ANY}]
      BY <1>0, <2>1 DEF IInv, TypeOK
    <3> QED
      BY <2>1, <2>4, <3>1, <3>2 DEF IInv, TypeOK, no_schedule
  <2>6. Live' = Live \ {c}
    BY <2>1 DEF IInv, TypeOK, Live
  <2>7. ProcessTable'
    <3>1. Range(proc_list') = Live' \ {idleproc}
      BY <2>4, <2>6 DEF IInv, ProcessTable
    <3>2. nr_process' = Len(proc_list') + 1 /\ nr_process' <= MAX_PROCESS
      <4>1. Len(proc_list) \in Nat /\ MAX_PROCESS \in Nat /\ nr_process \in Int
        BY LenProperties, ProcessAssumption DEF IInv, TypeOK
      <4>2. nr_process = Len(proc_list) + 1 /\ nr_process <= MAX_PROCESS
        BY DEF IInv, ProcessTable
      <4>3. nr_process' = nr_process - 1
        BY <2>1 DEF remove_links
      <4> QED
        BY <2>4, <4>1, <4>2, <4>3
    <3> QED
      BY <2>4, <3>1, <3>2 DEF ProcessTable
  <2>8. IdleReady' /\ current' \in Live'
    BY <2>1, <2>3, <2>6 DEF IInv, TypeOK, IdleReady, no_schedule
  <2>9. OnlyRunnableRuns'
    BY <1>0, <2>1, <2>3 DEF IInv, TypeOK, OnlyRunnableRuns, InLoop, no_schedule, wait_returns
  <2>10. WakeupAssert'
    <3>1. \A r \in Proc : wait_child[r] <=> state[r] = "PROC_SLEEPING" /\ pc[r] = "do_wait"
      BY DEF IInv, WakeupAssert
    <3>2. /\ wait_child' = wait_child
          /\ \A r \in Proc : state'[r] = IF r = c THEN "PROC_UNINIT" ELSE state[r]
      BY <2>1 DEF IInv, TypeOK
    <3>3. \A r \in Proc : pc'[r] = IF r = p THEN wait_returns(p, TRUE)
                                   ELSE IF r = c THEN "none" ELSE pc[r]
      BY <2>1 DEF IInv, TypeOK
    <3>4. ~wait_child[p] /\ ~wait_child[c]
      BY <2>2, <3>1
    <3>5. wait_returns(p, TRUE) # "do_wait"
      BY <1>0
    <3> QED
      BY <3>1, <3>2, <3>3, <3>4, <3>5 DEF WakeupAssert
  <2> QED
    BY <2>5, <2>7, <2>8, <2>9, <2>10 DEF IInv
<1>2. CASE sleep(p, pid)
  <2> DEFINE st == [state EXCEPT ![p] = "PROC_SLEEPING"]
  <2>1. /\ state' = st
        /\ wait_child' = [wait_child EXCEPT ![p] = TRUE]
        /\ schedule(st)
        /\ pc' = [pc EXCEPT ![p] = "do_wait"]
        /\ waitpid' = [waitpid EXCEPT ![p] = pid]
        /\ UNCHANGED <<exiting, links, panicked>>
    BY <1>2 DEF sleep
  <2>2. /\ st \in [Proc -> {"PROC_UNINIT", "PROC_SLEEPING", "PROC_RUNNABLE", "PROC_ZOMBIE"}]
        /\ st[idleproc] = "PROC_RUNNABLE"
    BY DEF IInv, TypeOK, IdleReady
  <2>3. current' \in Proc /\ state'[current'] = "PROC_RUNNABLE"
    <3> HIDE DEF st
    <3> QED
      BY <2>1, <2>2, PickRunnable DEF IInv, schedule
  <2>4. TypeOK'
    BY <2>1, <2>2, <2>3 DEF IInv, TypeOK, schedule, links
  <2>5. Live' = Live
    BY <2>1 DEF IInv, TypeOK, Live
  <2>6. ProcessTable' /\ current' \in Live'
    BY <2>1, <2>3, <2>5 DEF IInv, ProcessTable, links, Live
  <2>7. IdleReady' /\ OnlyRunnableRuns'
    BY <2>1, <2>3 DEF IInv, TypeOK, IdleReady, OnlyRunnableRuns
  <2>8. WakeupAssert'
    BY <2>1 DEF IInv, TypeOK, WakeupAssert
  <2> QED
    BY <2>4, <2>6, <2>7, <2>8 DEF IInv
<1>3. CASE no_child(p, pid)
  <2>1. /\ pc' = [pc EXCEPT ![p] = wait_returns(p, FALSE)]
        /\ waitpid' = [waitpid EXCEPT ![p] = ANY]
        /\ UNCHANGED <<state, exiting, wait_child, links, panicked, need_resched, current>>
    BY <1>3 DEF no_child, no_schedule
  <2>2. TypeOK'
    BY <1>0, <2>1 DEF IInv, TypeOK, links
  <2>3. ProcessTable' /\ IdleReady' /\ current' \in Live'
    BY <2>1 DEF IInv, TypeOK, ProcessTable, IdleReady, links, Live
  <2>4. OnlyRunnableRuns'
    BY <1>0, <2>1 DEF IInv, TypeOK, OnlyRunnableRuns, InLoop
  <2>5. WakeupAssert'
    BY <1>0, <2>1 DEF IInv, TypeOK, WakeupAssert
  <2> QED
    BY <2>2, <2>3, <2>4, <2>5 DEF IInv
<1> QED
  BY <1>1, <1>2, <1>3 DEF do_wait

\* One turn of the loop of do_exit.
LEMMA ReparentStep ==
  ASSUME IInv, NEW p \in User, Reparent(p)
  PROVE  IInv'
<1> USE ProcFacts
<1> DEFINE c == cptr[p]
<1>1. /\ current = p /\ pc[p] = "do_exit" /\ c # NULL
      /\ adopt(p, c) /\ wakeup_proc(waiting_init(c), state)
      /\ UNCHANGED <<exiting, proc_list, nr_process, pc, waitpid, panicked, need_resched, current>>
  BY DEF Reparent, At, no_schedule
<1>2. /\ cptr \in [Proc -> Proc \cup {NULL}] /\ yptr \in [Proc -> Proc \cup {NULL}]
      /\ parent \in [Proc -> Proc \cup {NULL}] /\ optr \in [Proc -> Proc \cup {NULL}]
      /\ c \in Proc
  BY <1>1 DEF IInv, TypeOK
<1> HIDE DEF c
<1>3. cptr' \in [Proc -> Proc \cup {NULL}] /\ parent' \in [Proc -> Proc \cup {NULL}]
  BY <1>1, <1>2 DEF adopt
<1>4. yptr' \in [Proc -> Proc \cup {NULL}] /\ optr' \in [Proc -> Proc \cup {NULL}]
  BY <1>1, <1>2 DEF adopt
<1>5. \A q \in Proc : wait_child[q] <=> state[q] = "PROC_SLEEPING" /\ pc[q] = "do_wait"
  BY DEF IInv, WakeupAssert
<1>6. \A q \in Proc : /\ state'[q] = IF q \in waiting_init(c) THEN "PROC_RUNNABLE" ELSE state[q]
                     /\ wait_child'[q] = IF q \in waiting_init(c) THEN FALSE ELSE wait_child[q]
  BY <1>1 DEF wakeup_proc
<1>7. \A q \in waiting_init(c) : q = initproc /\ wait_child[q]
  BY DEF waiting_init
<1>8. TypeOK'
  <2>1. /\ state' \in [Proc -> {"PROC_UNINIT", "PROC_SLEEPING", "PROC_RUNNABLE", "PROC_ZOMBIE"}]
        /\ wait_child' \in [Proc -> BOOLEAN]
    BY <1>1 DEF wakeup_proc, IInv, TypeOK
  <2> QED
    BY <1>1, <1>3, <1>4, <2>1 DEF IInv, TypeOK, ANY
<1>9. Live' = Live
  BY <1>5, <1>6, <1>7 DEF Live
<1>10. ProcessTable' /\ current' \in Live'
  BY <1>1, <1>9 DEF IInv, ProcessTable
<1>11. IdleReady' /\ OnlyRunnableRuns'
  <2>1. \A q \in Proc : state[q] = "PROC_ZOMBIE" <=> pc[q] \in {"do_exit", "dead"}
    BY DEF IInv, OnlyRunnableRuns
  <2>2. \A q \in waiting_init(c) : q \in Proc /\ state[q] = "PROC_SLEEPING"
    BY <1>5, <1>7
  <2>3. \A q \in Proc : state'[q] = "PROC_ZOMBIE" <=> pc'[q] \in {"do_exit", "dead"}
    BY <1>1, <1>6, <2>1, <2>2
  <2>4. IdleReady'
    BY <1>1, <1>6, <2>2 DEF IInv, IdleReady
  <2> QED
    BY <1>1, <2>3, <2>4 DEF OnlyRunnableRuns, InLoop
<1>12. WakeupAssert'
  BY <1>1, <1>5, <1>6 DEF WakeupAssert
<1> QED
  BY <1>8, <1>10, <1>11, <1>12 DEF IInv

\* do_kill that finds its process.
LEMMA KillStep ==
  ASSUME IInv, NEW p \in User, NEW q \in Killable, Kill(p, q)
  PROVE  IInv'
<1> USE ProcFacts
<1>1. /\ current = p /\ pc[p] = "user" /\ state[p] = "PROC_RUNNABLE"
      /\ exiting' = [exiting EXCEPT ![q] = TRUE]
      /\ wakeup_proc(interrupted(q), state)
      /\ pc' = [pc EXCEPT ![p] = "trap_tail"]
      /\ UNCHANGED <<links, waitpid, panicked, need_resched, current>>
  BY AtFacts DEF Kill, no_schedule, At
<1>2. \A r \in Proc : wait_child[r] <=> state[r] = "PROC_SLEEPING" /\ pc[r] = "do_wait"
  BY DEF IInv, WakeupAssert
<1>3. \A r \in Proc : /\ state'[r] = IF r \in interrupted(q) THEN "PROC_RUNNABLE" ELSE state[r]
                     /\ wait_child'[r] = IF r \in interrupted(q) THEN FALSE ELSE wait_child[r]
  BY <1>1 DEF wakeup_proc
<1>4. \A r \in interrupted(q) : r = q /\ wait_child[r] /\ r \in Proc \ {idleproc}
  BY ProcessAssumption DEF interrupted
<1>5. TypeOK'
  <2>1. /\ state' \in [Proc -> {"PROC_UNINIT", "PROC_SLEEPING", "PROC_RUNNABLE", "PROC_ZOMBIE"}]
        /\ wait_child' \in [Proc -> BOOLEAN]
    BY <1>1 DEF wakeup_proc, IInv, TypeOK
  <2> QED
    BY <1>1, <2>1 DEF IInv, TypeOK, links, ANY
<1>6. Live' = Live
  BY <1>2, <1>3, <1>4 DEF Live
<1>7. ProcessTable' /\ current' \in Live'
  BY <1>1, <1>6 DEF IInv, ProcessTable, links
<1>8. IdleReady' /\ OnlyRunnableRuns'
  <2>1. \A r \in Proc : pc'[r] = IF r = p THEN "trap_tail" ELSE pc[r]
    BY <1>1 DEF IInv, TypeOK
  <2>2. IdleReady'
    BY <1>1, <1>3, <1>4, <2>1 DEF IInv, IdleReady
  <2>3. state'[p] = "PROC_RUNNABLE" /\ current' = p
    BY <1>1, <1>3
  <2>4. \A r \in Proc : state[r] = "PROC_ZOMBIE" <=> pc[r] \in {"do_exit", "dead"}
    BY DEF IInv, OnlyRunnableRuns
  <2>5. \A r \in Proc : state'[r] = "PROC_ZOMBIE" <=> state[r] = "PROC_ZOMBIE"
    BY <1>2, <1>3, <1>4
  <2>6. pc[p] \notin {"do_exit", "dead"} /\ pc'[p] \notin {"do_exit", "dead"}
    BY <1>1, <2>1
  <2>7. \A r \in Proc : state'[r] = "PROC_ZOMBIE" <=> pc'[r] \in {"do_exit", "dead"}
    BY <2>1, <2>4, <2>5, <2>6
  <2> QED
    BY <2>2, <2>3, <2>7 DEF OnlyRunnableRuns
<1>9. WakeupAssert'
  BY <1>1, <1>2, <1>3, <1>4 DEF WakeupAssert, IInv, TypeOK
<1> QED
  BY <1>5, <1>7, <1>8, <1>9 DEF IInv

-----------------------------------------------------------------------------
\* The inductive invariant holds at boot.
LEMMA InitIInv == Init => IInv
<1> USE ProcFacts
<1> SUFFICES ASSUME Init PROVE IInv
  OBVIOUS
<1>1. TypeOK
  BY DEF Init, TypeOK, ANY
<1>2. Live = {idleproc, initproc}
  BY DEF Init, Live, Proc
<1>3. ProcessTable
  BY <1>2, ProcessAssumption DEF Init, ProcessTable, Range, IsInjective
<1>4. IdleReady /\ current \in Live /\ OnlyRunnableRuns
  BY <1>2 DEF Init, IdleReady, OnlyRunnableRuns
<1>5. WakeupAssert
  BY DEF Init, WakeupAssert
<1> QED
  BY <1>1, <1>3, <1>4, <1>5 DEF IInv

\* Every step preserves the inductive invariant.
LEMMA NextIInv == IInv /\ [Next]_vars => IInv'
<1> USE ProcFacts
<1> SUFFICES ASSUME IInv, [Next]_vars PROVE IInv'
  OBVIOUS
<1>1. ASSUME NEW p \in User, UserStep(p) PROVE IInv'
  <2>1. At(p, "user") /\ current = p /\ pc[p] = "user" /\ state[p] = "PROC_RUNNABLE"
    <3>1. At(p, "user")
      BY <1>1 DEF UserStep, Fork, ForkFails, ForkPanics, Fault, Exit, ExecFails, Wait, Kill,
                  Yield, Timer, OtherTrap
    <3> QED
      BY <3>1, AtFacts
  <2>2. CASE Fork(p)
    BY <2>1, <2>2, ForkStep DEF Fork
  <2>3. CASE ForkFails(p) \/ OtherTrap(p)
    BY <2>1, <2>3, GotoStep DEF ForkFails, OtherTrap
  <2>4. CASE ForkPanics(p) \/ Fault(p)
    BY <2>4, PanicStep DEF ForkPanics, Fault, no_page, no_kstack
  <2>5. CASE Exit(p) \/ ExecFails(p)
    BY <2>1, <2>5, ExitStep DEF Exit, ExecFails
  <2>6. CASE Wait(p)
    BY <2>1, <2>6, WaitStep DEF Wait
  <2>7. CASE \E q \in Killable : Kill(p, q)
    BY <2>7, KillStep
  <2>8. CASE Yield(p) \/ Timer(p)
    BY <2>1, <2>8, GotoStep DEF Yield, Timer, resched
  <2> QED
    BY <1>1, <2>2, <2>3, <2>4, <2>5, <2>6, <2>7, <2>8 DEF UserStep
<1>2. CASE KernelStep
  <2>1. ASSUME NEW p \in User, TrapTail(p) PROVE IInv'
    <3>1. current = p /\ pc[p] = "trap_tail" /\ state[p] = "PROC_RUNNABLE"
      BY <2>1, AtFacts DEF TrapTail
    <3> QED
      BY <2>1, <3>1, ExitStep, GotoStep DEF TrapTail
  <2>2. ASSUME NEW p \in User, Reparent(p) PROVE IInv'
    BY <2>2, ReparentStep
  <2>3. ASSUME NEW p \in User, ExitSchedule(p) PROVE IInv'
    BY <2>3, GotoStep DEF ExitSchedule, At
  <2>4. ASSUME NEW p \in User, UserMain(p) \/ UserMainFails(p) PROVE IInv'
    <3>1. current = p /\ pc[p] = "user_main" /\ state[p] = "PROC_RUNNABLE"
      BY <2>4, AtFacts DEF UserMain, UserMainFails
    <3> QED
      BY <2>4, <3>1, ExitStep, GotoStep, PanicStep DEF UserMain, UserMainFails, no_page
  <2>5. ASSUME NEW p \in Proc, WaitReturns(p) PROVE IInv'
    <3>1. current = p /\ p # idleproc /\ state[p] = "PROC_RUNNABLE"
      BY <2>5, AtFacts DEF WaitReturns
    <3>2. waitpid[p] \in User \cup {ANY}
      BY DEF IInv, TypeOK
    <3> QED
      BY <2>5, <3>1, <3>2, ExitStep, WaitStep DEF WaitReturns
  <2>6. CASE CpuIdle
    BY <2>6, GotoStep DEF CpuIdle, At, IInv, IdleReady
  <2>7. CASE InitMain
    <3>1. current = initproc /\ state[initproc] = "PROC_RUNNABLE"
      BY <2>7, AtFacts DEF InitMain
    <3> QED
      BY <2>7, <3>1, ForkStep DEF InitMain
  <2>8. CASE InitMainFails \/ InitEnd
    BY <2>8, PanicStep, ProcFacts DEF InitMainFails, InitEnd, no_page, no_kstack, do_exit
  <2>9. CASE InitWait
    <3>1. current = initproc /\ state[initproc] = "PROC_RUNNABLE"
      BY <2>9, AtFacts DEF InitWait
    <3> QED
      BY <2>9, <3>1, WaitStep DEF InitWait
  <2>10. CASE InitSchedule
    <3>1. current = initproc /\ state[initproc] = "PROC_RUNNABLE" /\ pc[initproc] = "init_sched"
      BY <2>10, AtFacts DEF InitSchedule
    <3> QED
      BY <2>10, <3>1, GotoStep DEF InitSchedule
  <2> QED
    BY <1>2, <2>1, <2>2, <2>3, <2>4, <2>5, <2>6, <2>7, <2>8, <2>9, <2>10 DEF KernelStep
<1>3. ASSUME NEW p \in Proc, KernelTimer(p) PROVE IInv'
  BY <1>3, QuietStep DEF KernelTimer, IInv, TypeOK
<1>4. CASE Stopped \/ UNCHANGED vars
  BY <1>4, QuietStep DEF Stopped, vars, IInv, TypeOK
<1> QED
  BY <1>1, <1>2, <1>3, <1>4 DEF Next

\* The inductive invariant is one.
THEOREM Invariance == Spec => []IInv
BY InitIInv, NextIInv, PTL DEF Spec

\* Type correctness of the process table, for any number of processes.
THEOREM TypeCorrect == Spec => []TypeOK
<1>1. IInv => TypeOK
  BY DEF IInv
<1> QED
  BY <1>1, Invariance, PTL

\* proc_list holds every process but idleproc, once, and nr_process is exact: no
\* order of forks, exits and waits loses a process or counts one twice.
THEOREM ProcessTableCorrect == Spec => []ProcessTable
<1>1. IInv => ProcessTable
  BY DEF IInv
<1> QED
  BY <1>1, Invariance, PTL

\* schedule() never gives the CPU to a sleeping process or back to a dead one:
\* the panic at the end of do_exit is never reached.
THEOREM SchedulerCorrect == Spec => []OnlyRunnableRuns
<1>1. IInv => OnlyRunnableRuns
  BY DEF IInv
<1> QED
  BY <1>1, Invariance, PTL

\* Every process that is woken because of its wait_state sleeps in do_wait: the
\* assertion of wakeup_proc holds wherever it is called for one.
THEOREM WakeupCorrect == Spec => []WakeupAssert
<1>1. IInv => WakeupAssert
  BY DEF IInv
<1> QED
  BY <1>1, Invariance, PTL

-----------------------------------------------------------------------------
(* The family of processes. *)

\* The children of p do_wait with the argument pid is about.
Children(p, pid) == {c \in Live : parent[c] = p /\ pid \in {ANY, c}}

\* s is the list of the children of p: cptr, optr and yptr are its links, but for the yptr
\* of the first child in the loop of do_exit.
Siblings(p, s) ==
  /\ IsInjective(s)
  /\ Range(s) = {c \in Live : parent[c] = p}
  /\ cptr[p] = IF Len(s) = 0 THEN NULL ELSE s[1]
  /\ \A i \in 1..Len(s) : optr[s[i]] = IF i < Len(s) THEN s[i + 1] ELSE NULL
  /\ \A i \in 2..Len(s) : yptr[s[i]] = s[i - 1]
  /\ Len(s) # 0 /\ ~InLoop(p) => yptr[s[1]] = NULL

\* Everybody has a list of children.
Families == \A p \in Proc : \E s \in Seq(Proc) : Siblings(p, s)

\* A pid not in use is on nobody's list, nor is idleproc.
Unlinked ==
  \A p \in Proc : p \notin Live \/ p = idleproc => parent[p] = NULL /\ optr[p] = NULL /\ yptr[p] = NULL

\* Who is in the loop of do_exit has the CPU, and is a user process.
LoopRuns == \A p \in Proc : InLoop(p) => current = p /\ p \in User

\* initproc lives, waits for any child, and is the only child of idleproc.
InitLives ==
  /\ state[initproc] \in {"PROC_RUNNABLE", "PROC_SLEEPING"}
  /\ waitpid[initproc] = ANY
  /\ \A c \in Live : parent[c] = idleproc <=> c = initproc

\* proc_list has the children before their parents, initproc at the end: the links form a
\* tree.
Ages ==
  /\ Len(proc_list) > 0 /\ proc_list[Len(proc_list)] = initproc
  /\ \A i \in 1..(Len(proc_list) - 1) :
       \E j \in (i + 1)..Len(proc_list) : proc_list[j] = parent[proc_list[i]]

\* Who sleeps waits for a child, and not for a dead one.
Sleepers ==
  \A p \in Live : state[p] = "PROC_SLEEPING" =>
    /\ pc[p] = "do_wait"
    /\ Children(p, waitpid[p]) # {}
    /\ \A c \in Children(p, waitpid[p]) : state[c] # "PROC_ZOMBIE"

\* At the end of init_main initproc has the CPU, and no children.
Ends == pc[initproc] = "init_end" => current = initproc /\ Children(initproc, ANY) = {}

\* The inductive invariant, with the one of ProcessProofs.
FamilyInv ==
  /\ Families /\ Unlinked /\ ParentAlive /\ LoopRuns /\ InitLives /\ Ages /\ Sleepers /\ Ends

-----------------------------------------------------------------------------
(* The lists of children. *)

\* A sequence without repetitions is no longer than the set of its elements.
LEMMA InjectiveLength ==
  ASSUME NEW S, IsFiniteSet(S), NEW s \in Seq(S), IsInjective(s)
  PROVE  Len(s) <= Cardinality(S)
<1> DEFINE n == Len(s)
<1>1. n \in Nat /\ DOMAIN s = 1..n /\ \A i \in 1..n : s[i] \in S
  BY LenProperties, ElementOfSeq
<1> HIDE DEF n
<1>2. IsFiniteSet(1..n) /\ Cardinality(1..n) = n
  <2>1. 1 \in Int /\ n \in Int
    BY <1>1
  <2>2. IsFiniteSet(1..n) /\ Cardinality(1..n) = IF 1 > n THEN 0 ELSE n - 1 + 1
    BY <2>1, FS_Interval
  <2> QED
    BY <1>1, <2>2
<1>3. s \in Injection(1..n, S)
  <2>1. s \in [1..n -> S]
    BY <1>1
  <2> QED
    BY <1>1, <2>1 DEF Injection, IsInjective
<1>4. Cardinality(1..n) <= Cardinality(S)
  BY <1>2, <1>3, FS_Injection
<1> QED
  BY <1>2, <1>4 DEF n

\* nth_child follows cptr and optr, and finds the children in their order.  There is a
\* function that does, and it is the only one, by induction on i.
LEMMA NthChild ==
  ASSUME TypeOK, NEW p \in Proc, NEW s \in Seq(Proc), Siblings(p, s)
  PROVE  /\ Cardinality(Proc) \in Nat /\ Len(s) <= Cardinality(Proc)
         /\ DOMAIN nth_child(p) = 0..Cardinality(Proc)
         /\ \A i \in 0..Cardinality(Proc) :
              nth_child(p)[i] = IF i < Len(s) THEN s[i + 1] ELSE NULL
         /\ Range(nth_child(p)) \ {NULL} = {c \in Live : parent[c] = p}
<1> DEFINE N == Cardinality(Proc)
           next(f, i) == IF i = 0 THEN cptr[p] ELSE IF f[i - 1] = NULL THEN NULL ELSE optr[f[i - 1]]
           nth == CHOOSE f : f = [i \in 0..N |-> next(f, i)]
           w == [i \in 0..N |-> IF i < Len(s) THEN s[i + 1] ELSE NULL]
<1>1. IsFiniteSet(Proc) /\ N \in Nat
  <2>1. IsFiniteSet({}) /\ IsFiniteSet(User)
    BY ProcessAssumption, FS_EmptySet
  <2>2. IsFiniteSet({} \cup {idleproc})
    BY <2>1, FS_AddElement
  <2>3. IsFiniteSet(({} \cup {idleproc}) \cup {initproc})
    BY <2>2, FS_AddElement
  <2>4. {idleproc, initproc} = ({} \cup {idleproc}) \cup {initproc}
    OBVIOUS
  <2>5. IsFiniteSet(User \cup {idleproc, initproc})
    BY <2>1, <2>3, <2>4, FS_Union
  <2> QED
    BY <2>5, FS_CardinalityType DEF Proc
<1>2. /\ s \in Seq(Proc) /\ IsInjective(s) /\ Range(s) = {c \in Live : parent[c] = p}
      /\ cptr[p] = IF Len(s) = 0 THEN NULL ELSE s[1]
      /\ \A i \in 1..Len(s) : optr[s[i]] = IF i < Len(s) THEN s[i + 1] ELSE NULL
  BY DEF Siblings
<1>3. Len(s) \in Nat /\ DOMAIN s = 1..Len(s) /\ \A i \in 1..Len(s) : s[i] \in Proc
  BY <1>2, LenProperties, ElementOfSeq
<1>4. Len(s) <= N
  BY <1>1, <1>2, InjectiveLength
<1>5. \A i \in 1..Len(s) : s[i] # NULL
  BY <1>3, ProcFacts
<1> HIDE DEF N
<1>6. \A i \in 0..N : w[i] = next(w, i)
  <2> TAKE i \in 0..N
  <2>1. CASE i = 0
    BY <1>1, <1>2, <1>3, <2>1
  <2>2. CASE i # 0
    <3>1. i - 1 \in 0..N /\ (i - 1) + 1 = i
      BY <1>1, <2>2
    <3>2. w[i - 1] = IF i - 1 < Len(s) THEN s[i] ELSE NULL
      BY <3>1
    <3>3. CASE i - 1 < Len(s)
      <4>1. i \in 1..Len(s) /\ s[i] # NULL
        BY <1>1, <1>3, <1>5, <2>2, <3>3
      <4> QED
        BY <1>1, <1>2, <2>2, <3>2, <3>3, <4>1
    <3>4. CASE ~(i - 1 < Len(s))
      <4>1. ~(i < Len(s))
        BY <1>1, <1>3, <3>4
      <4> QED
        BY <2>2, <3>2, <3>4, <4>1
    <3> QED
      BY <3>3, <3>4
  <2> QED
    BY <2>1, <2>2
<1>7. w = [i \in 0..N |-> next(w, i)]
  <2> HIDE DEF next
  <2> QED
    BY <1>6
<1>8. nth = [i \in 0..N |-> next(nth, i)]
  <2> HIDE DEF next, w
  <2> QED
    BY <1>7
<1>9. nth_child(p) = nth
  BY DEF nth_child, N
<1> HIDE DEF nth
<1>10. nth[0] = cptr[p]
  BY <1>1, <1>8
<1>11. \A i \in 0..(N - 1) : nth[i + 1] = IF nth[i] = NULL THEN NULL ELSE optr[nth[i]]
  <2> TAKE i \in 0..(N - 1)
  <2>1. i + 1 \in 0..N /\ i + 1 # 0 /\ (i + 1) - 1 = i
    BY <1>1
  <2> QED
    BY <1>8, <2>1
<1>12. \A i \in 0..N : nth[i] = w[i]
  <2> DEFINE T == {i \in 0..N : nth[i] = w[i]}
  <2>1. 0 \in T
    <3>1. 0 \in 0..N
      BY <1>1
    <3>2. w[0] = cptr[p]
      <4> HIDE DEF w
      <4> QED
        BY <1>6, <3>1
    <3> HIDE DEF w
    <3> QED
      BY <1>10, <3>1, <3>2
  <2>2. ASSUME NEW i \in 0..(N - 1), i \in T PROVE i + 1 \in T
    <3>1. i + 1 \in 0..N /\ i + 1 # 0 /\ (i + 1) - 1 = i
      BY <1>1
    <3>2. w[i + 1] = IF w[i] = NULL THEN NULL ELSE optr[w[i]]
      <4> HIDE DEF w
      <4> QED
        BY <1>6, <3>1
    <3> HIDE DEF w
    <3> QED
      BY <1>11, <2>2, <3>1, <3>2
  <2> HIDE DEF T
  <2>3. \A i \in 0..N : i \in T
    BY <1>1, <2>1, <2>2, Induction
  <2> QED
    BY <2>3 DEF T
<1>13. DOMAIN nth = 0..N
  <2> HIDE DEF next
  <2> QED
    BY <1>8
<1>14. \A i \in 0..N : nth[i] = IF i < Len(s) THEN s[i + 1] ELSE NULL
  BY <1>12
<1>15. Range(nth) \ {NULL} = Range(s)
  <2>1. ASSUME NEW i \in 0..N, nth[i] # NULL PROVE \E j \in 1..Len(s) : nth[i] = s[j]
    <3>1. i < Len(s) /\ i + 1 \in 1..Len(s)
      BY <1>1, <1>3, <1>14, <2>1
    <3> QED
      BY <1>14, <3>1
  <2>2. ASSUME NEW j \in 1..Len(s) PROVE \E i \in 0..N : nth[i] = s[j] /\ s[j] # NULL
    <3>1. j - 1 \in 0..N /\ j - 1 < Len(s) /\ (j - 1) + 1 = j
      BY <1>1, <1>3, <1>4
    <3> QED
      BY <1>5, <1>14, <3>1
  <2>3. Range(nth) = {nth[i] : i \in 0..N} /\ Range(s) = {s[j] : j \in 1..Len(s)}
    BY <1>3, <1>13 DEF Range
  <2> QED
    BY <2>1, <2>2, <2>3
<1> QED
  BY <1>1, <1>2, <1>4, <1>9, <1>13, <1>14, <1>15 DEF N

\* The list of the children of p, entry by entry.
LEMMA Entries ==
  ASSUME TypeOK, NEW p \in Proc, NEW s \in Seq(Proc), Siblings(p, s)
  PROVE  /\ Len(s) \in Nat /\ DOMAIN s = 1..Len(s)
         /\ \A i \in 1..Len(s) : s[i] \in Live /\ parent[s[i]] = p /\ s[i] \in Proc /\ s[i] # NULL
         /\ \A c \in Live : parent[c] = p => \E i \in 1..Len(s) : s[i] = c
         /\ \A i, j \in 1..Len(s) : s[i] = s[j] => i = j
<1>1. Len(s) \in Nat /\ DOMAIN s = 1..Len(s) /\ \A i \in 1..Len(s) : s[i] \in Proc
  BY LenProperties, ElementOfSeq
<1>2. Range(s) = {c \in Live : parent[c] = p} /\ Range(s) = {s[i] : i \in 1..Len(s)}
  BY <1>1 DEF Siblings, Range
<1>3. \A i, j \in 1..Len(s) : s[i] = s[j] => i = j
  BY <1>1 DEF Siblings, IsInjective
<1> QED
  BY <1>1, <1>2, <1>3, ProcFacts

\* Who has no child has an empty list, and NULL for cptr.
LEMMA NoChildren ==
  ASSUME TypeOK, NEW p \in Proc, NEW s \in Seq(Proc), Siblings(p, s)
  PROVE  /\ Len(s) = 0 <=> cptr[p] = NULL
         /\ Len(s) = 0 <=> \A c \in Live : parent[c] # p
<1>1. /\ Len(s) \in Nat
      /\ \A i \in 1..Len(s) : s[i] \in Live /\ parent[s[i]] = p /\ s[i] # NULL
      /\ \A c \in Live : parent[c] = p => \E i \in 1..Len(s) : s[i] = c
  BY Entries
<1>2. Len(s) # 0 => 1 \in 1..Len(s)
  BY <1>1
<1>3. cptr[p] = IF Len(s) = 0 THEN NULL ELSE s[1]
  BY DEF Siblings
<1> QED
  BY <1>1, <1>2, <1>3

\* What the code reads in the links of a process: its place among its siblings.
LEMMA LinksOf ==
  ASSUME TypeOK, Families, Unlinked, ParentAlive, NEW c \in Live
  PROVE  /\ cptr[c] # NULL => cptr[c] \in Live /\ parent[cptr[c]] = c
         /\ optr[c] # NULL => /\ optr[c] \in Live /\ parent[optr[c]] = parent[c]
                             /\ yptr[optr[c]] = c
         /\ yptr[c] # NULL /\ ~InLoop(parent[c]) =>
               yptr[c] \in Live /\ parent[yptr[c]] = parent[c] /\ optr[yptr[c]] = c
         /\ \A p \in Proc : cptr[p] = c /\ ~InLoop(p) => yptr[c] = NULL
<1>1. c \in Proc
  BY DEF Live
<1>2. cptr[c] # NULL => cptr[c] \in Live /\ parent[cptr[c]] = c
  <2>1. PICK s \in Seq(Proc) : Siblings(c, s)
    BY <1>1 DEF Families
  <2>2. Len(s) \in Nat /\ \A i \in 1..Len(s) : s[i] \in Live /\ parent[s[i]] = c
    BY <1>1, <2>1, Entries
  <2>3. cptr[c] = IF Len(s) = 0 THEN NULL ELSE s[1]
    BY <2>1 DEF Siblings
  <2> QED
    BY <2>2, <2>3
<1>3. /\ optr[c] # NULL => /\ optr[c] \in Live /\ parent[optr[c]] = parent[c]
                          /\ yptr[optr[c]] = c
      /\ yptr[c] # NULL /\ ~InLoop(parent[c]) =>
            yptr[c] \in Live /\ parent[yptr[c]] = parent[c] /\ optr[yptr[c]] = c
  <2>1. CASE c = idleproc
    BY <1>1, <2>1 DEF Unlinked
  <2>2. CASE c # idleproc
    <3>1. PICK p \in Proc : p = parent[c]
      BY <2>2 DEF ParentAlive, Live
    <3>2. PICK s \in Seq(Proc) : Siblings(p, s)
      BY DEF Families
    <3>3. /\ Len(s) \in Nat
          /\ \A i \in 1..Len(s) : s[i] \in Live /\ parent[s[i]] = p
          /\ \E i \in 1..Len(s) : s[i] = c
      BY <3>1, <3>2, Entries
    <3>4. PICK k \in 1..Len(s) : s[k] = c
      BY <3>3
    <3>5. /\ optr[c] = IF k < Len(s) THEN s[k + 1] ELSE NULL
          /\ \A i \in 2..Len(s) : yptr[s[i]] = s[i - 1]
          /\ Len(s) # 0 /\ ~InLoop(p) => yptr[s[1]] = NULL
      BY <3>2, <3>4 DEF Siblings
    <3>6. k < Len(s) => k + 1 \in 2..Len(s) /\ k + 1 \in 1..Len(s) /\ (k + 1) - 1 = k
      BY <3>3
    <3>7. k # 1 => k - 1 \in 1..Len(s) /\ k \in 2..Len(s) /\ k - 1 < Len(s) /\ (k - 1) + 1 = k
      BY <3>3
    <3>8. k = 1 /\ ~InLoop(p) => yptr[c] = NULL
      BY <3>3, <3>4, <3>5
    <3>9. k # 1 => optr[s[k - 1]] = s[k]
      BY <3>2, <3>7 DEF Siblings
    <3> QED
      BY <3>1, <3>3, <3>4, <3>5, <3>6, <3>7, <3>8, <3>9
  <2> QED
    BY <2>1, <2>2
<1>4. ASSUME NEW p \in Proc, cptr[p] = c, ~InLoop(p) PROVE yptr[c] = NULL
  <2>1. PICK s \in Seq(Proc) : Siblings(p, s)
    BY DEF Families
  <2>2. cptr[p] = IF Len(s) = 0 THEN NULL ELSE s[1]
    BY <2>1 DEF Siblings
  <2>3. c # NULL
    BY <1>1, ProcFacts
  <2> QED
    BY <1>4, <2>1, <2>2, <2>3 DEF Siblings
<1> QED
  BY <1>2, <1>3, <1>4

\* The lists hang together: what SiblingLists says.
LEMMA FamilyLists ==
  ASSUME TypeOK, Families, Unlinked, ParentAlive
  PROVE  SiblingLists
<1>1. ASSUME NEW p \in Live PROVE Range(nth_child(p)) \ {NULL} = {c \in Live : parent[c] = p}
  <2>1. p \in Proc
    BY DEF Live
  <2>2. PICK s \in Seq(Proc) : Siblings(p, s)
    BY <2>1 DEF Families
  <2> QED
    BY <2>1, <2>2, NthChild
<1>2. ASSUME NEW p \in Live
      PROVE  /\ \A c \in Live : cptr[p] = c /\ ~InLoop(p) => yptr[c] = NULL
             /\ \A c \in Live : optr[p] = c => yptr[c] = p
             /\ \A y \in Live : yptr[p] = y /\ ~InLoop(parent[p]) => optr[y] = p
             /\ \A q \in {cptr[p], optr[p]} : q \in Live \cup {NULL}
  <2>1. p \in Proc /\ NULL \notin Live
    BY ProcFacts DEF Live
  <2> QED
    BY <2>1, LinksOf
<1> QED
  BY <1>1, <1>2 DEF SiblingLists

\* do_wait looks at the children it is about, and at no other process.
LEMMA Candidates ==
  ASSUME TypeOK, Families, NEW p \in Proc, NEW pid \in User \cup {ANY}
  PROVE  candidates(p, pid) = Children(p, pid)
<1>1. CASE pid = ANY
  <2>1. PICK s \in Seq(Proc) : Siblings(p, s)
    BY DEF Families
  <2>2. candidates(p, pid) = {c \in Live : parent[c] = p}
    BY <1>1, <2>1, NthChild DEF candidates
  <2> QED
    BY <1>1, <2>2 DEF Children
<1>2. CASE pid # ANY
  <2>1. pid \in User /\ User \subseteq Proc /\ ANY \notin Proc
    BY <1>2, ProcFacts DEF ANY
  <2>2. \A c \in Live : c # ANY
    BY <2>1 DEF Live
  <2> QED
    BY <1>2, <2>1, <2>2 DEF candidates, Children, Live
<1> QED
  BY <1>1, <1>2

-----------------------------------------------------------------------------
(* What set_links, remove_links and the loop of do_exit do to one list. *)

\* The children of q, and their links, stay as they are.
LEMMA SiblingsKept ==
  ASSUME TypeOK, NEW q \in Proc, NEW s \in Seq(Proc), Siblings(q, s),
         {x \in Live' : parent'[x] = q} = {x \in Live : parent[x] = q},
         cptr'[q] = cptr[q],
         \A x \in Live : parent[x] = q => optr'[x] = optr[x] /\ yptr'[x] = yptr[x],
         InLoop(q) => InLoop(q)' \/ cptr[q] = NULL
  PROVE  Siblings(q, s)'
<1>1. Len(s) \in Nat /\ \A i \in 1..Len(s) : s[i] \in Live /\ parent[s[i]] = q
  BY Entries
<1>2. \A i \in 1..Len(s) : optr'[s[i]] = optr[s[i]] /\ yptr'[s[i]] = yptr[s[i]]
  BY <1>1
<1>3. IsInjective(s) /\ Range(s) = {x \in Live' : parent'[x] = q}
  BY DEF Siblings
<1>4. cptr'[q] = IF Len(s) = 0 THEN NULL ELSE s[1]
  BY DEF Siblings
<1>5. \A i \in 1..Len(s) : optr'[s[i]] = IF i < Len(s) THEN s[i + 1] ELSE NULL
  BY <1>2 DEF Siblings
<1>6. \A i \in 2..Len(s) : yptr'[s[i]] = s[i - 1]
  <2>1. \A i \in 2..Len(s) : i \in 1..Len(s)
    BY <1>1
  <2> QED
    BY <1>2, <2>1 DEF Siblings
<1>7. Len(s) # 0 /\ ~InLoop(q)' => yptr'[s[1]] = NULL
  <2>1. Len(s) # 0 => 1 \in 1..Len(s) /\ cptr[q] # NULL
    BY <1>1, NoChildren
  <2> QED
    BY <1>2, <2>1 DEF Siblings
<1> QED
  BY <1>3, <1>4, <1>5, <1>6, <1>7 DEF Siblings

\* c becomes the first child of q.
LEMMA SiblingsAdded ==
  ASSUME TypeOK, NEW q \in Proc, NEW s \in Seq(Proc), Siblings(q, s),
         NEW c \in Proc, c \notin {x \in Live : parent[x] = q},
         {x \in Live' : parent'[x] = q} = {x \in Live : parent[x] = q} \cup {c},
         cptr'[q] = c, optr'[c] = cptr[q], yptr'[c] = NULL,
         \A x \in Live : parent[x] = q =>
           optr'[x] = optr[x] /\ yptr'[x] = IF x = cptr[q] THEN c ELSE yptr[x]
  PROVE  \E t \in Seq(Proc) : Siblings(q, t)'
<1>1. /\ Len(s) \in Nat
      /\ \A i \in 1..Len(s) : s[i] \in Live /\ parent[s[i]] = q
      /\ \A i, j \in 1..Len(s) : s[i] = s[j] => i = j
  <2>1. Len(s) \in Nat /\ \A i \in 1..Len(s) : s[i] \in Live /\ parent[s[i]] = q
    BY Entries
  <2>2. \A i, j \in 1..Len(s) : s[i] = s[j] => i = j
    BY Entries
  <2> QED
    BY <2>1, <2>2
<1> DEFINE t == <<c>> \o s
<1>2. IsInjective(s) /\ Range(s) = {x \in Live : parent[x] = q} /\ c \notin Range(s)
  BY DEF Siblings
<1>3. /\ t \in Seq(Proc) /\ Len(t) = Len(s) + 1 /\ Range(t) = Range(s) \cup {c}
      /\ IsInjective(t)
      /\ \A i \in 1..Len(t) : t[i] = IF i = 1 THEN c ELSE s[i - 1]
  BY <1>2, ListAddHead
<1> HIDE DEF t
<1>4. cptr[q] = IF Len(s) = 0 THEN NULL ELSE s[1]
  BY DEF Siblings
<1>5. cptr'[q] = IF Len(t) = 0 THEN NULL ELSE t[1]
  BY <1>1, <1>3
<1>6. ASSUME NEW i \in 1..Len(t) PROVE optr'[t[i]] = IF i < Len(t) THEN t[i + 1] ELSE NULL
  <2>1. CASE i = 1
    <3>1. t[1] = c /\ (Len(s) # 0 => 2 \in 1..Len(t) /\ t[2] = s[1])
      BY <1>1, <1>3
    <3> QED
      BY <1>1, <1>3, <1>4, <2>1, <3>1
  <2>2. CASE i # 1
    <3>1. i - 1 \in 1..Len(s) /\ t[i] = s[i - 1]
      BY <1>1, <1>3, <2>2
    <3>2. optr'[t[i]] = IF i - 1 < Len(s) THEN s[(i - 1) + 1] ELSE NULL
      <4>1. optr'[t[i]] = optr[t[i]]
        <5>1. t[i] \in Live /\ parent[t[i]] = q
          BY <1>1, <3>1
        <5> QED
          BY <5>1
      <4>2. \A k \in 1..Len(s) : optr[s[k]] = IF k < Len(s) THEN s[k + 1] ELSE NULL
        BY DEF Siblings
      <4> QED
        BY <3>1, <4>1, <4>2
    <3>3. i < Len(t) => i + 1 \in 1..Len(t) /\ i + 1 # 1 /\ (i + 1) - 1 = (i - 1) + 1
      BY <1>1, <1>3
    <3>4. i < Len(t) <=> i - 1 < Len(s)
      BY <1>1, <1>3
    <3>5. i < Len(t) => t[i + 1] = s[(i - 1) + 1]
      BY <1>3, <3>3
    <3> QED
      BY <3>2, <3>4, <3>5
  <2> QED
    BY <2>1, <2>2
<1>7. ASSUME NEW i \in 2..Len(t) PROVE yptr'[t[i]] = t[i - 1]
  <2>1. i \in 1..Len(t) /\ i - 1 \in 1..Len(t) /\ i - 1 \in 1..Len(s) /\ t[i] = s[i - 1]
    BY <1>1, <1>3
  <2>2. CASE i = 2
    <3>1. t[i] = cptr[q] /\ t[i - 1] = c
      BY <1>1, <1>3, <1>4, <2>1, <2>2
    <3>2. t[i] \in Live /\ parent[t[i]] = q
      BY <1>1, <2>1
    <3> QED
      BY <3>1, <3>2
  <2>3. CASE i # 2
    <3>1. i - 1 \in 2..Len(s) /\ t[i - 1] = s[(i - 1) - 1] /\ 1 \in 1..Len(s) /\ i - 1 # 1
      BY <1>1, <1>3, <2>1, <2>3
    <3>2. s[i - 1] # s[1] /\ cptr[q] = s[1]
      BY <1>1, <1>4, <2>1, <3>1
    <3>3. yptr'[t[i]] = yptr[s[i - 1]]
      BY <1>1, <2>1, <3>2
    <3> QED
      BY <3>1, <3>3 DEF Siblings
  <2> QED
    BY <2>2, <2>3
<1>8. yptr'[t[1]] = NULL
  BY <1>1, <1>3
<1>9. Range(t) = {x \in Live' : parent'[x] = q}
  BY <1>2, <1>3
<1> QED
  BY <1>3, <1>5, <1>6, <1>7, <1>8, <1>9 DEF Siblings

\* The k-th child of q leaves the list; in the loop of do_exit it is the first, and the yptr
\* of the next is not cleared.
LEMMA SiblingsRemoved ==
  ASSUME TypeOK, NEW q \in Proc, NEW s \in Seq(Proc), Siblings(q, s), NEW k \in 1..Len(s),
         {x \in Live' : parent'[x] = q} = {x \in Live : parent[x] = q} \ {s[k]},
         cptr'[q] = IF k = 1 THEN optr[s[1]] ELSE cptr[q],
         \A i \in 1..Len(s) : i # k =>
           optr'[s[i]] = IF i = k - 1 THEN optr[s[k]] ELSE optr[s[i]],
         \A i \in 1..Len(s) : i # k /\ i # k + 1 => yptr'[s[i]] = yptr[s[i]],
         k < Len(s) /\ (k # 1 \/ ~InLoop(q)') => yptr'[s[k + 1]] = yptr[s[k]],
         InLoop(q) => InLoop(q)'
  PROVE  \E t \in Seq(Proc) : Siblings(q, t)'
<1> DEFINE t == RemoveAt(s, k)
<1>1. /\ Len(s) \in Nat
      /\ \A i \in 1..Len(s) : s[i] \in Live /\ parent[s[i]] = q
      /\ \A i, j \in 1..Len(s) : s[i] = s[j] => i = j
  BY Entries
<1>2. IsInjective(s) /\ Range(s) = {x \in Live : parent[x] = q}
  BY DEF Siblings
<1>3. /\ t \in Seq(Proc) /\ Len(t) = Len(s) - 1 /\ Range(t) = Range(s) \ {s[k]}
      /\ IsInjective(t)
      /\ \A i \in 1..Len(t) : t[i] = IF i < k THEN s[i] ELSE s[i + 1]
  BY <1>2, ListDelete
<1> HIDE DEF t
<1>4. /\ cptr[q] = s[1]
      /\ \A i \in 1..Len(s) : optr[s[i]] = IF i < Len(s) THEN s[i + 1] ELSE NULL
      /\ \A i \in 2..Len(s) : yptr[s[i]] = s[i - 1]
      /\ ~InLoop(q)' => yptr[s[1]] = NULL
  BY <1>1 DEF Siblings
<1>5. cptr'[q] = IF Len(t) = 0 THEN NULL ELSE t[1]
  <2>1. CASE k = 1
    <3>1. optr[s[1]] = IF 1 < Len(s) THEN s[1 + 1] ELSE NULL
      BY <1>4, <2>1
    <3>2. Len(t) # 0 => 1 \in 1..Len(t) /\ ~(1 < k) /\ t[1] = s[1 + 1]
      BY <1>1, <1>3, <2>1
    <3> QED
      BY <1>1, <1>3, <2>1, <3>1, <3>2
  <2>2. CASE k # 1
    <3>1. 1 \in 1..Len(t) /\ 1 < k /\ t[1] = s[1]
      BY <1>1, <1>3, <2>2
    <3> QED
      BY <1>1, <1>4, <2>2, <3>1
  <2> QED
    BY <2>1, <2>2
<1>6. ASSUME NEW i \in 1..Len(t) PROVE optr'[t[i]] = IF i < Len(t) THEN t[i + 1] ELSE NULL
  <2>1. CASE i < k - 1
    <3>1. /\ i \in 1..Len(s) /\ i # k /\ i # k - 1 /\ t[i] = s[i]
          /\ i + 1 \in 1..Len(t) /\ t[i + 1] = s[i + 1] /\ i < Len(t) /\ i < Len(s)
      BY <1>1, <1>3, <2>1
    <3> QED
      BY <1>4, <3>1
  <2>2. CASE i = k - 1
    <3>1. i \in 1..Len(s) /\ i # k /\ t[i] = s[i]
      BY <1>1, <1>3, <2>2
    <3>2. optr'[t[i]] = optr[s[k]]
      BY <2>2, <3>1
    <3>3. optr[s[k]] = IF k < Len(s) THEN s[k + 1] ELSE NULL
      BY <1>4
    <3>4. k < Len(s) => k \in 1..Len(t) /\ t[k] = s[k + 1]
      BY <1>1, <1>3
    <3>5. i + 1 = k /\ (i < Len(t) <=> k < Len(s))
      BY <1>1, <1>3, <2>2
    <3> QED
      BY <3>2, <3>3, <3>4, <3>5
  <2>3. CASE i >= k
    <3>1. i + 1 \in 1..Len(s) /\ i + 1 # k /\ i + 1 # k - 1 /\ t[i] = s[i + 1]
      BY <1>1, <1>3, <2>3
    <3>2. optr'[t[i]] = IF i + 1 < Len(s) THEN s[(i + 1) + 1] ELSE NULL
      <4>1. optr'[t[i]] = optr[s[i + 1]]
        BY <3>1
      <4>2. optr[s[i + 1]] = IF i + 1 < Len(s) THEN s[(i + 1) + 1] ELSE NULL
        BY <1>4, <3>1
      <4> QED
        BY <4>1, <4>2
    <3>3. i < Len(t) => i + 1 \in 1..Len(t) /\ ~(i + 1 < k) /\ t[i + 1] = s[(i + 1) + 1]
      BY <1>1, <1>3, <2>3
    <3>4. i < Len(t) <=> i + 1 < Len(s)
      BY <1>1, <1>3
    <3> QED
      BY <3>2, <3>3, <3>4
  <2>4. i < k - 1 \/ i = k - 1 \/ i >= k
    BY <1>1, <1>3
  <2> QED
    BY <2>1, <2>2, <2>3, <2>4
<1>7. ASSUME NEW i \in 2..Len(t) PROVE yptr'[t[i]] = t[i - 1]
  <2>1. CASE i < k
    <3>1. /\ i \in 1..Len(s) /\ i \in 2..Len(s) /\ i # k /\ i # k + 1
          /\ i \in 1..Len(t) /\ i - 1 \in 1..Len(t) /\ i - 1 < k
      BY <1>1, <1>3, <2>1
    <3>2. t[i] = s[i] /\ t[i - 1] = s[i - 1]
      BY <1>3, <2>1, <3>1
    <3> QED
      BY <1>4, <3>1, <3>2
  <2>2. CASE i = k
    <3>1. k # 1 /\ k < Len(s) /\ t[i] = s[k + 1] /\ t[i - 1] = s[k - 1] /\ k \in 2..Len(s)
      BY <1>1, <1>3, <2>2
    <3> QED
      BY <1>4, <3>1
  <2>3. CASE i > k
    <3>1. /\ i + 1 \in 1..Len(s) /\ i + 1 \in 2..Len(s) /\ i + 1 # k /\ i + 1 # k + 1
          /\ t[i] = s[i + 1] /\ t[i - 1] = s[(i + 1) - 1]
      BY <1>1, <1>3, <2>3
    <3> QED
      BY <1>4, <3>1
  <2> QED
    BY <1>1, <1>3, <2>1, <2>2, <2>3
<1>8. Len(t) # 0 /\ ~InLoop(q)' => yptr'[t[1]] = NULL
  <2> SUFFICES ASSUME Len(t) # 0, ~InLoop(q)' PROVE yptr'[t[1]] = NULL
    OBVIOUS
  <2>1. CASE k = 1
    <3>1. k < Len(s) /\ t[1] = s[k + 1]
      BY <1>1, <1>3, <2>1
    <3> QED
      BY <1>4, <2>1, <3>1
  <2>2. CASE k # 1
    <3>1. 1 \in 1..Len(s) /\ 1 # k /\ 1 # k + 1 /\ t[1] = s[1]
      BY <1>1, <1>3, <2>2
    <3> QED
      BY <1>4, <3>1
  <2> QED
    BY <2>1, <2>2
<1>9. Range(t) = {x \in Live' : parent'[x] = q}
  BY <1>2, <1>3
<1> QED
  BY <1>3, <1>5, <1>6, <1>7, <1>8, <1>9 DEF Siblings

-----------------------------------------------------------------------------
(* The parts that actions share. *)

\* Nobody is in the loop of do_exit while a process that is ready to run has the CPU.
LEMMA NoLoop ==
  ASSUME IInv, LoopRuns, state[current] = "PROC_RUNNABLE"
  PROVE  \A q \in Proc : ~InLoop(q)
BY DEF IInv, LoopRuns, OnlyRunnableRuns, InLoop

\* A step that leaves the links alone, and who is there.
LEMMA LinksKept ==
  ASSUME TypeOK, Families, Unlinked, ParentAlive, Ages,
         UNCHANGED links, Live' = Live,
         \A p \in Proc : InLoop(p) => InLoop(p)' \/ cptr[p] = NULL,
         \A p \in Proc : state'[p] = "PROC_ZOMBIE" => state[p] = "PROC_ZOMBIE" \/ InLoop(p)'
  PROVE  Families' /\ Unlinked' /\ ParentAlive' /\ Ages'
<1>1. UNCHANGED <<parent, cptr, optr, yptr, proc_list>>
  BY DEF links
<1>2. Families'
  <2>1. ASSUME NEW q \in Proc PROVE \E s \in Seq(Proc) : Siblings(q, s)'
    <3>1. PICK s \in Seq(Proc) : Siblings(q, s)
      BY DEF Families
    <3>2. {x \in Live' : parent'[x] = q} = {x \in Live : parent[x] = q}
      BY <1>1
    <3>3. /\ cptr'[q] = cptr[q]
          /\ \A x \in Live : parent[x] = q => optr'[x] = optr[x] /\ yptr'[x] = yptr[x]
      BY <1>1
    <3>4. InLoop(q) => InLoop(q)' \/ cptr[q] = NULL
      OBVIOUS
    <3> QED
      BY <3>1, <3>2, <3>3, <3>4, SiblingsKept
  <2> QED
    BY <2>1 DEF Families
<1>3. Unlinked' /\ Ages'
  BY <1>1 DEF Unlinked, Ages
<1>4. ParentAlive'
  <2>1. ASSUME NEW c \in Live \ {idleproc}, state'[parent[c]] = "PROC_ZOMBIE"
        PROVE  pc'[parent[c]] = "do_exit"
    <3>1. PICK p \in Proc : p = parent[c]
      BY DEF ParentAlive, Live
    <3>2. PICK s \in Seq(Proc) : Siblings(p, s)
      BY DEF Families
    <3>3. cptr[p] # NULL
      BY <3>1, <3>2, NoChildren
    <3>4. InLoop(p) \/ InLoop(p)'
      BY <2>1, <3>1 DEF ParentAlive
    <3> QED
      BY <3>1, <3>3, <3>4 DEF InLoop
  <2>2. \A c \in Live \ {idleproc} : parent[c] \in Live
    BY DEF ParentAlive
  <2> QED
    BY <1>1, <2>1, <2>2 DEF ParentAlive, InLoop
<1> QED
  BY <1>2, <1>3, <1>4

\* A step that changes neither who is there, nor who runs, nor where.
LEMMA FamilyQuiet ==
  ASSUME FamilyInv, UNCHANGED <<state, links, current, pc, waitpid>>
  PROVE  FamilyInv'
<1>1. UNCHANGED <<parent, cptr, optr, yptr, proc_list>>
  BY DEF links
<1>2. Live' = Live /\ \A p \in Proc : InLoop(p)' <=> InLoop(p)
  BY DEF Live, InLoop
<1>3. Families'
  BY <1>1, <1>2 DEF FamilyInv, Families, Siblings
<1>4. Unlinked' /\ ParentAlive' /\ LoopRuns' /\ InitLives' /\ Ages'
  BY <1>1, <1>2 DEF FamilyInv, Unlinked, ParentAlive, LoopRuns, InitLives, Ages, InLoop
<1>5. \A p, pid : Children(p, pid)' = Children(p, pid)
  BY <1>1, <1>2 DEF Children
<1>6. Sleepers' /\ Ends'
  BY <1>2, <1>5 DEF FamilyInv, Sleepers, Ends
<1> QED
  BY <1>3, <1>4, <1>6 DEF FamilyInv

\* A step that moves p on, and at most runs schedule().
LEMMA FamilyGoto ==
  ASSUME IInv, FamilyInv, NEW p \in Proc, current = p,
         state[p] = "PROC_RUNNABLE" \/ (pc[p] = "do_exit" /\ cptr[p] = NULL),
         NEW label \in {"cpu_idle", "init_wait", "user", "trap_tail", "dead"},
         goto(p, label)
  PROVE  FamilyInv'
<1>1. /\ \A q \in Proc : pc'[q] = IF q = p THEN label ELSE pc[q]
      /\ UNCHANGED <<state, links, parent, waitpid>>
  BY DEF goto, IInv, TypeOK, links
<1>2. Live' = Live
  BY <1>1 DEF Live
<1>3. \A q \in Proc : InLoop(q) => q = p /\ cptr[q] = NULL
  BY DEF FamilyInv, LoopRuns, InLoop, IInv, OnlyRunnableRuns
<1>4. Families' /\ Unlinked' /\ ParentAlive' /\ Ages'
  BY <1>1, <1>2, <1>3, LinksKept DEF IInv, FamilyInv
<1>5. LoopRuns' /\ InitLives'
  BY <1>1, <1>2, <1>3 DEF LoopRuns, InLoop, FamilyInv, InitLives
<1>6. \A q, pid : Children(q, pid)' = Children(q, pid)
  BY <1>1, <1>2 DEF Children
<1>7. Sleepers'
  <2>1. state[p] # "PROC_SLEEPING"
    BY DEF IInv, OnlyRunnableRuns
  <2> QED
    BY <1>1, <1>2, <1>6, <2>1 DEF FamilyInv, Sleepers, Live
<1>8. Ends'
  BY <1>1, ProcFacts DEF FamilyInv, Ends
<1> QED
  BY <1>4, <1>5, <1>7, <1>8 DEF FamilyInv

\* do_fork.
LEMMA FamilyFork ==
  ASSUME IInv, FamilyInv, NEW p \in Proc \ {idleproc}, current = p, state[p] = "PROC_RUNNABLE",
         NEW c \in User, NEW label \in {"user", "user_main"},
         NEW next \in {"trap_tail", "init_wait"},
         do_fork(p, c, label, next)
  PROVE  FamilyInv'
<1> USE ProcFacts
<1>1. /\ c \in Proc \ Live /\ c # p /\ p \in Live /\ c # idleproc /\ c # initproc
      /\ TypeOK /\ Families /\ Unlinked /\ ParentAlive /\ LoopRuns
  BY DEF do_fork, Live, IInv, FamilyInv
<1>2. /\ \A q \in Proc : state'[q] = IF q = c THEN "PROC_RUNNABLE" ELSE state[q]
      /\ \A q \in Proc : pc'[q] = IF q = p THEN next ELSE IF q = c THEN label ELSE pc[q]
      /\ UNCHANGED <<waitpid, current>>
  BY <1>1 DEF do_fork, no_schedule, TypeOK
<1>3. Live' = Live \cup {c}
  BY <1>1, <1>2 DEF Live
<1>4. /\ \A q \in Proc : parent'[q] = IF q = c THEN p ELSE parent[q]
      /\ \A q \in Proc : optr'[q] = IF q = c THEN cptr[p] ELSE optr[q]
      /\ \A q \in Proc : yptr'[q] = IF q = cptr[p] THEN c ELSE yptr[q]
      /\ \A q \in Proc : cptr'[q] = IF q = p THEN c ELSE cptr[q]
      /\ proc_list' = <<c>> \o proc_list
  BY <1>1 DEF do_fork, set_links, TypeOK
<1>5. \A q \in Proc : ~InLoop(q)
  BY <1>1, NoLoop
<1>6. cptr[p] # NULL => cptr[p] \in Live /\ parent[cptr[p]] = p
  BY <1>1, LinksOf
<1>7. Live \subseteq Proc
  BY DEF Live
<1>8. Families'
  <2>1. ASSUME NEW q \in Proc PROVE \E s \in Seq(Proc) : Siblings(q, s)'
    <3>1. PICK s \in Seq(Proc) : Siblings(q, s)
      BY <1>1 DEF Families
    <3>2. CASE q = p
      <4>1. c \notin {x \in Live : parent[x] = q}
        BY <1>1
      <4>2. {x \in Live' : parent'[x] = q} = {x \in Live : parent[x] = q} \cup {c}
        BY <1>1, <1>3, <1>4, <1>7, <3>2
      <4>3. cptr'[q] = c /\ optr'[c] = cptr[q]
        BY <1>1, <1>4, <3>2
      <4>4. yptr'[c] = NULL
        BY <1>1, <1>4, <1>6 DEF Unlinked
      <4>5. \A x \in Live : parent[x] = q =>
              optr'[x] = optr[x] /\ yptr'[x] = IF x = cptr[q] THEN c ELSE yptr[x]
        BY <1>1, <1>4, <1>7, <3>2
      <4> QED
        BY <1>1, <3>1, <4>1, <4>2, <4>3, <4>4, <4>5, SiblingsAdded
    <3>3. CASE q # p
      <4>1. {x \in Live' : parent'[x] = q} = {x \in Live : parent[x] = q}
        BY <1>1, <1>3, <1>4, <1>7, <3>3
      <4>2. cptr'[q] = cptr[q]
        BY <1>4, <3>3
      <4>3. \A x \in Live : parent[x] = q => optr'[x] = optr[x] /\ yptr'[x] = yptr[x]
        BY <1>1, <1>4, <1>6, <1>7, <3>3
      <4> QED
        BY <1>1, <1>5, <3>1, <4>1, <4>2, <4>3, SiblingsKept
    <3> QED
      BY <3>2, <3>3
  <2> QED
    BY <2>1 DEF Families
<1>9. Unlinked'
  BY <1>1, <1>3, <1>4, <1>6 DEF Unlinked
<1>10. ParentAlive'
  <2>1. ASSUME NEW x \in Live' \ {idleproc}
        PROVE  parent'[x] \in Live' /\ state'[parent'[x]] # "PROC_ZOMBIE"
    <3>1. CASE x = c
      BY <1>1, <1>2, <1>3, <1>4, <3>1
    <3>2. CASE x # c
      <4>1. x \in Live \ {idleproc} /\ x \in Proc
        BY <1>3, <1>7, <3>2
      <4>2. parent[x] \in Live /\ state[parent[x]] # "PROC_ZOMBIE"
        BY <1>1, <1>5, <1>7, <4>1 DEF ParentAlive
      <4> QED
        BY <1>1, <1>2, <1>3, <1>4, <1>7, <3>2, <4>1, <4>2
    <3> QED
      BY <3>1, <3>2
  <2> QED
    BY <2>1 DEF ParentAlive
<1>11. LoopRuns' /\ InitLives' /\ Ends'
  <2>1. \A q \in Proc : ~InLoop(q)'
    BY <1>2, <1>5 DEF InLoop
  <2>2. InitLives'
    BY <1>1, <1>2, <1>3, <1>4, <1>7 DEF InitLives, FamilyInv
  <2>3. Ends'
    BY <1>1, <1>2 DEF Ends, FamilyInv
  <2> QED
    BY <2>1, <2>2, <2>3 DEF LoopRuns
<1>12. Ages'
  <2> DEFINE n == Len(proc_list)
  <2>1. /\ proc_list \in Seq(Proc) /\ IsInjective(proc_list) /\ Range(proc_list) = Live \ {idleproc}
        /\ n > 0 /\ proc_list[n] = initproc
        /\ \A i \in 1..(n - 1) : \E j \in (i + 1)..n : proc_list[j] = parent[proc_list[i]]
    BY DEF IInv, TypeOK, ProcessTable, FamilyInv, Ages
  <2>2. n \in Nat /\ DOMAIN proc_list = 1..n /\ \A i \in 1..n : proc_list[i] \in Proc
    BY <2>1, LenProperties, ElementOfSeq
  <2> HIDE DEF n
  <2>3. c \notin Range(proc_list)
    BY <1>1, <2>1
  <2>4. /\ Len(proc_list') = n + 1
        /\ \A i \in 1..(n + 1) : proc_list'[i] = IF i = 1 THEN c ELSE proc_list[i - 1]
    BY <1>1, <1>4, <2>1, <2>3, ListAddHead DEF n
  <2>5. proc_list'[n + 1] = initproc
    BY <2>1, <2>2, <2>4
  <2>6. ASSUME NEW i \in 1..n
        PROVE  \E j \in (i + 1)..(n + 1) : proc_list'[j] = parent'[proc_list'[i]]
    <3>1. CASE i = 1
      <4>1. p \in Range(proc_list)
        BY <1>1, <2>1
      <4>2. PICK j \in 1..n : proc_list[j] = p
        BY <2>2, <4>1 DEF Range
      <4>3. j + 1 \in (i + 1)..(n + 1) /\ j + 1 \in 1..(n + 1) /\ j + 1 # 1 /\ (j + 1) - 1 = j /\ i \in 1..(n + 1)
        BY <2>2, <3>1
      <4>4. proc_list'[j + 1] = p /\ proc_list'[i] = c /\ parent'[c] = p
        BY <1>1, <1>4, <2>4, <3>1, <4>2, <4>3
      <4> QED
        BY <4>3, <4>4
    <3>2. CASE i # 1
      <4>1. i - 1 \in 1..(n - 1) /\ i - 1 \in 1..n /\ (i - 1) + 1 = i /\ i \in 1..(n + 1)
        BY <2>2, <3>2
      <4>2. PICK j \in i..n : proc_list[j] = parent[proc_list[i - 1]]
        BY <2>1, <4>1
      <4>3. j + 1 \in (i + 1)..(n + 1) /\ j + 1 \in 1..(n + 1) /\ j + 1 # 1 /\ (j + 1) - 1 = j
        BY <2>2, <3>2, <4>2
      <4>4. proc_list[i - 1] \in Proc /\ proc_list[i - 1] # c
        BY <2>2, <2>3, <4>1 DEF Range
      <4>5. proc_list'[j + 1] = proc_list[j] /\ proc_list'[i] = proc_list[i - 1]
        BY <2>4, <3>2, <4>1, <4>3
      <4>6. parent'[proc_list'[i]] = parent[proc_list[i - 1]]
        BY <1>4, <4>4, <4>5
      <4> QED
        BY <4>2, <4>3, <4>5, <4>6
    <3> QED
      BY <3>1, <3>2
  <2>7. (n + 1) - 1 = n /\ n + 1 > 0
    BY <2>2
  <2> QED
    BY <2>4, <2>5, <2>6, <2>7 DEF Ages
<1>13. Sleepers'
  <2>1. ASSUME NEW q \in Live', state'[q] = "PROC_SLEEPING"
        PROVE  /\ pc'[q] = "do_wait"
               /\ Children(q, waitpid[q])' # {}
               /\ \A x \in Children(q, waitpid[q])' : state'[x] # "PROC_ZOMBIE"
    <3>1. q \in Live /\ q # c /\ q # p /\ q \in Proc
      BY <1>1, <1>2, <1>3, <1>7, <2>1
    <3>2. /\ state[q] = "PROC_SLEEPING" /\ pc[q] = "do_wait"
          /\ Children(q, waitpid[q]) # {}
          /\ \A x \in Children(q, waitpid[q]) : state[x] # "PROC_ZOMBIE"
      BY <1>2, <2>1, <3>1 DEF FamilyInv, Sleepers
    <3>3. Children(q, waitpid[q])' = Children(q, waitpid[q])
      BY <1>1, <1>2, <1>3, <1>4, <1>7, <3>1 DEF Children
    <3>4. \A x \in Children(q, waitpid[q]) : x \in Live
      BY DEF Children
    <3> QED
      BY <1>1, <1>2, <1>7, <3>1, <3>2, <3>3, <3>4
  <2> QED
    BY <1>2, <2>1 DEF Sleepers
<1> QED
  BY <1>8, <1>9, <1>10, <1>11, <1>12, <1>13 DEF FamilyInv

\* do_exit up to its loop.
LEMMA FamilyExit ==
  ASSUME IInv, FamilyInv, NEW p \in Proc \ {idleproc}, current = p, state[p] = "PROC_RUNNABLE",
         do_exit(p)
  PROVE  FamilyInv'
<1> USE ProcFacts
<1>1. CASE p = initproc
  <2>1. UNCHANGED <<state, links, current, pc, waitpid>>
    BY <1>1 DEF do_exit, panic, no_schedule
  <2> QED
    BY <2>1, FamilyQuiet
<1>2. CASE p # initproc
  <2>1. TypeOK /\ Families /\ Unlinked /\ ParentAlive /\ LoopRuns /\ InitLives /\ Ages /\ Sleepers /\ Ends
    BY DEF IInv, FamilyInv
  <2>2. \A q \in Proc : wait_child[q] <=> state[q] = "PROC_SLEEPING" /\ pc[q] = "do_wait"
    BY DEF IInv, WakeupAssert
  <2>3. /\ \A q \in Proc : state'[q] = IF q = p THEN "PROC_ZOMBIE"
                                   ELSE IF q = parent[p] /\ wait_child[q] THEN "PROC_RUNNABLE"
                                   ELSE state[q]
        /\ \A q \in Proc : pc'[q] = IF q = p THEN "do_exit" ELSE pc[q]
        /\ \A q \in Proc : waitpid'[q] = IF q = p THEN ANY ELSE waitpid[q]
        /\ UNCHANGED <<links, parent, current>>
    <3>1. /\ wakeup_proc(waiting_parent(p), [state EXCEPT ![p] = "PROC_ZOMBIE"])
          /\ pc' = [pc EXCEPT ![p] = "do_exit"]
          /\ waitpid' = [waitpid EXCEPT ![p] = ANY]
          /\ UNCHANGED <<links, parent, current>>
      BY <1>2 DEF do_exit, no_schedule, links
    <3>2. \A q \in Proc : q \in waiting_parent(p) <=> q = parent[p] /\ wait_child[q]
      BY DEF waiting_parent
    <3>3. ~wait_child[p]
      BY <2>2
    <3>4. \A q \in Proc : state'[q] = IF q \in waiting_parent(p) THEN "PROC_RUNNABLE"
                                     ELSE IF q = p THEN "PROC_ZOMBIE" ELSE state[q]
      BY <2>1, <3>1 DEF wakeup_proc, TypeOK
    <3>5. \A q \in Proc : /\ pc'[q] = IF q = p THEN "do_exit" ELSE pc[q]
                          /\ waitpid'[q] = IF q = p THEN ANY ELSE waitpid[q]
      BY <2>1, <3>1 DEF TypeOK
    <3> QED
      BY <3>1, <3>2, <3>3, <3>4, <3>5
  <2>4. Live' = Live
    BY <2>2, <2>3 DEF Live
  <2>5. \A q \in Proc : ~InLoop(q)
    BY <2>1, NoLoop
  <2>6. \A q \in Proc : state'[q] = "PROC_ZOMBIE" => state[q] = "PROC_ZOMBIE" \/ InLoop(q)'
    BY <2>3 DEF InLoop
  <2>7. Families' /\ Unlinked' /\ ParentAlive' /\ Ages'
    BY <2>1, <2>3, <2>4, <2>5, <2>6, LinksKept
  <2>8. LoopRuns' /\ InitLives' /\ Ends'
    <3>1. LoopRuns'
      BY <1>2, <2>3, <2>5 DEF LoopRuns, InLoop, Proc
    <3>2. InitLives'
      BY <1>2, <2>1, <2>3, <2>4 DEF InitLives
    <3>3. Ends'
      BY <1>2, <2>1, <2>3 DEF Ends
    <3> QED
      BY <3>1, <3>2, <3>3
  <2>9. Sleepers'
    <3>1. ASSUME NEW q \in Live, state'[q] = "PROC_SLEEPING"
          PROVE  /\ pc'[q] = "do_wait"
                 /\ Children(q, waitpid[q])' # {}
                 /\ \A x \in Children(q, waitpid[q])' : state'[x] # "PROC_ZOMBIE"
      <4>1. q \in Proc /\ q # p /\ state[q] = "PROC_SLEEPING"
        BY <2>3, <3>1 DEF Live
      <4>2. /\ pc[q] = "do_wait" /\ Children(q, waitpid[q]) # {}
            /\ \A x \in Children(q, waitpid[q]) : state[x] # "PROC_ZOMBIE"
        BY <2>1, <4>1, <3>1 DEF Sleepers
      <4>3. q # parent[p]
        BY <2>2, <2>3, <3>1, <4>1, <4>2
      <4>4. Children(q, waitpid[q])' = Children(q, waitpid[q])
        BY <2>3, <2>4, <4>1 DEF Children
      <4>5. \A x \in Children(q, waitpid[q]) : x \in Proc /\ x # p
        BY <4>3 DEF Children, Live
      <4> QED
        BY <2>3, <4>1, <4>2, <4>4, <4>5
    <3> QED
      BY <2>4, <3>1 DEF Sleepers
  <2> QED
    BY <2>7, <2>8, <2>9 DEF FamilyInv
<1> QED
  BY <1>1, <1>2

\* do_kill.
LEMMA FamilyKill ==
  ASSUME IInv, FamilyInv, NEW p \in User, NEW q \in Killable, Kill(p, q)
  PROVE  FamilyInv'
<1> USE ProcFacts
<1>1. TypeOK /\ Families /\ Unlinked /\ ParentAlive /\ LoopRuns /\ InitLives /\ Ages /\ Sleepers /\ Ends
  BY DEF IInv, FamilyInv
<1>2. \A r \in Proc : wait_child[r] <=> state[r] = "PROC_SLEEPING" /\ pc[r] = "do_wait"
  BY DEF IInv, WakeupAssert
<1>3. current = p /\ pc[p] = "user" /\ state[p] = "PROC_RUNNABLE"
  BY AtFacts DEF Kill
<1>4. /\ \A r \in Proc : state'[r] = IF r = q /\ wait_child[r] THEN "PROC_RUNNABLE" ELSE state[r]
      /\ \A r \in Proc : pc'[r] = IF r = p THEN "trap_tail" ELSE pc[r]
      /\ UNCHANGED <<links, parent, current, waitpid>>
  BY <1>1 DEF Kill, no_schedule, wakeup_proc, interrupted, TypeOK, links
<1>5. Live' = Live
  BY <1>2, <1>4 DEF Live
<1>6. \A r \in Proc : ~InLoop(r)
  BY <1>1, <1>3, NoLoop
<1>7. \A r \in Proc : state'[r] = "PROC_ZOMBIE" => state[r] = "PROC_ZOMBIE" \/ InLoop(r)'
  BY <1>4
<1>8. Families' /\ Unlinked' /\ ParentAlive' /\ Ages'
  BY <1>1, <1>4, <1>5, <1>6, <1>7, LinksKept
<1>9. LoopRuns' /\ InitLives' /\ Ends'
  <2>1. LoopRuns'
    BY <1>4, <1>6 DEF LoopRuns, InLoop
  <2>2. InitLives'
    BY <1>1, <1>4, <1>5 DEF InitLives
  <2>3. Ends'
    BY <1>1, <1>3, <1>4 DEF Ends
  <2> QED
    BY <2>1, <2>2, <2>3
<1>10. Sleepers'
  <2>1. ASSUME NEW r \in Live, state'[r] = "PROC_SLEEPING"
        PROVE  /\ pc'[r] = "do_wait"
               /\ Children(r, waitpid[r])' # {}
               /\ \A x \in Children(r, waitpid[r])' : state'[x] # "PROC_ZOMBIE"
    <3>1. r \in Proc /\ r # p /\ state[r] = "PROC_SLEEPING"
      BY <1>3, <1>4, <2>1 DEF Live
    <3>2. /\ pc[r] = "do_wait" /\ Children(r, waitpid[r]) # {}
          /\ \A x \in Children(r, waitpid[r]) : state[x] # "PROC_ZOMBIE"
      BY <1>1, <2>1, <3>1 DEF Sleepers
    <3>3. Children(r, waitpid[r])' = Children(r, waitpid[r])
      BY <1>4, <1>5 DEF Children
    <3>4. \A x \in Children(r, waitpid[r]) : x \in Proc
      BY DEF Children, Live
    <3> QED
      BY <1>4, <3>1, <3>2, <3>3, <3>4
  <2> QED
    BY <1>5, <2>1 DEF Sleepers
<1> QED
  BY <1>8, <1>9, <1>10 DEF FamilyInv

\* do_wait finds a dead child if there is one.
LEMMA FindsZombie ==
  ASSUME TypeOK, Families, NEW p \in Proc, NEW pid \in User \cup {ANY},
         NEW c \in Children(p, pid), state[c] = "PROC_ZOMBIE"
  PROVE  \E d \in Proc : finds(p, pid, d)
<1>1. c \in Live /\ parent[c] = p /\ c \in Proc
  BY DEF Children, Live
<1>2. CASE pid # ANY
  <2>1. candidates(p, pid) = Children(p, pid)
    BY Candidates
  <2> QED
    BY <1>1, <1>2, <2>1 DEF finds
<1>3. CASE pid = ANY
  <2>1. PICK s \in Seq(Proc) : Siblings(p, s)
    BY DEF Families
  <2>2. /\ Len(s) \in Nat
        /\ \A i \in 1..Len(s) : s[i] \in Live /\ parent[s[i]] = p /\ s[i] \in Proc
        /\ \E i \in 1..Len(s) : s[i] = c
    BY <1>1, <2>1, Entries
  <2> DEFINE T == {i \in 0..(Len(s) - 1) : state[s[i + 1]] = "PROC_ZOMBIE"}
  <2>3. T # {} /\ T \in SUBSET Nat
    <3>1. PICK k \in 1..Len(s) : s[k] = c
      BY <2>2
    <3>2. k - 1 \in 0..(Len(s) - 1) /\ (k - 1) + 1 = k
      BY <2>2
    <3>3. k - 1 \in T
      BY <3>1, <3>2
    <3>4. 0..(Len(s) - 1) \subseteq Nat
      BY <2>2
    <3> QED
      BY <3>3, <3>4
  <2>4. PICK m \in T : \A k \in T : m <= k
    <3> HIDE DEF T
    <3> QED
      BY <2>3, LeastNat
  <2>5. /\ m \in 0..(Len(s) - 1) /\ state[s[m + 1]] = "PROC_ZOMBIE"
        /\ \A j \in 0..(m - 1) : state[s[j + 1]] # "PROC_ZOMBIE"
    <3>1. m \in 0..(Len(s) - 1) /\ state[s[m + 1]] = "PROC_ZOMBIE"
      BY <2>4
    <3>2. ASSUME NEW j \in 0..(m - 1) PROVE j \in 0..(Len(s) - 1) /\ ~(m <= j)
      BY <2>2, <3>1
    <3> QED
      BY <2>4, <3>1, <3>2
  <2> HIDE DEF T
  <2> DEFINE kids == nth_child(p)
             N == Cardinality(Proc)
             d == s[m + 1]
  <2>6. /\ DOMAIN kids = 0..N
        /\ \A i \in 0..N : kids[i] = IF i < Len(s) THEN s[i + 1] ELSE NULL
        /\ Len(s) <= N /\ N \in Nat
    BY <2>1, NthChild
  <2> HIDE DEF kids, N
  <2>7. m \in 0..N /\ m < Len(s) /\ m + 1 \in 1..Len(s)
    BY <2>2, <2>5, <2>6
  <2>8. d \in Proc /\ d \in Children(p, pid)
    BY <1>3, <2>2, <2>7 DEF Children
  <2>9. kids[m] = d
    BY <2>6, <2>7
  <2>10. \A j \in 0..(m - 1) : state[kids[j]] # "PROC_ZOMBIE"
    <3>1. \A j \in 0..(m - 1) : j \in 0..N /\ j < Len(s)
      BY <2>2, <2>5, <2>6
    <3> QED
      BY <2>5, <2>6, <3>1
  <2>11. candidates(p, pid) = Children(p, pid)
    BY Candidates
  <2>12. m \in DOMAIN kids
    BY <2>6, <2>7
  <2>13. state[d] = "PROC_ZOMBIE"
    BY <2>5
  <2>14. finds(p, pid, d)
    <3> HIDE DEF d
    <3> QED
      BY <1>3, <2>8, <2>9, <2>10, <2>11, <2>12, <2>13 DEF finds, kids
  <2> QED
    BY <2>8, <2>14
<1> QED
  BY <1>2, <1>3

\* do_wait finds no child.
LEMMA FamilyNoChild ==
  ASSUME IInv, FamilyInv, NEW p \in Proc \ {idleproc}, current = p, state[p] = "PROC_RUNNABLE",
         NEW pid \in User \cup {ANY}, p = initproc => pid = ANY,
         no_child(p, pid)
  PROVE  FamilyInv'
<1> USE ProcFacts
<1>1. TypeOK /\ Families /\ Unlinked /\ ParentAlive /\ LoopRuns /\ InitLives /\ Ages /\ Sleepers /\ Ends
  BY DEF IInv, FamilyInv
<1>2. /\ \A q \in Proc : pc'[q] = IF q = p THEN wait_returns(p, FALSE) ELSE pc[q]
      /\ \A q \in Proc : waitpid'[q] = IF q = p THEN ANY ELSE waitpid[q]
      /\ UNCHANGED <<state, links, parent, current>>
  BY <1>1 DEF no_child, no_schedule, TypeOK, links
<1>3. Live' = Live /\ wait_returns(p, FALSE) # "do_exit"
  BY <1>2 DEF Live, wait_returns
<1>4. \A q \in Proc : ~InLoop(q)
  BY <1>1, NoLoop
<1>5. Families' /\ Unlinked' /\ ParentAlive' /\ Ages'
  BY <1>1, <1>2, <1>3, <1>4, LinksKept
<1>6. \A q, id : Children(q, id)' = Children(q, id)
  BY <1>2, <1>3 DEF Children
<1>7. LoopRuns' /\ InitLives'
  BY <1>1, <1>2, <1>3, <1>4 DEF LoopRuns, InLoop, InitLives
<1>8. Sleepers'
  BY <1>1, <1>2, <1>3, <1>6 DEF Sleepers, Live
<1>9. Ends'
  <2>1. CASE p = initproc
    <3>1. candidates(p, pid) = Children(p, pid)
      BY <1>1, Candidates
    <3>2. Children(initproc, ANY) = {}
      BY <2>1, <3>1 DEF no_child
    <3> QED
      BY <1>2, <1>6, <2>1, <3>2 DEF Ends
  <2>2. CASE p # initproc
    BY <1>1, <1>2, <2>2 DEF Ends
  <2> QED
    BY <2>1, <2>2
<1> QED
  BY <1>5, <1>7, <1>8, <1>9 DEF FamilyInv

\* do_wait sleeps: not before it has looked at every child.
LEMMA FamilySleep ==
  ASSUME IInv, FamilyInv, NEW p \in Proc \ {idleproc}, current = p, state[p] = "PROC_RUNNABLE",
         NEW pid \in User \cup {ANY}, p = initproc => pid = ANY,
         sleep(p, pid)
  PROVE  FamilyInv'
<1> USE ProcFacts
<1>1. TypeOK /\ Families /\ Unlinked /\ ParentAlive /\ LoopRuns /\ InitLives /\ Ages /\ Sleepers /\ Ends
  BY DEF IInv, FamilyInv
<1>2. /\ \A q \in Proc : state'[q] = IF q = p THEN "PROC_SLEEPING" ELSE state[q]
      /\ \A q \in Proc : pc'[q] = IF q = p THEN "do_wait" ELSE pc[q]
      /\ \A q \in Proc : waitpid'[q] = IF q = p THEN pid ELSE waitpid[q]
      /\ UNCHANGED <<links, parent>>
  BY <1>1 DEF sleep, TypeOK, links
<1>3. Live' = Live
  BY <1>2 DEF Live
<1>4. \A q \in Proc : ~InLoop(q)
  BY <1>1, NoLoop
<1>5. \A q \in Proc : state'[q] = "PROC_ZOMBIE" => state[q] = "PROC_ZOMBIE" \/ InLoop(q)'
  BY <1>2
<1>6. Families' /\ Unlinked' /\ ParentAlive' /\ Ages'
  BY <1>1, <1>2, <1>3, <1>4, <1>5, LinksKept
<1>7. \A q, id : Children(q, id)' = Children(q, id)
  BY <1>2, <1>3 DEF Children
<1>8. LoopRuns'
  BY <1>2, <1>4 DEF LoopRuns, InLoop
<1>9. InitLives'
  BY <1>1, <1>2, <1>3 DEF InitLives
<1>10. Sleepers'
  <2>1. Children(p, pid) # {} /\ \A x \in Children(p, pid) : state[x] # "PROC_ZOMBIE"
    <3>1. candidates(p, pid) # {} /\ ~ \E d \in Proc : finds(p, pid, d)
      BY DEF sleep
    <3> QED
      BY <1>1, <3>1, Candidates, FindsZombie
  <2>2. ASSUME NEW q \in Live, state'[q] = "PROC_SLEEPING"
        PROVE  /\ pc'[q] = "do_wait"
               /\ Children(q, waitpid[q])' # {}
               /\ \A x \in Children(q, waitpid[q])' : state'[x] # "PROC_ZOMBIE"
    <3>1. q \in Proc
      BY DEF Live
    <3>2. Children(q, waitpid[q])' = Children(q, waitpid'[q])
      BY <1>2, <1>3 DEF Children
    <3>3. \A x \in Children(q, waitpid'[q]) : x \in Proc
      BY DEF Children, Live
    <3>4. CASE q = p
      BY <1>2, <2>1, <3>2, <3>3, <3>4
    <3>5. CASE q # p
      BY <1>1, <1>2, <2>2, <3>1, <3>2, <3>3, <3>5 DEF Sleepers
    <3> QED
      BY <3>4, <3>5
  <2> QED
    BY <1>3, <2>2 DEF Sleepers
<1>11. Ends'
  BY <1>1, <1>2 DEF Ends
<1> QED
  BY <1>6, <1>8, <1>9, <1>10, <1>11 DEF FamilyInv

\* do_wait unlinks and frees the dead child c.
LEMMA FamilyReap ==
  ASSUME IInv, FamilyInv, NEW p \in Proc \ {idleproc}, current = p, state[p] = "PROC_RUNNABLE",
         NEW pid \in User \cup {ANY}, p = initproc => pid = ANY,
         reap(p, pid)
  PROVE  FamilyInv'
<1> USE ProcFacts
<1>1. TypeOK /\ Families /\ Unlinked /\ ParentAlive /\ LoopRuns /\ InitLives /\ Ages /\ Sleepers /\ Ends
  BY DEF IInv, FamilyInv
<1>2. PICK c \in Proc :
        /\ finds(p, pid, c)
        /\ remove_links(c)
        /\ state' = [state EXCEPT ![c] = "PROC_UNINIT"]
        /\ pc' = [pc EXCEPT ![c] = "none", ![p] = wait_returns(p, TRUE)]
        /\ waitpid' = [waitpid EXCEPT ![p] = ANY]
        /\ no_schedule
  BY DEF reap
<1>3. /\ state[c] = "PROC_ZOMBIE" /\ c \in Live /\ parent[c] = p
      /\ c # p /\ c # idleproc /\ c # initproc
  <2>1. candidates(p, pid) = Children(p, pid)
    BY <1>1, Candidates
  <2>2. c \in Children(p, pid) /\ state[c] = "PROC_ZOMBIE"
    BY <1>2, <2>1 DEF finds
  <2> QED
    BY <1>1, <2>2 DEF Children, InitLives, IInv, IdleReady
<1>4. /\ \A q \in Proc : state'[q] = IF q = c THEN "PROC_UNINIT" ELSE state[q]
      /\ \A q \in Proc : pc'[q] = IF q = p THEN wait_returns(p, TRUE) ELSE IF q = c THEN "none" ELSE pc[q]
      /\ \A q \in Proc : waitpid'[q] = IF q = p THEN ANY ELSE waitpid[q]
      /\ current' = current
  BY <1>1, <1>2, <1>3 DEF no_schedule, TypeOK
<1>5. Live' = Live \ {c} /\ Live \subseteq Proc
  BY <1>4 DEF Live
<1>6. /\ \A q \in Proc : parent'[q] = IF q = c THEN NULL ELSE parent[q]
      /\ \A q \in Proc : optr'[q] = IF q = c THEN NULL ELSE IF q = yptr[c] THEN optr[c] ELSE optr[q]
      /\ \A q \in Proc : yptr'[q] = IF q = c THEN NULL ELSE IF q = optr[c] THEN yptr[c] ELSE yptr[q]
      /\ \A q \in Proc : cptr'[q] = IF q = p /\ yptr[c] = NULL THEN optr[c] ELSE cptr[q]
      /\ proc_list' = RemoveAt(proc_list, place(c))
  BY <1>1, <1>2, <1>3 DEF remove_links, TypeOK
<1>7. \A q \in Proc : ~InLoop(q)
  BY <1>1, NoLoop
<1>8. /\ optr[c] # NULL => optr[c] \in Live /\ parent[optr[c]] = p
      /\ yptr[c] # NULL => yptr[c] \in Live /\ parent[yptr[c]] = p
  BY <1>1, <1>3, <1>7, LinksOf
<1>9. \A x \in Live \ {idleproc} : parent[x] \in Live \ {c} /\ state[parent[x]] # "PROC_ZOMBIE"
  BY <1>1, <1>3, <1>5, <1>7 DEF ParentAlive
<1>10. Families'
  <2>1. ASSUME NEW q \in Proc PROVE \E s \in Seq(Proc) : Siblings(q, s)'
    <3>1. PICK s \in Seq(Proc) : Siblings(q, s)
      BY <1>1 DEF Families
    <3>2. CASE q = p
      <4>1. /\ Len(s) \in Nat
            /\ \A i \in 1..Len(s) : s[i] \in Live /\ parent[s[i]] = p /\ s[i] \in Proc /\ s[i] # NULL
            /\ \E i \in 1..Len(s) : s[i] = c
            /\ \A i, j \in 1..Len(s) : s[i] = s[j] => i = j
        BY <1>1, <1>3, <3>1, <3>2, Entries
      <4>2. PICK k \in 1..Len(s) : s[k] = c
        BY <4>1
      <4>3. /\ cptr[p] = IF Len(s) = 0 THEN NULL ELSE s[1]
            /\ optr[c] = IF k < Len(s) THEN s[k + 1] ELSE NULL
            /\ \A i \in 2..Len(s) : yptr[s[i]] = s[i - 1]
            /\ Len(s) # 0 => yptr[s[1]] = NULL
        BY <1>7, <3>1, <3>2, <4>2 DEF Siblings
      <4>4. yptr[c] = IF k = 1 THEN NULL ELSE s[k - 1]
        <5>1. CASE k = 1
          BY <4>1, <4>2, <4>3, <5>1
        <5>2. CASE k # 1
          <6>1. k \in 2..Len(s)
            BY <4>1, <5>2
          <6> QED
            BY <4>2, <4>3, <5>2, <6>1
        <5> QED
          BY <5>1, <5>2
      <4>5. /\ k < Len(s) => k + 1 \in 1..Len(s) /\ k + 1 # k
            /\ k # 1 => k - 1 \in 1..Len(s) /\ k - 1 # k
            /\ 1 \in 1..Len(s)
            /\ \A i \in 1..Len(s) : i + 1 = k <=> i = k - 1
        BY <4>1
      <4>6. {x \in Live' : parent'[x] = q} = {x \in Live : parent[x] = q} \ {s[k]}
        BY <1>3, <1>5, <1>6, <3>2, <4>2
      <4>7. cptr'[q] = IF k = 1 THEN optr[s[1]] ELSE cptr[q]
        BY <1>3, <1>6, <3>2, <4>1, <4>2, <4>4, <4>5
      <4>8. \A i \in 1..Len(s) : i # k =>
              optr'[s[i]] = IF i = k - 1 THEN optr[s[k]] ELSE optr[s[i]]
        <5>1. ASSUME NEW i \in 1..Len(s), i # k
              PROVE  optr'[s[i]] = IF i = k - 1 THEN optr[s[k]] ELSE optr[s[i]]
          <6>1. s[i] # c /\ s[i] \in Proc /\ s[i] # NULL
            BY <4>1, <4>2, <5>1
          <6>2. s[i] = yptr[c] <=> i = k - 1
            <7>1. CASE k = 1
              BY <4>1, <4>4, <6>1, <7>1
            <7>2. CASE k # 1
              BY <4>1, <4>4, <4>5, <7>2
            <7> QED
              BY <7>1, <7>2
          <6> QED
            BY <1>6, <4>2, <6>1, <6>2
        <5> QED
          BY <5>1
      <4>9. \A i \in 1..Len(s) : i # k /\ i # k + 1 => yptr'[s[i]] = yptr[s[i]]
        <5>1. ASSUME NEW i \in 1..Len(s), i # k, i # k + 1 PROVE yptr'[s[i]] = yptr[s[i]]
          <6>1. s[i] # c /\ s[i] \in Proc /\ s[i] # NULL
            BY <4>1, <4>2, <5>1
          <6>2. s[i] # optr[c]
            BY <4>1, <4>3, <4>5, <5>1, <6>1
          <6> QED
            BY <1>6, <6>1, <6>2
        <5> QED
          BY <5>1
      <4>10. k < Len(s) /\ (k # 1 \/ ~InLoop(q)') => yptr'[s[k + 1]] = yptr[s[k]]
        <5>1. ASSUME k < Len(s) PROVE yptr'[s[k + 1]] = yptr[s[k]]
          <6>1. s[k + 1] # c /\ s[k + 1] \in Proc /\ s[k + 1] = optr[c]
            BY <4>1, <4>2, <4>3, <4>5, <5>1
          <6> QED
            BY <1>6, <4>2, <6>1
        <5> QED
          BY <5>1
      <4> QED
        BY <1>1, <1>7, <3>1, <4>6, <4>7, <4>8, <4>9, <4>10, SiblingsRemoved
    <3>3. CASE q # p
      <4>1. {x \in Live' : parent'[x] = q} = {x \in Live : parent[x] = q}
        <5>1. q # NULL
          OBVIOUS
        <5> QED
          BY <1>3, <1>5, <1>6, <3>3, <5>1
      <4>2. cptr'[q] = cptr[q]
        BY <1>6, <3>3
      <4>3. \A x \in Live : parent[x] = q => optr'[x] = optr[x] /\ yptr'[x] = yptr[x]
        <5>1. ASSUME NEW x \in Live, parent[x] = q PROVE optr'[x] = optr[x] /\ yptr'[x] = yptr[x]
          <6>1. x \in Proc /\ x # c /\ x # NULL
            BY <1>3, <1>5, <3>3, <5>1
          <6>2. x # yptr[c] /\ x # optr[c]
            BY <1>8, <3>3, <5>1, <6>1
          <6> QED
            BY <1>6, <6>1, <6>2
        <5> QED
          BY <5>1
      <4> QED
        BY <1>1, <1>7, <3>1, <4>1, <4>2, <4>3, SiblingsKept
    <3> QED
      BY <3>2, <3>3
  <2> QED
    BY <2>1 DEF Families
<1>11. Unlinked'
  <2>1. ASSUME NEW q \in Proc, q \notin Live' \/ q = idleproc
        PROVE  parent'[q] = NULL /\ optr'[q] = NULL /\ yptr'[q] = NULL
    <3>1. CASE q = c
      BY <1>6, <3>1
    <3>2. CASE q # c
      <4>1. parent[q] = NULL /\ optr[q] = NULL /\ yptr[q] = NULL
        BY <1>1, <1>5, <2>1, <3>2 DEF Unlinked
      <4>2. q # yptr[c] /\ q # optr[c]
        BY <1>8, <4>1
      <4> QED
        BY <1>6, <3>2, <4>1, <4>2
    <3> QED
      BY <3>1, <3>2
  <2> QED
    BY <2>1 DEF Unlinked
<1>12. ParentAlive'
  <2>1. \A x \in Live' \ {idleproc} : parent'[x] = parent[x] /\ x \in Live \ {idleproc}
    BY <1>5, <1>6
  <2> QED
    BY <1>4, <1>5, <1>9, <2>1 DEF ParentAlive
<1>13. LoopRuns' /\ InitLives' /\ Ends'
  <2>1. LoopRuns'
    BY <1>4, <1>7 DEF LoopRuns, InLoop, wait_returns
  <2>2. InitLives'
    <3>1. state'[initproc] = state[initproc] /\ waitpid'[initproc] = ANY
      BY <1>1, <1>3, <1>4 DEF InitLives
    <3>2. \A x \in Live' : x \in Live /\ parent'[x] = parent[x]
      BY <1>5, <1>6
    <3> QED
      BY <1>1, <3>1, <3>2 DEF InitLives
  <2>3. Ends'
    BY <1>1, <1>3, <1>4 DEF Ends, wait_returns
  <2> QED
    BY <2>1, <2>2, <2>3
<1>14. Ages'
  <2> DEFINE n == Len(proc_list)
             k == place(c)
  <2>1. /\ proc_list \in Seq(Proc) /\ IsInjective(proc_list) /\ Range(proc_list) = Live \ {idleproc}
        /\ n > 0 /\ proc_list[n] = initproc
        /\ \A i \in 1..(n - 1) : \E j \in (i + 1)..n : proc_list[j] = parent[proc_list[i]]
        /\ k \in 1..n /\ proc_list[k] = c
    BY <1>1, <1>3, PlaceOf DEF IInv, TypeOK, ProcessTable, Ages
  <2>2. n \in Nat /\ DOMAIN proc_list = 1..n /\ \A i \in 1..n : proc_list[i] \in Proc
    BY <2>1, LenProperties, ElementOfSeq
  <2>3. /\ Len(proc_list') = n - 1
        /\ \A i \in 1..(n - 1) : proc_list'[i] = IF i < k THEN proc_list[i] ELSE proc_list[i + 1]
    <3>1. proc_list' = RemoveAt(proc_list, k)
      BY <1>6
    <3>2. proc_list \in Seq(Proc) /\ IsInjective(proc_list) /\ k \in 1..Len(proc_list)
      BY <2>1
    <3> HIDE DEF k
    <3> DEFINE d == RemoveAt(proc_list, k)
    <3>3. /\ Len(d) = Len(proc_list) - 1
          /\ \A i \in 1..Len(d) : d[i] = IF i < k THEN proc_list[i] ELSE proc_list[i + 1]
      BY <3>2, ListDelete
    <3> QED
      BY <3>1, <3>3
  <2>4. \A i, j \in 1..n : proc_list[i] = proc_list[j] => i = j
    BY <2>1, <2>2 DEF IsInjective
  <2> HIDE DEF n, k
  <2>5. n - 1 > 0 /\ k < n /\ proc_list'[n - 1] = initproc
    <3>1. k # n
      BY <1>3, <2>1
    <3>2. n - 1 \in 1..(n - 1) /\ ~(n - 1 < k) /\ (n - 1) + 1 = n
      BY <2>1, <2>2, <3>1
    <3> QED
      BY <2>1, <2>2, <2>3, <3>1, <3>2
  <2> DEFINE old(i) == IF i < k THEN i ELSE i + 1
  <2>6. \A i \in 1..(n - 1) : /\ old(i) \in 1..n /\ old(i) # k
                             /\ proc_list'[i] = proc_list[old(i)]
    BY <2>1, <2>2, <2>3
  <2>7. ASSUME NEW i \in 1..(n - 2)
        PROVE  \E j \in (i + 1)..(n - 1) : proc_list'[j] = parent'[proc_list'[i]]
    <3>1. i \in 1..(n - 1) /\ old(i) \in 1..(n - 1)
      BY <2>1, <2>2, <2>5
    <3>2. PICK m \in (old(i) + 1)..n : proc_list[m] = parent[proc_list[old(i)]]
      BY <2>1, <3>1
    <3>3. proc_list[old(i)] # c /\ proc_list[old(i)] \in Live \ {idleproc}
      <4>1. old(i) \in 1..n /\ old(i) # k
        BY <2>6, <3>1
      <4> HIDE DEF old
      <4> QED
        BY <2>1, <2>2, <2>4, <4>1 DEF Range
    <3>4. parent'[proc_list'[i]] = proc_list[m] /\ proc_list[m] # c
      <4> HIDE DEF old
      <4> QED
        BY <1>5, <1>6, <1>9, <2>6, <3>1, <3>2, <3>3
    <3>5. m # k
      BY <2>1, <3>4
    <3>6. CASE m < k
      <4>1. m \in (i + 1)..(n - 1) /\ m \in 1..(n - 1)
        BY <2>1, <2>2, <2>5, <3>1, <3>2, <3>6
      <4>2. proc_list'[m] = proc_list[m]
        BY <2>3, <3>6, <4>1
      <4> QED
        BY <3>4, <4>1, <4>2
    <3>7. CASE m > k
      <4>1. m - 1 \in (i + 1)..(n - 1) /\ m - 1 \in 1..(n - 1) /\ ~(m - 1 < k) /\ (m - 1) + 1 = m
        BY <2>1, <2>2, <2>5, <3>1, <3>2, <3>7
      <4>2. proc_list'[m - 1] = proc_list[m]
        BY <2>3, <4>1
      <4> QED
        BY <3>4, <4>1, <4>2
    <3> QED
      BY <2>1, <2>2, <3>2, <3>5, <3>6, <3>7
  <2>8. (n - 1) - 1 = n - 2
    BY <2>2
  <2> QED
    BY <2>3, <2>5, <2>7, <2>8 DEF Ages
<1>15. Sleepers'
  <2>1. ASSUME NEW q \in Live', state'[q] = "PROC_SLEEPING"
        PROVE  /\ pc'[q] = "do_wait"
               /\ Children(q, waitpid[q])' # {}
               /\ \A x \in Children(q, waitpid[q])' : state'[x] # "PROC_ZOMBIE"
    <3>1. q \in Live /\ q # c /\ q # p /\ q \in Proc /\ state[q] = "PROC_SLEEPING"
      BY <1>3, <1>4, <1>5, <2>1
    <3>2. /\ pc[q] = "do_wait" /\ Children(q, waitpid[q]) # {}
          /\ \A x \in Children(q, waitpid[q]) : state[x] # "PROC_ZOMBIE"
      BY <1>1, <3>1 DEF Sleepers
    <3>3. Children(q, waitpid[q])' = Children(q, waitpid[q])
      <4>1. waitpid'[q] = waitpid[q] /\ q # NULL
        BY <1>4, <3>1
      <4>2. {x \in Live' : parent'[x] = q} = {x \in Live : parent[x] = q}
        BY <1>3, <1>5, <1>6, <3>1, <4>1
      <4> QED
        BY <4>1, <4>2 DEF Children
    <3>4. \A x \in Children(q, waitpid[q]) : x \in Proc
      BY <1>5 DEF Children
    <3> QED
      BY <1>4, <3>1, <3>2, <3>3, <3>4
  <2> QED
    BY <2>1 DEF Sleepers
<1> QED
  BY <1>10, <1>11, <1>12, <1>13, <1>14, <1>15 DEF FamilyInv

\* One turn of the loop of do_exit.
LEMMA FamilyReparent ==
  ASSUME IInv, FamilyInv, NEW p \in User, Reparent(p)
  PROVE  FamilyInv'
<1> USE ProcFacts
<1>1. TypeOK /\ Families /\ Unlinked /\ ParentAlive /\ LoopRuns /\ InitLives /\ Ages /\ Sleepers /\ Ends
  BY DEF IInv, FamilyInv
<1>2. /\ current = p /\ InLoop(p) /\ state[p] = "PROC_ZOMBIE" /\ cptr[p] # NULL
      /\ p \in Live /\ p \in Proc /\ p # initproc /\ p # idleproc
  BY DEF Reparent, At, InLoop, IInv, OnlyRunnableRuns, Live
<1>3. PICK c \in Proc : c = cptr[p]
  BY <1>1, <1>2 DEF TypeOK
<1>4. c \in Live /\ parent[c] = p /\ c # initproc /\ c # idleproc
  <2>1. c \in Live /\ parent[c] = p
    BY <1>1, <1>2, <1>3, LinksOf
  <2> QED
    BY <1>1, <1>2, <2>1 DEF InitLives, Unlinked
<1>5. /\ \A q \in Proc : cptr'[q] = IF q = initproc THEN c ELSE IF q = p THEN optr[c] ELSE cptr[q]
      /\ \A q \in Proc : optr'[q] = IF q = c THEN cptr[initproc] ELSE optr[q]
      /\ \A q \in Proc : yptr'[q] = IF q = c THEN NULL
                                  ELSE IF q = cptr[initproc] THEN c ELSE yptr[q]
      /\ \A q \in Proc : parent'[q] = IF q = c THEN initproc ELSE parent[q]
  BY <1>1, <1>3 DEF Reparent, adopt, TypeOK
<1>6. /\ UNCHANGED <<proc_list, pc, waitpid, current>>
      /\ \A q \in Proc : state'[q] = IF q = initproc /\ state[c] = "PROC_ZOMBIE" /\ wait_child[q]
                                  THEN "PROC_RUNNABLE" ELSE state[q]
  BY <1>3 DEF Reparent, no_schedule, wakeup_proc, waiting_init
<1>7. \A q \in Proc : wait_child[q] <=> state[q] = "PROC_SLEEPING" /\ pc[q] = "do_wait"
  BY DEF IInv, WakeupAssert
<1>8. Live' = Live /\ Live \subseteq Proc /\ \A q \in Proc : InLoop(q)' <=> InLoop(q)
  BY <1>6, <1>7 DEF Live, InLoop
<1>9. initproc \in Live /\ state'[initproc] # "PROC_ZOMBIE"
  BY <1>1, <1>6 DEF InitLives, Live
<1>10. cptr[initproc] # NULL => cptr[initproc] \in Live /\ parent[cptr[initproc]] = initproc
  BY <1>1, <1>9, LinksOf
<1>11. Families'
  <2>1. ASSUME NEW q \in Proc PROVE \E s \in Seq(Proc) : Siblings(q, s)'
    <3>1. PICK s \in Seq(Proc) : Siblings(q, s)
      BY <1>1 DEF Families
    <3>2. CASE q = p
      <4>1. /\ Len(s) \in Nat
            /\ \A i \in 1..Len(s) : s[i] \in Live /\ parent[s[i]] = p /\ s[i] \in Proc
            /\ \A i, j \in 1..Len(s) : s[i] = s[j] => i = j
        BY <1>1, <3>1, <3>2, Entries
      <4>2. Len(s) # 0 /\ cptr[p] = IF Len(s) = 0 THEN NULL ELSE s[1]
        BY <1>2, <3>1, <3>2 DEF Siblings
      <4>3. 1 \in 1..Len(s) /\ s[1] = c
        BY <1>3, <4>1, <4>2
      <4>4. {x \in Live' : parent'[x] = q} = {x \in Live : parent[x] = q} \ {s[1]}
        BY <1>2, <1>5, <1>8, <3>2, <4>3
      <4>5. cptr'[q] = IF 1 = 1 THEN optr[s[1]] ELSE cptr[q]
        BY <1>2, <1>5, <3>2, <4>3
      <4>6. \A i \in 1..Len(s) : i # 1 => s[i] # c /\ s[i] # cptr[initproc] /\ s[i] \in Proc
        BY <1>2, <1>10, <4>1, <4>3
      <4>7. \A i \in 1..Len(s) : i # 1 =>
              optr'[s[i]] = IF i = 1 - 1 THEN optr[s[1]] ELSE optr[s[i]]
        BY <1>5, <4>1, <4>6
      <4>8. \A i \in 1..Len(s) : i # 1 /\ i # 1 + 1 => yptr'[s[i]] = yptr[s[i]]
        BY <1>5, <4>6
      <4>9. InLoop(q)'
        BY <1>2, <1>8, <3>2
      <4>10. 1 < Len(s) /\ (1 # 1 \/ ~InLoop(q)') => yptr'[s[1 + 1]] = yptr[s[1]]
        BY <4>9
      <4> QED
        BY <1>1, <3>1, <4>3, <4>4, <4>5, <4>7, <4>8, <4>9, <4>10, SiblingsRemoved
    <3>3. CASE q = initproc
      <4>1. c \notin {x \in Live : parent[x] = q}
        BY <1>2, <1>4, <3>3
      <4>2. {x \in Live' : parent'[x] = q} = {x \in Live : parent[x] = q} \cup {c}
        BY <1>4, <1>5, <1>8, <3>3
      <4>3. cptr'[q] = c /\ optr'[c] = cptr[q] /\ yptr'[c] = NULL
        BY <1>5, <3>3
      <4>4. \A x \in Live : parent[x] = q =>
              optr'[x] = optr[x] /\ yptr'[x] = IF x = cptr[q] THEN c ELSE yptr[x]
        BY <1>2, <1>4, <1>5, <1>8, <3>3
      <4> QED
        BY <1>1, <3>1, <4>1, <4>2, <4>3, <4>4, SiblingsAdded
    <3>4. CASE q # p /\ q # initproc
      <4>1. {x \in Live' : parent'[x] = q} = {x \in Live : parent[x] = q}
        BY <1>4, <1>5, <1>8, <3>4
      <4>2. cptr'[q] = cptr[q]
        BY <1>5, <3>4
      <4>3. \A x \in Live : parent[x] = q => optr'[x] = optr[x] /\ yptr'[x] = yptr[x]
        <5>1. ASSUME NEW x \in Live, parent[x] = q PROVE optr'[x] = optr[x] /\ yptr'[x] = yptr[x]
          <6>1. x # c /\ x # cptr[initproc] /\ x \in Proc
            BY <1>4, <1>8, <1>10, <3>4, <5>1
          <6> QED
            BY <1>5, <6>1
        <5> QED
          BY <5>1
      <4> QED
        BY <1>1, <1>8, <3>1, <4>1, <4>2, <4>3, SiblingsKept
    <3> QED
      BY <3>2, <3>3, <3>4
  <2> QED
    BY <2>1 DEF Families
<1>12. Unlinked'
  <2>1. ASSUME NEW q \in Proc, q \notin Live \/ q = idleproc
        PROVE  parent'[q] = NULL /\ optr'[q] = NULL /\ yptr'[q] = NULL
    <3>1. parent[q] = NULL /\ optr[q] = NULL /\ yptr[q] = NULL
      BY <1>1, <2>1 DEF Unlinked
    <3>2. q # c /\ q # cptr[initproc]
      BY <1>2, <1>4, <1>10, <2>1, <3>1
    <3> QED
      BY <1>5, <3>1, <3>2
  <2> QED
    BY <1>8, <2>1 DEF Unlinked
<1>13. ParentAlive'
  <2>1. ASSUME NEW x \in Live \ {idleproc}
        PROVE  /\ parent'[x] \in Live
               /\ state'[parent'[x]] = "PROC_ZOMBIE" => pc'[parent'[x]] = "do_exit"
    <3>1. CASE x = c
      BY <1>5, <1>9, <3>1
    <3>2. CASE x # c
      <4>1. parent'[x] = parent[x] /\ parent[x] \in Live /\ parent[x] \in Proc
        BY <1>1, <1>5, <1>8, <3>2 DEF ParentAlive
      <4>2. state[parent[x]] = "PROC_ZOMBIE" => pc[parent[x]] = "do_exit"
        BY <1>1 DEF ParentAlive, InLoop
      <4> QED
        BY <1>6, <4>1, <4>2
    <3> QED
      BY <3>1, <3>2
  <2> QED
    BY <1>8, <2>1 DEF ParentAlive, InLoop
<1>14. LoopRuns' /\ InitLives' /\ Ends'
  <2>1. LoopRuns'
    BY <1>1, <1>6 DEF LoopRuns, InLoop
  <2>2. InitLives'
    BY <1>1, <1>4, <1>5, <1>6, <1>8 DEF InitLives
  <2>3. Ends'
    BY <1>1, <1>2, <1>6 DEF Ends
  <2> QED
    BY <2>1, <2>2, <2>3
<1>15. Ages'
  <2> DEFINE n == Len(proc_list)
  <2>1. /\ proc_list \in Seq(Proc) /\ n > 0 /\ proc_list[n] = initproc
        /\ \A i \in 1..(n - 1) : \E j \in (i + 1)..n : proc_list[j] = parent[proc_list[i]]
    BY <1>1 DEF TypeOK, Ages
  <2>2. n \in Nat /\ \A i \in 1..n : proc_list[i] \in Proc
    BY <2>1, LenProperties, ElementOfSeq
  <2> HIDE DEF n
  <2>3. ASSUME NEW i \in 1..(n - 1)
        PROVE  \E j \in (i + 1)..n : proc_list[j] = parent'[proc_list[i]]
    <3>1. n \in (i + 1)..n /\ i \in 1..n
      BY <2>2
    <3>2. CASE proc_list[i] = c
      BY <1>5, <2>1, <3>1, <3>2
    <3>3. CASE proc_list[i] # c
      <4>1. proc_list[i] \in Proc /\ \E j \in (i + 1)..n : proc_list[j] = parent[proc_list[i]]
        BY <2>1, <2>2, <3>1
      <4>2. parent'[proc_list[i]] = parent[proc_list[i]]
        BY <1>5, <3>3, <4>1
      <4> QED
        BY <4>1, <4>2
    <3> QED
      BY <3>2, <3>3
  <2> QED
    BY <1>6, <2>1, <2>3 DEF Ages, n
<1>16. Sleepers'
  <2>1. ASSUME NEW q \in Live, state'[q] = "PROC_SLEEPING"
        PROVE  /\ pc'[q] = "do_wait"
               /\ Children(q, waitpid[q])' # {}
               /\ \A x \in Children(q, waitpid[q])' : state'[x] # "PROC_ZOMBIE"
    <3>1. q \in Proc /\ state[q] = "PROC_SLEEPING" /\ q # p
      BY <1>2, <1>6, <1>8, <2>1
    <3>2. /\ pc[q] = "do_wait" /\ Children(q, waitpid[q]) # {}
          /\ \A x \in Children(q, waitpid[q]) : state[x] # "PROC_ZOMBIE"
      BY <1>1, <3>1, <2>1 DEF Sleepers
    <3>3. \A x \in Proc : state'[x] = "PROC_ZOMBIE" => state[x] = "PROC_ZOMBIE"
      BY <1>6
    <3>4. \A x \in Children(q, waitpid[q]) : x \in Proc
      BY <1>8 DEF Children
    <3>5. CASE q = initproc
      <4>1. state[c] # "PROC_ZOMBIE"
        BY <1>6, <1>7, <2>1, <3>1, <3>2, <3>5
      <4>2. Children(q, waitpid[q])' = Children(q, waitpid[q]) \cup {c}
        <5>1. waitpid[q] = ANY /\ waitpid'[q] = ANY
          BY <1>1, <1>6, <3>5 DEF InitLives
        <5> QED
          BY <1>4, <1>5, <1>8, <3>5, <5>1 DEF Children
      <4> QED
        BY <1>6, <3>2, <3>3, <3>4, <4>1, <4>2
    <3>6. CASE q # initproc
      <4>1. Children(q, waitpid[q])' = Children(q, waitpid[q])
        BY <1>4, <1>5, <1>6, <1>8, <3>1, <3>6 DEF Children
      <4> QED
        BY <1>6, <3>2, <3>3, <3>4, <4>1
    <3> QED
      BY <3>5, <3>6
  <2> QED
    BY <1>8, <2>1 DEF Sleepers
<1> QED
  BY <1>11, <1>12, <1>13, <1>14, <1>15, <1>16 DEF FamilyInv

\* do_wait.
LEMMA FamilyWait ==
  ASSUME IInv, FamilyInv, NEW p \in Proc \ {idleproc}, current = p, state[p] = "PROC_RUNNABLE",
         NEW pid \in User \cup {ANY}, p = initproc => pid = ANY,
         do_wait(p, pid)
  PROVE  FamilyInv'
BY FamilyReap, FamilySleep, FamilyNoChild DEF do_wait

-----------------------------------------------------------------------------
\* The invariant holds at boot: idleproc has one child, initproc.
LEMMA InitFamily == Init => FamilyInv
<1> USE ProcFacts
<1> SUFFICES ASSUME Init PROVE FamilyInv
  OBVIOUS
<1>1. Live = {idleproc, initproc} /\ Live \subseteq Proc
  BY DEF Init, Live, Proc
<1>2. Families
  <2>1. ASSUME NEW p \in Proc PROVE \E s \in Seq(Proc) : Siblings(p, s)
    <3>1. CASE p = idleproc
      <4> DEFINE s == <<initproc>>
      <4>1. s \in Seq(Proc) /\ Len(s) = 1 /\ s[1] = initproc /\ DOMAIN s = {1}
        OBVIOUS
      <4>2. IsInjective(s) /\ Range(s) = {initproc}
        BY <4>1 DEF IsInjective, Range
      <4>3. {c \in Live : parent[c] = p} = {initproc}
        BY <1>1, <3>1 DEF Init
      <4>4. cptr[p] = initproc /\ optr[initproc] = NULL /\ yptr[initproc] = NULL
        BY <3>1 DEF Init
      <4> HIDE DEF s
      <4>5. Siblings(p, s)
        BY <4>1, <4>2, <4>3, <4>4 DEF Siblings
      <4> QED
        BY <4>1, <4>5
    <3>2. CASE p # idleproc
      <4> DEFINE s == <<>>
      <4>1. s \in Seq(Proc) /\ Len(s) = 0 /\ DOMAIN s = {}
        OBVIOUS
      <4>2. IsInjective(s) /\ Range(s) = {}
        BY <4>1 DEF IsInjective, Range
      <4>3. {c \in Live : parent[c] = p} = {}
        BY <1>1, <3>2 DEF Init
      <4>4. cptr[p] = NULL
        BY <3>2 DEF Init
      <4> HIDE DEF s
      <4>5. Siblings(p, s)
        BY <4>1, <4>2, <4>3, <4>4 DEF Siblings
      <4> QED
        BY <4>1, <4>5
    <3> QED
      BY <3>1, <3>2
  <2> QED
    BY <2>1 DEF Families
<1>3. Unlinked /\ ParentAlive
  BY <1>1 DEF Init, Unlinked, ParentAlive
<1>4. LoopRuns /\ InitLives /\ Ends
  BY <1>1 DEF Init, LoopRuns, InLoop, InitLives, Ends
<1>5. Ages
  BY DEF Init, Ages
<1>6. Sleepers
  BY <1>1 DEF Init, Sleepers
<1> QED
  BY <1>2, <1>3, <1>4, <1>5, <1>6 DEF FamilyInv

\* Every step preserves it.
LEMMA NextFamily == IInv /\ FamilyInv /\ [Next]_vars => FamilyInv'
<1> USE ProcFacts
<1> SUFFICES ASSUME IInv, FamilyInv, [Next]_vars PROVE FamilyInv'
  OBVIOUS
<1>0. ASSUME NEW msg, panic(msg) PROVE FamilyInv'
  BY <1>0, FamilyQuiet DEF panic, no_schedule
<1>1. ASSUME NEW p \in User, UserStep(p) PROVE FamilyInv'
  <2>1. At(p, "user") /\ current = p /\ pc[p] = "user" /\ state[p] = "PROC_RUNNABLE"
    <3>1. At(p, "user")
      BY <1>1 DEF UserStep, Fork, ForkFails, ForkPanics, Fault, Exit, ExecFails, Wait, Kill,
                  Yield, Timer, OtherTrap
    <3> QED
      BY <3>1, AtFacts
  <2>2. CASE Fork(p)
    BY <2>1, <2>2, FamilyFork DEF Fork
  <2>3. CASE ForkFails(p) \/ OtherTrap(p) \/ Yield(p) \/ Timer(p)
    <3>1. goto(p, "trap_tail")
      BY <2>3 DEF ForkFails, OtherTrap, Yield, Timer, resched
    <3> QED
      BY <2>1, <3>1, FamilyGoto
  <2>4. CASE ForkPanics(p) \/ Fault(p)
    BY <1>0, <2>4 DEF ForkPanics, Fault, no_page, no_kstack
  <2>5. CASE Exit(p) \/ ExecFails(p)
    BY <2>1, <2>5, FamilyExit DEF Exit, ExecFails
  <2>6. CASE Wait(p)
    BY <2>1, <2>6, FamilyWait DEF Wait
  <2>7. CASE \E q \in Killable : Kill(p, q)
    BY <2>7, FamilyKill
  <2> QED
    BY <1>1, <2>2, <2>3, <2>4, <2>5, <2>6, <2>7 DEF UserStep
<1>2. CASE KernelStep
  <2>1. ASSUME NEW p \in User, TrapTail(p) PROVE FamilyInv'
    <3>1. current = p /\ state[p] = "PROC_RUNNABLE"
      BY <2>1, AtFacts DEF TrapTail
    <3>2. CASE do_exit(p)
      BY <3>1, <3>2, FamilyExit
    <3>3. CASE goto(p, "user")
      BY <3>1, <3>3, FamilyGoto
    <3> QED
      BY <2>1, <3>2, <3>3 DEF TrapTail
  <2>2. ASSUME NEW p \in User, Reparent(p) PROVE FamilyInv'
    BY <2>2, FamilyReparent
  <2>3. ASSUME NEW p \in User, ExitSchedule(p) PROVE FamilyInv'
    BY <2>3, FamilyGoto DEF ExitSchedule, At
  <2>4. ASSUME NEW p \in User, UserMain(p) \/ UserMainFails(p) PROVE FamilyInv'
    <3>1. current = p /\ state[p] = "PROC_RUNNABLE"
      BY <2>4, AtFacts DEF UserMain, UserMainFails
    <3>2. CASE do_exit(p)
      BY <3>1, <3>2, FamilyExit
    <3>3. CASE goto(p, "user")
      BY <3>1, <3>3, FamilyGoto
    <3> QED
      BY <1>0, <2>4, <3>2, <3>3 DEF UserMain, UserMainFails, no_page
  <2>5. ASSUME NEW p \in Proc, WaitReturns(p) PROVE FamilyInv'
    <3>1. current = p /\ p # idleproc /\ state[p] = "PROC_RUNNABLE"
      BY <2>5, AtFacts DEF WaitReturns
    <3>2. waitpid[p] \in User \cup {ANY} /\ (p = initproc => waitpid[p] = ANY)
      BY DEF IInv, TypeOK, FamilyInv, InitLives
    <3>3. CASE do_exit(p)
      BY <3>1, <3>3, FamilyExit
    <3>4. CASE do_wait(p, waitpid[p])
      BY <3>1, <3>2, <3>4, FamilyWait
    <3> QED
      BY <2>5, <3>3, <3>4 DEF WaitReturns
  <2>6. CASE CpuIdle
    <3>1. current = idleproc /\ state[idleproc] = "PROC_RUNNABLE" /\ goto(idleproc, "cpu_idle")
      BY <2>6 DEF CpuIdle, At, IInv, IdleReady
    <3> QED
      BY <3>1, FamilyGoto
  <2>7. CASE InitMain
    <3>1. current = initproc /\ state[initproc] = "PROC_RUNNABLE"
      BY <2>7, AtFacts DEF InitMain
    <3> QED
      BY <2>7, <3>1, FamilyFork DEF InitMain
  <2>8. CASE InitMainFails \/ InitEnd
    BY <1>0, <2>8 DEF InitMainFails, InitEnd, no_page, no_kstack, do_exit
  <2>9. CASE InitWait
    <3>1. current = initproc /\ state[initproc] = "PROC_RUNNABLE"
      BY <2>9, AtFacts DEF InitWait
    <3> QED
      BY <2>9, <3>1, FamilyWait DEF InitWait
  <2>10. CASE InitSchedule
    <3>1. current = initproc /\ state[initproc] = "PROC_RUNNABLE"
      BY <2>10, AtFacts DEF InitSchedule
    <3>2. goto(initproc, "init_wait")
      BY <2>10 DEF InitSchedule
    <3> QED
      BY <3>1, <3>2, FamilyGoto
  <2> QED
    BY <1>2, <2>1, <2>2, <2>3, <2>4, <2>5, <2>6, <2>7, <2>8, <2>9, <2>10 DEF KernelStep
<1>3. ASSUME NEW p \in Proc, KernelTimer(p) PROVE FamilyInv'
  BY <1>3, FamilyQuiet DEF KernelTimer
<1>4. CASE Stopped \/ UNCHANGED vars
  BY <1>4, FamilyQuiet DEF Stopped, vars
<1> QED
  BY <1>1, <1>2, <1>3, <1>4 DEF Next

\* The invariant of the family is one, beside that of ProcessProofs.
THEOREM FamilyInvariance == Spec => [](IInv /\ FamilyInv)
<1>1. Init => IInv /\ FamilyInv
  BY InitIInv, InitFamily
<1>2. (IInv /\ FamilyInv) /\ [Next]_vars => (IInv /\ FamilyInv)'
  BY NextIInv, NextFamily
<1> QED
  BY <1>1, <1>2, PTL DEF Spec

\* The sibling lists: whatever is forked, reaped and reparented in whatever order, the
\* list of a process holds its children, each once, and no link leads to a freed process.
THEOREM SiblingListsCorrect == Spec => []SiblingLists
<1>1. IInv /\ FamilyInv => SiblingLists
  BY FamilyLists DEF IInv, FamilyInv
<1> QED
  BY <1>1, FamilyInvariance, PTL

\* The loop of do_exit leaves no child behind.
THEOREM ParentsLive == Spec => []ParentAlive
<1>1. IInv /\ FamilyInv => ParentAlive
  BY DEF FamilyInv
<1> QED
  BY <1>1, FamilyInvariance, PTL

\* No wakeup is lost between do_exit and do_wait.
THEOREM NoWakeupLost == Spec => []NoLostWakeup
<1>1. ASSUME IInv, FamilyInv PROVE NoLostWakeup
  <2>1. ASSUME NEW p \in Live, state[p] = "PROC_SLEEPING"
        PROVE  /\ candidates(p, waitpid[p]) # {}
               /\ \A c \in candidates(p, waitpid[p]) : state[c] # "PROC_ZOMBIE"
    <3>1. p \in Proc /\ waitpid[p] \in User \cup {ANY} /\ TypeOK /\ Families /\ Sleepers
      BY <1>1 DEF IInv, TypeOK, FamilyInv, Live
    <3>2. candidates(p, waitpid[p]) = Children(p, waitpid[p])
      BY <3>1, Candidates
    <3> QED
      BY <2>1, <3>1, <3>2 DEF Sleepers
  <2> QED
    BY <2>1 DEF NoLostWakeup
<1> QED
  BY <1>1, FamilyInvariance, PTL

\* The processes never all wait for each other.  The sleeping process that is first on
\* proc_list waits for a child; that is before it, so it neither sleeps nor is a zombie.
THEOREM NoDeadlock == Spec => []SomeoneRuns
<1>1. ASSUME IInv, FamilyInv PROVE SomeoneRuns
  <2> SUFFICES ASSUME \A p \in Proc \ {idleproc} : state[p] # "PROC_RUNNABLE" PROVE FALSE
    BY DEF SomeoneRuns
  <2> USE ProcFacts
  <2> DEFINE n == Len(proc_list)
             T == {i \in 1..n : state[proc_list[i]] = "PROC_SLEEPING"}
  <2>1. /\ proc_list \in Seq(Proc) /\ IsInjective(proc_list) /\ Range(proc_list) = Live \ {idleproc}
        /\ n > 0 /\ proc_list[n] = initproc
        /\ \A i \in 1..(n - 1) : \E j \in (i + 1)..n : proc_list[j] = parent[proc_list[i]]
        /\ InitLives /\ Sleepers
    BY <1>1 DEF IInv, TypeOK, ProcessTable, FamilyInv, Ages
  <2>2. /\ n \in Nat /\ DOMAIN proc_list = 1..n
        /\ \A i \in 1..n : proc_list[i] \in Live \ {idleproc}
        /\ \A i, j \in 1..n : proc_list[i] = proc_list[j] => i = j
    <3>1. n \in Nat /\ DOMAIN proc_list = 1..n
      BY <2>1, LenProperties
    <3> QED
      BY <2>1, <3>1 DEF Range, IsInjective
  <2> HIDE DEF n
  <2>3. n \in T
    BY <2>1, <2>2 DEF InitLives
  <2>4. T \in SUBSET Nat
    BY <2>2
  <2> HIDE DEF T
  <2>5. PICK m \in T : \A k \in T : m <= k
    BY <2>3, <2>4, LeastNat
  <2>6. m \in 1..n /\ state[proc_list[m]] = "PROC_SLEEPING" /\ \A k \in 1..(m - 1) : k \notin T
    <3>1. m \in 1..n /\ state[proc_list[m]] = "PROC_SLEEPING"
      BY <2>5 DEF T
    <3>2. \A k \in 1..(m - 1) : ~(m <= k)
      BY <2>2, <3>1
    <3> QED
      BY <2>5, <3>1, <3>2
  <2>7. PICK p \in Live \ {idleproc} : p = proc_list[m]
    BY <2>2, <2>6
  <2>8. PICK c \in Children(p, waitpid[p]) : state[c] # "PROC_ZOMBIE"
    BY <2>1, <2>6, <2>7 DEF Sleepers
  <2>9. c \in Live /\ parent[c] = p /\ c # idleproc /\ c # initproc
    <3>1. c \in Live /\ parent[c] = p
      BY DEF Children
    <3>2. c # idleproc
      BY <1>1, <3>1, <2>7 DEF FamilyInv, Unlinked, Live
    <3> QED
      BY <2>1, <2>7, <3>1, <3>2 DEF InitLives
  <2>10. state[c] = "PROC_SLEEPING"
    <3>1. c \in Proc /\ state[c] # "PROC_UNINIT"
      BY <2>9 DEF Live
    <3> QED
      BY <1>1, <2>8, <2>9, <3>1 DEF IInv, TypeOK
  <2>11. PICK k \in 1..n : proc_list[k] = c
    BY <2>1, <2>2, <2>9 DEF Range
  <2>12. k \in T /\ k # n
    BY <2>1, <2>9, <2>10, <2>11 DEF T
  <2>13. PICK j \in (k + 1)..n : proc_list[j] = p
    <3>1. k \in 1..(n - 1)
      BY <2>2, <2>12
    <3> QED
      BY <2>1, <2>9, <2>11, <3>1
  <2>14. j = m /\ k \in 1..(m - 1)
    <3>1. j \in 1..n
      BY <2>2
    <3>2. j = m
      BY <2>2, <2>6, <2>7, <2>13, <3>1
    <3> QED
      BY <2>2, <2>13, <3>1, <3>2
  <2> QED
    BY <2>6, <2>12, <2>14
<1> QED
  BY <1>1, FamilyInvariance, PTL

\* The assertions at the end of init_main hold whenever it gets there: when initproc has no
\* child left, nobody but idleproc and initproc is left.
THEOREM InitMainCorrect == Spec => []InitMainAsserts
<1>1. ASSUME IInv, FamilyInv PROVE InitMainAsserts
  <2> USE ProcFacts
  <2> SUFFICES ASSUME pc[initproc] = "init_end" PROVE init_main_asserts
    BY DEF InitMainAsserts
  <2>1. /\ TypeOK /\ ProcessTable /\ Families /\ InitLives /\ Ages /\ Ends /\ LoopRuns /\ Unlinked
        /\ state[initproc] = "PROC_RUNNABLE" \/ InLoop(initproc)
    BY <1>1 DEF IInv, FamilyInv, OnlyRunnableRuns, Ends
  <2>2. Live \subseteq Proc /\ initproc \in Live /\ parent[initproc] = idleproc
    BY <2>1 DEF InitLives, Live
  <2>3. \A c \in Live : parent[c] # initproc
    BY <2>1 DEF Ends, Children
  <2>4. cptr[initproc] = NULL
    <3>1. PICK s \in Seq(Proc) : Siblings(initproc, s)
      BY <2>1 DEF Families
    <3> QED
      BY <2>1, <2>3, <3>1, NoChildren
  <2>5. yptr[initproc] = NULL /\ optr[initproc] = NULL
    <3>1. /\ optr[initproc] # NULL => /\ optr[initproc] \in Live /\ parent[optr[initproc]] = idleproc
                                     /\ yptr[optr[initproc]] = initproc
          /\ yptr[initproc] # NULL =>
               /\ yptr[initproc] \in Live /\ parent[yptr[initproc]] = idleproc
               /\ optr[yptr[initproc]] = initproc
      BY <1>1, <2>1, <2>2, LinksOf DEF FamilyInv, LoopRuns
    <3>2. optr[initproc] # NULL => optr[initproc] = initproc /\ yptr[initproc] = initproc
      BY <2>1, <3>1 DEF InitLives
    <3>3. yptr[initproc] # NULL => yptr[initproc] = initproc /\ optr[initproc] = initproc
      BY <2>1, <3>1 DEF InitLives
    <3>4. PICK s \in Seq(Proc) : Siblings(idleproc, s)
      BY <2>1 DEF Families
    <3>5. /\ Len(s) \in Nat
          /\ \A i \in 1..Len(s) : s[i] \in Live /\ parent[s[i]] = idleproc
          /\ \E i \in 1..Len(s) : s[i] = initproc
      BY <2>1, <2>2, <3>4, Entries
    <3>6. 1 \in 1..Len(s) /\ Len(s) # 0
      BY <3>5
    <3>7. s[1] = initproc
      BY <2>1, <3>5, <3>6 DEF InitLives
    <3>8. ~InLoop(idleproc)
      BY <2>1 DEF LoopRuns
    <3>9. yptr[initproc] = NULL
      BY <3>4, <3>6, <3>7, <3>8 DEF Siblings
    <3> QED
      BY <3>2, <3>9
  <2>6. proc_list = <<initproc>> /\ nr_process = 2
    <3> DEFINE n == Len(proc_list)
    <3>1. /\ proc_list \in Seq(Proc) /\ Range(proc_list) = Live \ {idleproc}
          /\ n > 0 /\ proc_list[n] = initproc /\ nr_process = n + 1
          /\ \A i \in 1..(n - 1) : \E j \in (i + 1)..n : proc_list[j] = parent[proc_list[i]]
      BY <2>1 DEF TypeOK, ProcessTable, Ages
    <3>2. n \in Nat /\ DOMAIN proc_list = 1..n
      BY <3>1, LenProperties
    <3>3. \A i \in 1..n : proc_list[i] \in Live
      BY <3>1, <3>2 DEF Range
    <3>4. n = 1
      <4> HIDE DEF n
      <4> SUFFICES ASSUME n # 1 PROVE FALSE
        OBVIOUS
      <4>1. n - 1 \in 1..(n - 1) /\ n - 1 \in 1..n
        BY <3>1, <3>2
      <4>2. PICK j \in ((n - 1) + 1)..n : proc_list[j] = parent[proc_list[n - 1]]
        BY <3>1, <4>1
      <4>3. j = n
        BY <3>2, <4>2
      <4> QED
        BY <2>3, <3>1, <3>3, <4>1, <4>2, <4>3
    <3>5. proc_list = <<initproc>>
      BY <3>1, <3>4
    <3> QED
      BY <3>1, <3>4, <3>5
  <2> QED
    BY <2>4, <2>5, <2>6 DEF init_main_asserts
<1> QED
  BY <1>1, FamilyInvariance, PTL

-----------------------------------------------------------------------------
(* The kernel implements the tree of processes of ProcTree. *)

\* The processes that are dead, as ProcTree has them.
Zombies == {c \in User : state[c] = "PROC_ZOMBIE"}

\* While nobody is in the loop of do_exit the tree is the one of the parent fields.
LEMMA TreeIsParent ==
  ASSUME \A q \in Proc : ~InLoop(q), Unlinked, ParentAlive, NEW c \in User
  PROVE  TreeParent(c) = parent[c] /\ (c \notin Live => parent[c] = NULL)
<1>1. c \in Proc /\ c # idleproc
  BY ProcFacts
<1>2. CASE c \in Live
  <2>1. parent[c] \in Proc
    BY <1>1, <1>2 DEF ParentAlive, Live
  <2> QED
    BY <1>2, <2>1 DEF TreeParent
<1>3. CASE c \notin Live
  BY <1>1, <1>3 DEF Unlinked, TreeParent, Live
<1> QED
  BY <1>2, <1>3

\* The running process is alive in the tree.
LEMMA RunnerAlive ==
  ASSUME FamilyInv, NEW p \in User \cup {initproc}, state[p] = "PROC_RUNNABLE"
  PROVE  Tree!Alive(p)
<1> USE ProcFacts
<1>1. CASE p = initproc
  BY <1>1 DEF Tree!Alive
<1>2. CASE p \in User
  <2>1. p \in Live \ {idleproc}
    BY <1>2 DEF Live
  <2>2. parent[p] # NULL
    BY <2>1 DEF FamilyInv, ParentAlive, Live
  <2>3. TreeParent(p) # NULL
    BY <2>2 DEF TreeParent
  <2> QED
    BY <1>2, <2>3 DEF Tree!Alive
<1> QED
  BY <1>1, <1>2

\* A step that changes neither parents nor deaths, and at most ends a loop that has given
\* all children away.
LEMMA TreeStutter ==
  ASSUME IInv, FamilyInv, UNCHANGED parent, Live' = Live,
         \A q \in User : state'[q] = "PROC_ZOMBIE" <=> state[q] = "PROC_ZOMBIE",
         \A q \in Proc : (InLoop(q)' <=> InLoop(q)) \/ cptr[q] = NULL
  PROVE  UNCHANGED Tree!vars
<1>1. ASSUME NEW c \in User PROVE TreeParent(c)' = TreeParent(c)
  <2>1. c \in Live' <=> c \in Live
    OBVIOUS
  <2>2. CASE c \in Live
    <3>1. PICK p \in Proc : p = parent[c]
      BY <2>2, ProcFacts DEF FamilyInv, ParentAlive, Live
    <3>2. cptr[p] # NULL
      <4>1. PICK s \in Seq(Proc) : Siblings(p, s)
        BY DEF FamilyInv, Families
      <4> QED
        BY <2>2, <3>1, <4>1, NoChildren DEF IInv
    <3>3. InLoop(p)' <=> InLoop(p)
      BY <3>2
    <3> QED
      BY <2>1, <2>2, <3>1, <3>3 DEF TreeParent, Live, InLoop
  <2>3. CASE c \notin Live
    BY <2>1, <2>3, ProcFacts DEF TreeParent, Live
  <2> QED
    BY <2>2, <2>3
<1>2. [c \in User |-> TreeParent(c)]' = [c \in User |-> TreeParent(c)]
  BY <1>1
<1>3. {c \in User : state[c] = "PROC_ZOMBIE"}' = {c \in User : state[c] = "PROC_ZOMBIE"}
  OBVIOUS
<1> QED
  BY <1>2, <1>3 DEF Tree!vars

\* A step that moves p on, and at most runs schedule().
LEMMA TreeGoto ==
  ASSUME IInv, FamilyInv, NEW p \in Proc, current = p,
         state[p] = "PROC_RUNNABLE" \/ (pc[p] = "do_exit" /\ cptr[p] = NULL),
         NEW label \in {"cpu_idle", "init_wait", "user", "trap_tail", "dead"},
         goto(p, label)
  PROVE  UNCHANGED Tree!vars
<1>1. /\ \A q \in Proc : pc'[q] = IF q = p THEN label ELSE pc[q]
      /\ UNCHANGED <<state, parent>>
  BY DEF goto, IInv, TypeOK, links
<1>2. Live' = Live
  BY <1>1 DEF Live
<1>3. \A q \in Proc : (InLoop(q)' <=> InLoop(q)) \/ cptr[q] = NULL
  BY <1>1 DEF InLoop, IInv, OnlyRunnableRuns
<1> QED
  BY <1>1, <1>2, <1>3, TreeStutter

\* do_fork is Fork.
LEMMA TreeFork ==
  ASSUME IInv, FamilyInv, IInv', FamilyInv',
         NEW p \in User \cup {initproc}, current = p, state[p] = "PROC_RUNNABLE",
         NEW c \in User, NEW label \in {"user", "user_main"},
         NEW next \in {"trap_tail", "init_wait"},
         do_fork(p, c, label, next)
  PROVE  Tree!Fork(p, c)
<1> USE ProcFacts
<1>1. /\ c \in Proc \ Live /\ TypeOK /\ LoopRuns /\ Unlinked /\ ParentAlive
      /\ Unlinked' /\ ParentAlive' /\ p \in Proc
  BY DEF do_fork, Live, IInv, FamilyInv
<1>2. /\ \A q \in Proc : state'[q] = IF q = c THEN "PROC_RUNNABLE" ELSE state[q]
      /\ \A q \in Proc : parent'[q] = IF q = c THEN p ELSE parent[q]
      /\ \A q \in Proc : pc'[q] \in {pc[q], next, label}
  BY <1>1 DEF do_fork, set_links, TypeOK
<1>3. \A q \in Proc : ~InLoop(q)
  BY <1>1, NoLoop
<1>4. \A q \in Proc : ~InLoop(q)'
  BY <1>2, <1>3 DEF InLoop
<1>5. \A x \in User : TreeParent(x) = parent[x]
  BY <1>1, <1>3, TreeIsParent
<1>6. \A x \in User : TreeParent(x)' = IF x = c THEN p ELSE parent[x]
  <2>1. ASSUME NEW x \in User PROVE TreeParent(x)' = parent'[x]
    <3>1. CASE x \in Live'
      <4>1. parent'[x] \in Proc
        BY <1>1, <3>1 DEF ParentAlive, Live
      <4> QED
        BY <1>4, <3>1, <4>1 DEF TreeParent, InLoop
    <3>2. CASE x \notin Live'
      BY <3>2 DEF TreeParent, Live
    <3> QED
      BY <3>1, <3>2
  <2> QED
    BY <1>2, <2>1
<1>7. parent[c] = NULL
  BY <1>1 DEF Unlinked
<1> DEFINE tree == [x \in User |-> TreeParent(x)]
<1>8. tree[c] = NULL /\ tree' = [tree EXCEPT ![c] = p]
  BY <1>5, <1>6, <1>7
<1>9. Zombies' = Zombies
  BY <1>1, <1>2 DEF Zombies, Live
<1>10. Tree!Alive(p)
  BY RunnerAlive
<1> QED
  BY <1>8, <1>9, <1>10 DEF Tree!Fork, Zombies

\* do_exit, up to its loop, is Exit: the children are initproc's at once.
LEMMA TreeExit ==
  ASSUME IInv, FamilyInv, IInv', FamilyInv',
         NEW p \in User, current = p, state[p] = "PROC_RUNNABLE",
         do_exit(p)
  PROVE  Tree!Exit(p)
<1> USE ProcFacts
<1>1. /\ TypeOK /\ LoopRuns /\ Unlinked /\ ParentAlive /\ p \in Proc /\ p # initproc
      /\ \A q \in Proc : wait_child[q] => state[q] = "PROC_SLEEPING"
  BY DEF IInv, FamilyInv, WakeupAssert
<1>2. /\ \A q \in Proc : state'[q] = IF q = parent[p] /\ wait_child[q] THEN "PROC_RUNNABLE"
                                  ELSE IF q = p THEN "PROC_ZOMBIE" ELSE state[q]
      /\ \A q \in Proc : pc'[q] = IF q = p THEN "do_exit" ELSE pc[q]
      /\ parent' = parent
  <2>1. /\ wakeup_proc(waiting_parent(p), [state EXCEPT ![p] = "PROC_ZOMBIE"])
        /\ pc' = [pc EXCEPT ![p] = "do_exit"]
        /\ parent' = parent
    BY <1>1 DEF do_exit, links
  <2>2. \A q \in Proc : q \in waiting_parent(p) <=> q = parent[p] /\ wait_child[q]
    BY DEF waiting_parent
  <2> QED
    BY <1>1, <2>1, <2>2 DEF wakeup_proc, TypeOK
<1>3. \A q \in Proc : ~InLoop(q)
  BY <1>1, NoLoop
<1>4. \A q \in Proc : pc'[q] = "do_exit" <=> q = p
  BY <1>2, <1>3 DEF InLoop
<1>5. \A x \in User : TreeParent(x) = parent[x] /\ (x \notin Live => parent[x] = NULL)
  BY <1>1, <1>3, TreeIsParent
<1>6. ASSUME NEW x \in User
      PROVE  TreeParent(x)' = IF TreeParent(x) = p THEN initproc ELSE TreeParent(x)
  <2>1. state'[x] # "PROC_UNINIT" <=> x \in Live
    BY <1>1, <1>2 DEF Live
  <2>2. CASE x \in Live
    <3>1. parent[x] \in Proc
      BY <1>1, <2>2 DEF ParentAlive, Live
    <3> QED
      BY <1>2, <1>4, <1>5, <2>1, <2>2, <3>1 DEF TreeParent, InLoop
  <2>3. CASE x \notin Live
    <3>1. TreeParent(x) = NULL /\ TreeParent(x)' = NULL /\ p # NULL
      BY <1>2, <1>5, <2>1, <2>3 DEF TreeParent
    <3> QED
      BY <3>1
  <2> QED
    BY <2>2, <2>3
<1> DEFINE tree == [x \in User |-> TreeParent(x)]
<1>7. tree' = [x \in User |-> IF tree[x] = p THEN initproc ELSE tree[x]]
  BY <1>6
<1>8. Zombies' = Zombies \cup {p}
  <2>1. \A q \in User : state'[q] = "PROC_ZOMBIE" <=> q = p \/ state[q] = "PROC_ZOMBIE"
    BY <1>1, <1>2
  <2> QED
    BY <2>1 DEF Zombies
<1>9. Tree!Alive(p)
  BY RunnerAlive
<1> QED
  BY <1>7, <1>8, <1>9 DEF Tree!Exit, Zombies

\* do_wait that finds a dead child is Reap.
LEMMA TreeReap ==
  ASSUME IInv, FamilyInv, IInv', FamilyInv',
         NEW p \in User \cup {initproc}, current = p, state[p] = "PROC_RUNNABLE",
         NEW pid \in User \cup {ANY},
         reap(p, pid)
  PROVE  \E c \in User : Tree!Reap(p, c)
<1> USE ProcFacts
<1>1. /\ TypeOK /\ LoopRuns /\ Unlinked /\ ParentAlive /\ InitLives /\ Families /\ p \in Proc
      /\ state[idleproc] = "PROC_RUNNABLE"
  BY DEF IInv, FamilyInv, IdleReady
<1>2. PICK c \in Proc :
        /\ finds(p, pid, c)
        /\ remove_links(c)
        /\ state' = [state EXCEPT ![c] = "PROC_UNINIT"]
        /\ pc' = [pc EXCEPT ![c] = "none", ![p] = wait_returns(p, TRUE)]
  BY DEF reap
<1>3. c \in User /\ c \in Live /\ state[c] = "PROC_ZOMBIE" /\ parent[c] = p
  <2>1. candidates(p, pid) = Children(p, pid)
    BY <1>1, Candidates
  <2>2. c \in Children(p, pid) /\ state[c] = "PROC_ZOMBIE"
    BY <1>2, <2>1 DEF finds
  <2> QED
    BY <1>1, <2>2 DEF Children, InitLives, Proc
<1>4. /\ \A q \in Proc : state'[q] = IF q = c THEN "PROC_UNINIT" ELSE state[q]
      /\ \A q \in Proc : parent'[q] = IF q = c THEN NULL ELSE parent[q]
      /\ \A q \in Proc : pc'[q] \in {pc[q], "none", wait_returns(p, TRUE)}
  BY <1>1, <1>2 DEF remove_links, TypeOK
<1>5. \A q \in Proc : ~InLoop(q)
  BY <1>1, NoLoop
<1>6. \A q \in Proc : pc'[q] # "do_exit"
  BY <1>4, <1>5 DEF InLoop, wait_returns
<1>7. \A x \in User : TreeParent(x) = parent[x]
  BY <1>1, <1>5, TreeIsParent
<1>8. ASSUME NEW x \in User PROVE TreeParent(x)' = IF x = c THEN NULL ELSE parent[x]
  <2>1. CASE x = c
    BY <1>4, <2>1 DEF TreeParent
  <2>2. CASE x # c
    <3>1. CASE x \in Live
      <4>1. parent[x] \in Proc /\ parent'[x] = parent[x]
        BY <1>1, <1>4, <2>2, <3>1 DEF ParentAlive, Live
      <4> QED
        BY <1>6, <2>2, <4>1 DEF TreeParent, InLoop
    <3>2. CASE x \notin Live
      BY <1>4, <2>2, <3>2 DEF TreeParent, Live
    <3> QED
      BY <3>1, <3>2
  <2> QED
    BY <2>1, <2>2
<1> DEFINE tree == [x \in User |-> TreeParent(x)]
<1>9. tree[c] = p /\ tree' = [tree EXCEPT ![c] = NULL]
  BY <1>3, <1>7, <1>8
<1>10. c \in Zombies /\ Zombies' = Zombies \ {c}
  BY <1>3, <1>4 DEF Zombies
<1>11. Tree!Alive(p)
  BY RunnerAlive
<1> QED
  BY <1>3, <1>9, <1>10, <1>11 DEF Tree!Reap, Zombies

\* do_wait is Reap, or changes nothing in the tree.
LEMMA TreeWait ==
  ASSUME IInv, FamilyInv, IInv', FamilyInv',
         NEW p \in User \cup {initproc}, current = p, state[p] = "PROC_RUNNABLE",
         NEW pid \in User \cup {ANY},
         do_wait(p, pid)
  PROVE  (\E c \in User : Tree!Reap(p, c)) \/ UNCHANGED Tree!vars
<1> USE ProcFacts
<1>1. TypeOK /\ LoopRuns /\ p \in Proc
  BY DEF IInv, FamilyInv
<1>2. \A q \in Proc : ~InLoop(q)
  BY <1>1, NoLoop
<1>3. CASE reap(p, pid)
  BY <1>3, TreeReap
<1>4. CASE sleep(p, pid)
  <2>1. /\ \A q \in Proc : state'[q] = IF q = p THEN "PROC_SLEEPING" ELSE state[q]
        /\ \A q \in Proc : pc'[q] = IF q = p THEN "do_wait" ELSE pc[q]
        /\ UNCHANGED parent
    BY <1>1, <1>4 DEF sleep, TypeOK, links
  <2>2. Live' = Live
    BY <2>1 DEF Live
  <2>3. /\ \A q \in User : state'[q] = "PROC_ZOMBIE" <=> state[q] = "PROC_ZOMBIE"
        /\ \A q \in Proc : InLoop(q)' <=> InLoop(q)
    BY <1>2, <2>1 DEF InLoop
  <2> QED
    BY <2>1, <2>2, <2>3, TreeStutter
<1>5. CASE no_child(p, pid)
  <2>1. /\ \A q \in Proc : pc'[q] = IF q = p THEN wait_returns(p, FALSE) ELSE pc[q]
        /\ UNCHANGED <<state, parent>>
    BY <1>1, <1>5 DEF no_child, TypeOK, links
  <2>2. Live' = Live
    BY <2>1 DEF Live
  <2>3. \A q \in Proc : InLoop(q)' <=> InLoop(q)
    BY <1>2, <2>1 DEF InLoop, wait_returns
  <2> QED
    BY <2>1, <2>2, <2>3, TreeStutter
<1> QED
  BY <1>3, <1>4, <1>5 DEF do_wait

\* A turn of the loop of do_exit changes nothing in the tree: the child was initproc's.
LEMMA TreeReparent ==
  ASSUME IInv, FamilyInv, IInv', FamilyInv', NEW p \in User, Reparent(p)
  PROVE  UNCHANGED Tree!vars
<1> USE ProcFacts
<1>1. TypeOK /\ Families /\ Unlinked /\ ParentAlive /\ LoopRuns /\ InitLives
  BY DEF IInv, FamilyInv
<1>2. /\ current = p /\ InLoop(p) /\ state[p] = "PROC_ZOMBIE" /\ cptr[p] # NULL
      /\ p \in Live /\ p \in Proc
  BY DEF Reparent, At, InLoop, IInv, OnlyRunnableRuns, Live
<1>3. PICK c \in Proc : c = cptr[p]
  BY <1>1, <1>2 DEF TypeOK
<1>4. c \in Live /\ parent[c] = p
  BY <1>1, <1>2, <1>3, LinksOf
<1>5. /\ \A q \in Proc : parent'[q] = IF q = c THEN initproc ELSE parent[q]
      /\ pc' = pc
      /\ \A q \in Proc : state'[q] = IF q = initproc /\ state[c] = "PROC_ZOMBIE" /\ wait_child[q]
                                  THEN "PROC_RUNNABLE" ELSE state[q]
  BY <1>1, <1>3 DEF Reparent, adopt, wakeup_proc, waiting_init, TypeOK
<1>6. \A q \in User : state'[q] = state[q]
  BY <1>5
<1>7. ~InLoop(initproc)
  BY <1>1 DEF LoopRuns
<1>8. ASSUME NEW x \in User PROVE TreeParent(x)' = TreeParent(x)
  <2>1. CASE x = c
    <3>1. TreeParent(x) = initproc
      BY <1>2, <1>4, <2>1 DEF TreeParent, Live
    <3>2. TreeParent(x)' = initproc
      BY <1>4, <1>5, <1>6, <1>7, <2>1 DEF TreeParent, Live, InLoop
    <3> QED
      BY <3>1, <3>2
  <2>2. CASE x # c
    BY <1>5, <1>6, <2>2 DEF TreeParent, InLoop
  <2> QED
    BY <2>1, <2>2
<1>9. [x \in User |-> TreeParent(x)]' = [x \in User |-> TreeParent(x)]
  BY <1>8
<1>10. {x \in User : state[x] = "PROC_ZOMBIE"}' = {x \in User : state[x] = "PROC_ZOMBIE"}
  BY <1>6
<1> QED
  BY <1>9, <1>10 DEF Tree!vars

\* do_kill changes nothing in the tree.
LEMMA TreeKill ==
  ASSUME IInv, FamilyInv, NEW p \in User, NEW q \in Killable, Kill(p, q)
  PROVE  UNCHANGED Tree!vars
<1> USE ProcFacts
<1>1. /\ TypeOK /\ LoopRuns /\ pc[p] = "user" /\ current = p /\ state[p] = "PROC_RUNNABLE"
      /\ \A r \in Proc : wait_child[r] => state[r] = "PROC_SLEEPING"
  BY AtFacts DEF Kill, IInv, FamilyInv, WakeupAssert
<1>2. /\ \A r \in Proc : state'[r] = IF r = q /\ wait_child[r] THEN "PROC_RUNNABLE" ELSE state[r]
      /\ \A r \in Proc : pc'[r] = IF r = p THEN "trap_tail" ELSE pc[r]
      /\ UNCHANGED parent
  BY <1>1 DEF Kill, wakeup_proc, interrupted, TypeOK, links
<1>3. Live' = Live
  BY <1>1, <1>2 DEF Live
<1>4. /\ \A r \in User : state'[r] = "PROC_ZOMBIE" <=> state[r] = "PROC_ZOMBIE"
      /\ \A r \in Proc : InLoop(r)' <=> InLoop(r)
  BY <1>1, <1>2 DEF InLoop
<1> QED
  BY <1>2, <1>3, <1>4, TreeStutter

\* Every step of the kernel is a step of the tree, or changes nothing there.
LEMMA TreeStep ==
  IInv /\ FamilyInv /\ IInv' /\ FamilyInv' /\ [Next]_vars => [Tree!Next]_(Tree!vars)
<1> USE ProcFacts
<1> SUFFICES ASSUME IInv, FamilyInv, IInv', FamilyInv', [Next]_vars
             PROVE  Tree!Next \/ UNCHANGED Tree!vars
  OBVIOUS
<1>1. ASSUME UNCHANGED <<state, parent, pc>> PROVE UNCHANGED Tree!vars
  <2>1. Live' = Live /\ \A q \in Proc : InLoop(q)' <=> InLoop(q)
    BY <1>1 DEF Live, InLoop
  <2> QED
    BY <1>1, <2>1, TreeStutter
<1>2. ASSUME NEW msg, panic(msg) PROVE UNCHANGED Tree!vars
  BY <1>1, <1>2 DEF panic, links
<1>3. ASSUME NEW p \in User \cup {initproc}, current = p, state[p] = "PROC_RUNNABLE", do_exit(p)
      PROVE  Tree!Next \/ UNCHANGED Tree!vars
  <2>1. CASE p = initproc
    BY <1>2, <1>3, <2>1 DEF do_exit
  <2>2. CASE p # initproc
    BY <1>3, <2>2, TreeExit DEF Tree!Next
  <2> QED
    BY <2>1, <2>2
<1>4. ASSUME NEW p \in User \cup {initproc}, current = p, state[p] = "PROC_RUNNABLE",
             NEW pid \in User \cup {ANY}, do_wait(p, pid)
      PROVE  Tree!Next \/ UNCHANGED Tree!vars
  BY <1>4, TreeWait DEF Tree!Next
<1>5. ASSUME NEW p \in User \cup {initproc}, current = p, state[p] = "PROC_RUNNABLE",
             NEW c \in User, NEW label \in {"user", "user_main"},
             NEW next \in {"trap_tail", "init_wait"}, do_fork(p, c, label, next)
      PROVE  Tree!Next
  BY <1>5, TreeFork DEF Tree!Next
<1>6. ASSUME NEW p \in User, UserStep(p) PROVE Tree!Next \/ UNCHANGED Tree!vars
  <2>1. At(p, "user") /\ current = p /\ pc[p] = "user" /\ state[p] = "PROC_RUNNABLE"
    <3>1. At(p, "user")
      BY <1>6 DEF UserStep, Fork, ForkFails, ForkPanics, Fault, Exit, ExecFails, Wait, Kill,
                  Yield, Timer, OtherTrap
    <3> QED
      BY <3>1, AtFacts
  <2>2. CASE Fork(p)
    BY <1>5, <2>1, <2>2 DEF Fork
  <2>3. CASE ForkFails(p) \/ OtherTrap(p) \/ Yield(p) \/ Timer(p)
    <3>1. goto(p, "trap_tail")
      BY <2>3 DEF ForkFails, OtherTrap, Yield, Timer, resched
    <3> QED
      BY <2>1, <3>1, TreeGoto
  <2>4. CASE ForkPanics(p) \/ Fault(p)
    BY <1>2, <2>4 DEF ForkPanics, Fault, no_page, no_kstack
  <2>5. CASE Exit(p) \/ ExecFails(p)
    BY <1>3, <2>1, <2>5 DEF Exit, ExecFails
  <2>6. CASE Wait(p)
    BY <1>4, <2>1, <2>6 DEF Wait
  <2>7. CASE \E q \in Killable : Kill(p, q)
    BY <2>7, TreeKill
  <2> QED
    BY <1>6, <2>2, <2>3, <2>4, <2>5, <2>6, <2>7 DEF UserStep
<1>7. CASE KernelStep
  <2>1. ASSUME NEW p \in User, TrapTail(p) PROVE Tree!Next \/ UNCHANGED Tree!vars
    <3>1. current = p /\ state[p] = "PROC_RUNNABLE"
      BY <2>1, AtFacts DEF TrapTail
    <3>2. CASE do_exit(p)
      BY <1>3, <3>1, <3>2
    <3>3. CASE goto(p, "user")
      BY <3>1, <3>3, TreeGoto
    <3> QED
      BY <2>1, <3>2, <3>3 DEF TrapTail
  <2>2. ASSUME NEW p \in User, Reparent(p) PROVE UNCHANGED Tree!vars
    BY <2>2, TreeReparent
  <2>3. ASSUME NEW p \in User, ExitSchedule(p) PROVE UNCHANGED Tree!vars
    BY <2>3, TreeGoto DEF ExitSchedule, At
  <2>4. ASSUME NEW p \in User, UserMain(p) \/ UserMainFails(p)
        PROVE  Tree!Next \/ UNCHANGED Tree!vars
    <3>1. current = p /\ state[p] = "PROC_RUNNABLE"
      BY <2>4, AtFacts DEF UserMain, UserMainFails
    <3>2. CASE do_exit(p)
      BY <1>3, <3>1, <3>2
    <3>3. CASE goto(p, "user")
      BY <3>1, <3>3, TreeGoto
    <3> QED
      BY <1>2, <2>4, <3>2, <3>3 DEF UserMain, UserMainFails, no_page
  <2>5. ASSUME NEW p \in Proc, WaitReturns(p) PROVE Tree!Next \/ UNCHANGED Tree!vars
    <3>1. current = p /\ p \in User \cup {initproc} /\ state[p] = "PROC_RUNNABLE"
      BY <2>5, AtFacts DEF WaitReturns, Proc
    <3>2. waitpid[p] \in User \cup {ANY}
      BY DEF IInv, TypeOK
    <3> QED
      BY <1>3, <1>4, <2>5, <3>1, <3>2 DEF WaitReturns
  <2>6. CASE CpuIdle
    <3>1. current = idleproc /\ state[idleproc] = "PROC_RUNNABLE" /\ goto(idleproc, "cpu_idle")
      BY <2>6 DEF CpuIdle, At, IInv, IdleReady
    <3> QED
      BY <3>1, TreeGoto
  <2>7. CASE InitMain
    <3>1. current = initproc /\ state[initproc] = "PROC_RUNNABLE"
      BY <2>7, AtFacts DEF InitMain
    <3> QED
      BY <1>5, <2>7, <3>1 DEF InitMain
  <2>8. CASE InitMainFails \/ InitEnd
    BY <1>2, <2>8 DEF InitMainFails, InitEnd, no_page, no_kstack, do_exit
  <2>9. CASE InitWait
    <3>1. current = initproc /\ state[initproc] = "PROC_RUNNABLE"
      BY <2>9, AtFacts DEF InitWait
    <3> QED
      BY <1>4, <2>9, <3>1 DEF InitWait
  <2>10. CASE InitSchedule
    <3>1. current = initproc /\ state[initproc] = "PROC_RUNNABLE"
      BY <2>10, AtFacts DEF InitSchedule
    <3>2. goto(initproc, "init_wait")
      BY <2>10 DEF InitSchedule
    <3> QED
      BY <3>1, <3>2, TreeGoto
  <2> QED
    BY <1>7, <2>1, <2>2, <2>3, <2>4, <2>5, <2>6, <2>7, <2>8, <2>9, <2>10 DEF KernelStep
<1>8. ASSUME NEW p \in Proc, KernelTimer(p) PROVE UNCHANGED Tree!vars
  BY <1>1, <1>8 DEF KernelTimer, links
<1>9. CASE Stopped \/ UNCHANGED vars
  BY <1>1, <1>9 DEF Stopped, vars, links
<1> QED
  BY <1>6, <1>7, <1>8, <1>9 DEF Next

\* The processes of the kernel are the tree that ProcTree specifies: only a living process
\* creates one, only its parent collects a dead one, once, and initproc adopts the rest.
THEOREM KernelImplementsTree == Spec => ImplementsTree
<1>1. Init => Tree!Init
  <2> SUFFICES ASSUME Init PROVE Tree!Init
    OBVIOUS
  <2>1. \A c \in User : state[c] = "PROC_UNINIT" /\ parent[c] = NULL
    BY ProcFacts DEF Init
  <2>2. [c \in User |-> TreeParent(c)] = [c \in User |-> NULL]
    BY <2>1 DEF TreeParent
  <2>3. {c \in User : state[c] = "PROC_ZOMBIE"} = {}
    BY <2>1
  <2> QED
    BY <2>2, <2>3 DEF Tree!Init
<1> QED
  BY <1>1, FamilyInvariance, TreeStep, PTL DEF Spec, ImplementsTree
=============================================================================
