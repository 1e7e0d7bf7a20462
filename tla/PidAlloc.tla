------------------------------ MODULE PidAlloc ------------------------------
(***************************************************************************)
(* get_pid of lab5's proc.c, between the forks and exits that move its     *)
(* list.  It runs with interrupts off; it is cut at each turn of its loop  *)
(* only to reason about the loop.                                          *)
(***************************************************************************)
EXTENDS Integers, SequencesExt

CONSTANTS
  MAX_PID,      \* pids are below it
  MAX_PROCESS   \* the bound of nr_process

\* get_pid's static assertion.
ASSUME PidAssumption ==
  /\ MAX_PID \in Nat /\ MAX_PROCESS \in Nat
  /\ MAX_PID > MAX_PROCESS /\ MAX_PROCESS > 1

VARIABLES
  pids,        \* the pids along proc_list (idleproc is not on it)
  last_pid,    \* the static variables of get_pid
  next_safe,
  le,          \* how many entries the scan has passed
  pc,          \* "out" of get_pid, in its "scan", or at its "return"
  returned     \* history: what get_pid returned last; MAX_PID before its first return

vars == <<pids, last_pid, next_safe, le, pc, returned>>

TypeOK ==
  /\ pids \in Seq(1..(MAX_PID - 1))
  /\ last_pid \in 1..MAX_PID
  /\ next_safe \in 1..MAX_PID
  /\ le \in 0..Len(pids)
  /\ pc \in {"out", "scan", "return"}
  /\ returned \in 1..MAX_PID
  /\ pc # "out" => last_pid < MAX_PID
  /\ pc # "scan" => le = 0

Init ==
  /\ pids = <<>>
  /\ last_pid = MAX_PID
  /\ next_safe = MAX_PID
  /\ le = 0
  /\ pc = "out"
  /\ returned = MAX_PID

\* do_fork calls get_pid: the next pid is returned at once if it is below next_safe.
Call ==
  /\ pc = "out"
  /\ Len(pids) + 1 < MAX_PROCESS
  /\ last_pid' = IF last_pid + 1 >= MAX_PID THEN 1 ELSE last_pid + 1
  /\ IF last_pid + 1 >= MAX_PID \/ last_pid + 1 >= next_safe
     THEN next_safe' = MAX_PID /\ pc' = "scan"
     ELSE next_safe' = next_safe /\ pc' = "return"
  /\ le' = 0
  /\ UNCHANGED <<pids, returned>>

\* Mutant: next_safe does not come down.
lowered_never(pid) == next_safe

\* Mutant: next_safe is not compared with the pid.
lowered_always(pid) == IF pid > last_pid THEN pid ELSE next_safe

\* The value of next_safe after a look at a pid above last_pid.
lowered(pid) == IF pid > last_pid /\ next_safe > pid THEN pid ELSE next_safe

\* Mutant: last_pid does not wrap in the loop.
taken_no_wrap(pid) ==
  /\ pid = last_pid
  /\ last_pid' = last_pid + 1
  /\ IF last_pid + 1 >= next_safe THEN next_safe' = MAX_PID /\ le' = 0
     ELSE next_safe' = next_safe /\ le' = le + 1

\* Mutant: the scan starts again with the last_pid that is taken.
taken_again(pid) ==
  /\ pid = last_pid
  /\ next_safe' = MAX_PID /\ le' = 0
  /\ UNCHANGED last_pid

\* Mutant: last_pid starts from 1 again whenever the scan does.
taken_from_one(pid) ==
  /\ pid = last_pid
  /\ IF last_pid + 1 >= next_safe THEN last_pid' = 1 /\ next_safe' = MAX_PID /\ le' = 0
     ELSE last_pid' = last_pid + 1 /\ next_safe' = next_safe /\ le' = le + 1

\* One turn of the loop: last_pid is taken, so the next one is tried, and the scan
\* starts again when next_safe does not cover it; or next_safe comes down.
taken(pid) ==
  LET next == last_pid + 1
  IN  /\ pid = last_pid
      /\ IF next >= next_safe
         THEN /\ last_pid' = IF next >= MAX_PID THEN 1 ELSE next
              /\ next_safe' = MAX_PID
              /\ le' = 0
         ELSE last_pid' = next /\ next_safe' = next_safe /\ le' = le + 1

Scan ==
  /\ pc = "scan"
  /\ le < Len(pids)
  /\ \/ taken(pids[le + 1])
     \/ /\ pids[le + 1] # last_pid
        /\ next_safe' = lowered(pids[le + 1])
        /\ le' = le + 1
        /\ UNCHANGED last_pid
  /\ UNCHANGED <<pids, pc, returned>>

\* The loop has come round to the head of the list.
ScanEnds ==
  /\ pc = "scan"
  /\ le = Len(pids)
  /\ pc' = "return"
  /\ le' = 0
  /\ UNCHANGED <<pids, last_pid, next_safe, returned>>

\* do_fork puts the process with the new pid at the head of the list.
Return ==
  /\ pc = "return"
  /\ pids' = <<last_pid>> \o pids
  /\ pc' = "out"
  /\ returned' = last_pid
  /\ UNCHANGED <<last_pid, next_safe, le>>

\* A process other than initproc (pid 1) is collected and leaves the list.
Leave ==
  /\ pc = "out"
  /\ \E i \in 1..Len(pids) : pids[i] # 1 /\ pids' = RemoveAt(pids, i)
  /\ UNCHANGED <<last_pid, next_safe, le, pc, returned>>

Next == Call \/ Scan \/ ScanEnds \/ Return \/ Leave

Spec == Init /\ [][Next]_vars

\* get_pid is executed to its end.
FairSpec == Spec /\ WF_vars(Scan \/ ScanEnds)

-----------------------------------------------------------------------------
\* No two processes have the same pid, and the one about to be returned is new:
\* what the header of get_pid promises, whatever was forked and collected before.
UniquePids ==
  /\ IsInjective(pids)
  /\ pc = "return" => last_pid \notin Range(pids)

\* Why get_pid may skip the scan: no process has a pid strictly between last_pid and
\* next_safe, between two calls; during the scan that holds of the entries passed.
SafeGap ==
  LET passed == IF pc = "scan" THEN le ELSE Len(pids)
  IN  \A i \in 1..passed :
        /\ ~(last_pid < pids[i] /\ pids[i] < next_safe)
        /\ pc = "scan" => pids[i] # last_pid

\* get_pid returns: MAX_PID > MAX_PROCESS leaves a free pid, and the scan that starts
\* over each time next_safe is passed comes to it.
GetPidReturns == pc = "scan" ~> pc = "return"

\* get_pid implements the pool of pids that do_fork of module Process draws from, and goes
\* round it: it returns the first free pid after the one it returned last, so the scan, the
\* restarts and the shortcut pass over no free pid, and the pid of a collected process comes
\* back into use after all other free ones.
Pool == INSTANCE PidPool WITH used <- Range(pids), holders <- Len(pids), last <- returned
ImplementsPool == Pool!Spec
=============================================================================
