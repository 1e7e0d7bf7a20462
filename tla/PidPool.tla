------------------------------- MODULE PidPool ------------------------------
(***************************************************************************)
(* A pool of pids that is gone through in a circle: the next pid to be     *)
(* given out is the first free one after the last one given out.           *)
(***************************************************************************)
EXTENDS Naturals

CONSTANT MAX_PID   \* pids are below it

VARIABLES
  used,            \* the pids processes have
  holders,         \* how many processes have one
  last             \* the pid given out last; MAX_PID before the first

vars == <<used, holders, last>>

Pid == 1..(MAX_PID - 1)

Init == used = {} /\ holders = 0 /\ last = MAX_PID

\* The pids one comes by on the way up from last to pid, going on from 1 after the highest.
OnTheWay(pid) ==
  {p \in Pid : IF last < pid THEN last < p /\ p < pid ELSE last < p \/ p < pid}

\* One more process, one more pid in use: the pid was free, those on the way to it are not.
Alloc(pid) ==
  /\ pid \notin used
  /\ OnTheWay(pid) \subseteq used
  /\ used' = used \cup {pid}
  /\ holders' = holders + 1
  /\ last' = pid

\* A process is gone, and nobody has its pid.
Release(pid) ==
  /\ pid \in used
  /\ used' = used \ {pid}
  /\ holders' = holders - 1
  /\ UNCHANGED last

Next == \E pid \in Pid : Alloc(pid) \/ Release(pid)

Spec == Init /\ [][Next]_vars
=============================================================================
