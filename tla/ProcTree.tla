------------------------------ MODULE ProcTree ------------------------------
(***************************************************************************)
(* What the process subsystem promises to the programs that use it, with   *)
(* no scheduler, no queue and no pointer: a tree of processes in which a   *)
(* process may fork, exit, and collect (wait for) its own dead children;   *)
(* the children of a process that exits are adopted by initproc, which     *)
(* collects its dead children for ever.  Module Process implements this    *)
(* specification with the structures of lab5's proc.c.                     *)
(***************************************************************************)
CONSTANTS
  User,      \* names for the processes other than initproc
  initproc,  \* the root of the tree
  NULL       \* the parent of a name that is not in use

VARIABLES
  parent,    \* parent[c]: the process that may collect c, NULL if c is not in use
  zombie     \* the processes that have exited and were not collected yet

vars == <<parent, zombie>>

Alive(p) == p = initproc \/ (parent[p] # NULL /\ p \notin zombie)

TypeOK ==
  /\ parent \in [User -> User \cup {initproc, NULL}]
  /\ zombie \subseteq User

Init ==
  /\ parent = [c \in User |-> NULL]
  /\ zombie = {}

\* A living process p creates the child c.
Fork(p, c) ==
  /\ Alive(p)
  /\ parent[c] = NULL
  /\ parent' = [parent EXCEPT ![c] = p]
  /\ UNCHANGED zombie

\* p ends; its children, the dead ones included, become initproc's.
Exit(p) ==
  /\ Alive(p)
  /\ zombie' = zombie \cup {p}
  /\ parent' = [c \in User |-> IF parent[c] = p THEN initproc ELSE parent[c]]

\* p collects its dead child c, whose name becomes free.
Reap(p, c) ==
  /\ Alive(p)
  /\ c \in zombie
  /\ parent[c] = p
  /\ parent' = [parent EXCEPT ![c] = NULL]
  /\ zombie' = zombie \ {c}

Next ==
  \/ \E p \in User \cup {initproc}, c \in User : Fork(p, c) \/ Reap(p, c)
  \/ \E p \in User : Exit(p)

\* initproc never stops collecting.
Spec == Init /\ [][Next]_vars /\ \A c \in User : WF_vars(Reap(initproc, c))
=============================================================================
