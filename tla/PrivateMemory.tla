--------------------------- MODULE PrivateMemory ---------------------------
(***************************************************************************)
(* What the page tables of lab5 are for: a memory for each process, which  *)
(* only its own steps change, one address at a time or all at once when it *)
(* runs a new program, and which a child gets a copy of.                   *)
(***************************************************************************)
CONSTANTS
  Thread,  \* the processes
  Addr,    \* the addresses of each
  Value,   \* what a page can hold
  Image,   \* the programs, each as the function from its addresses to what is loaded there
  Stack,   \* the addresses that are there from the start besides, with anything in them
  NULL     \* no page

VARIABLES
  memory,  \* memory[p][a]
  current  \* the process that runs

none == [a \in Addr |-> NULL]

Init == memory = [p \in Thread |-> none] /\ current \in Thread

\* The memory of a process that starts to run the program img.
Fresh(mem, img) ==
  \A a \in Addr :
    IF a \in DOMAIN img THEN mem[a] = img[a]
    ELSE IF a \in Stack THEN mem[a] \in Value ELSE mem[a] = NULL

Run ==
  /\ \E img \in Image : Fresh(memory'[current], img)
  /\ memory' = [memory EXCEPT ![current] = memory'[current]]
  /\ UNCHANGED current

\* The current process ends, and so another one runs.
End ==
  /\ memory' = [memory EXCEPT ![current] = none]
  /\ current' \in Thread \ {current}

Fork(c) ==
  /\ c # current /\ memory[c] = none
  /\ memory' = [memory EXCEPT ![c] = memory[current]]
  /\ UNCHANGED current

\* The current process gets a page, or changes one.
Store(a) ==
  /\ \E v \in Value : memory' = [memory EXCEPT ![current][a] = v]
  /\ UNCHANGED current

Switch == current' \in Thread /\ UNCHANGED memory

Next ==
  \/ Run
  \/ End
  \/ \E c \in Thread : Fork(c)
  \/ \E a \in Addr : Store(a)
  \/ Switch

Spec == Init /\ [][Next]_<<memory, current>>
=============================================================================
