--------------------------- MODULE PidAllocProofs ---------------------------
(***************************************************************************)
(* get_pid returns the first pid that is not in use after the last one it  *)
(* returned, for every MAX_PROCESS and MAX_PID that pass its static        *)
(* assertion: it implements a pool of pids gone through in a circle.       *)
(***************************************************************************)
EXTENDS PidAlloc, ListProofs

\* The inductive invariant.  UniquePids rests on SafeGap: the pid after last_pid may be
\* returned without a scan because no process has one between last_pid and next_safe.
IInv == TypeOK /\ UniquePids /\ SafeGap

\* The facts about the list that the steps use.
LEMMA ListFacts ==
  ASSUME TypeOK
  PROVE  /\ Len(pids) \in Nat
         /\ DOMAIN pids = 1..Len(pids)
         /\ \A i \in 1..Len(pids) : pids[i] \in 1..(MAX_PID - 1)
         /\ Range(pids) = {pids[i] : i \in 1..Len(pids)}
<1>1. pids \in Seq(1..(MAX_PID - 1))
  BY DEF TypeOK
<1>2. DOMAIN pids = 1..Len(pids)
  BY <1>1, LenProperties
<1> QED
  BY <1>1, <1>2, LenProperties, ElementOfSeq DEF Range

\* The static variables of get_pid start at MAX_PID with nobody on the list.
LEMMA InitIInv == Init => IInv
<1> SUFFICES ASSUME Init PROVE IInv
  OBVIOUS
<1>1. pids = <<>> /\ Len(pids) = 0 /\ DOMAIN pids = {}
  BY DEF Init
<1>2. TypeOK
  BY <1>1, PidAssumption DEF Init, TypeOK
<1> QED
  BY <1>1, <1>2 DEF Init, IInv, UniquePids, SafeGap, IsInjective

\* A call leaves the list alone; when it does not scan, the next pid is below next_safe
\* and so not in use.
LEMMA CallStep == ASSUME IInv, Call PROVE IInv'
<1>1. /\ MAX_PID \in Nat /\ last_pid \in 1..MAX_PID /\ next_safe \in 1..MAX_PID
      /\ MAX_PID > 1
  BY PidAssumption DEF IInv, TypeOK
<1>2. TypeOK'
  BY <1>1, ListFacts DEF IInv, TypeOK, Call
<1>3. CASE pc' = "scan"
  BY <1>2, <1>3 DEF IInv, UniquePids, SafeGap, Call
<1>4. CASE pc' = "return"
  <2>1. /\ last_pid + 1 < next_safe /\ last_pid' = last_pid + 1 /\ next_safe' = next_safe
        /\ pc = "out" /\ pids' = pids
    BY <1>1, <1>4 DEF Call
  <2>2. \A i \in 1..Len(pids) : ~(last_pid < pids[i] /\ pids[i] < next_safe)
    BY <2>1 DEF IInv, SafeGap
  <2>3. \A i \in 1..Len(pids) : pids[i] # last_pid' /\ ~(last_pid' < pids[i] /\ pids[i] < next_safe')
    BY <1>1, <2>1, <2>2, ListFacts DEF IInv
  <2>4. UniquePids'
    BY <2>1, <2>3, ListFacts DEF IInv, UniquePids
  <2>5. SafeGap'
    BY <1>4, <2>1, <2>3 DEF SafeGap
  <2> QED
    BY <1>2, <2>4, <2>5 DEF IInv
<1> QED
  BY <1>3, <1>4 DEF Call

\* A turn of the scan keeps what holds of the entries passed.
LEMMA ScanStep == ASSUME IInv, Scan PROVE IInv'
<1> DEFINE pid == pids[le + 1]
<1>1. /\ MAX_PID \in Nat /\ last_pid \in 1..(MAX_PID - 1) /\ next_safe \in 1..MAX_PID
      /\ le \in Nat /\ le + 1 \in 1..Len(pids) /\ Len(pids) \in Nat
      /\ pid \in 1..(MAX_PID - 1)
      /\ pc = "scan" /\ pc' = "scan" /\ pids' = pids /\ returned' = returned
  BY PidAssumption, ListFacts DEF IInv, TypeOK, Scan
<1>2. \A i \in 1..Len(pids) : pids[i] \in Int
  BY <1>1, ListFacts DEF IInv
<1>3. \A i \in 1..le : ~(last_pid < pids[i] /\ pids[i] < next_safe) /\ pids[i] # last_pid
  BY <1>1 DEF IInv, SafeGap
<1> HIDE DEF pid
<1>4. CASE taken(pid) /\ last_pid + 1 >= next_safe
  <2>1. /\ last_pid' = IF last_pid + 1 >= MAX_PID THEN 1 ELSE last_pid + 1
        /\ next_safe' = MAX_PID /\ le' = 0
    BY <1>4 DEF taken
  <2>2. TypeOK'
    BY <1>1, <2>1, PidAssumption DEF IInv, TypeOK
  <2> QED
    BY <1>1, <2>1, <2>2 DEF IInv, UniquePids, SafeGap
<1>5. CASE taken(pid) /\ ~(last_pid + 1 >= next_safe)
  <2>1. /\ pid = last_pid
        /\ last_pid' = last_pid + 1 /\ next_safe' = next_safe /\ le' = le + 1
        /\ last_pid + 1 < next_safe
    BY <1>1, <1>5 DEF taken
  <2>2. TypeOK'
    BY <1>1, <2>1 DEF IInv, TypeOK
  <2>3. ASSUME NEW i \in 1..(le + 1)
        PROVE  ~(last_pid' < pids[i] /\ pids[i] < next_safe') /\ pids[i] # last_pid'
    <3>1. CASE i = le + 1
      BY <1>1, <2>1, <3>1 DEF pid
    <3>2. CASE i # le + 1
      BY <1>1, <1>2, <1>3, <2>1, <3>2
    <3> QED
      BY <3>1, <3>2
  <2> QED
    BY <1>1, <2>1, <2>2, <2>3 DEF IInv, UniquePids, SafeGap
<1>6. CASE pid # last_pid /\ next_safe' = lowered(pid) /\ le' = le + 1 /\ last_pid' = last_pid
  <2>1. next_safe' \in 1..MAX_PID /\ next_safe' <= next_safe
        /\ ~(last_pid < pid /\ pid < next_safe')
    BY <1>1, <1>6 DEF lowered
  <2>2. TypeOK'
    BY <1>1, <1>6, <2>1 DEF IInv, TypeOK
  <2>3. ASSUME NEW i \in 1..(le + 1)
        PROVE  ~(last_pid' < pids[i] /\ pids[i] < next_safe') /\ pids[i] # last_pid'
    <3>1. CASE i = le + 1
      BY <1>1, <1>6, <2>1, <3>1 DEF pid
    <3>2. CASE i # le + 1
      <4>1. i \in 1..le /\ pids[i] \in Int
        BY <1>1, <1>2, <3>2
      <4>2. ~(last_pid < pids[i] /\ pids[i] < next_safe) /\ pids[i] # last_pid
        BY <1>3, <4>1
      <4>3. pids[i] < next_safe' => pids[i] < next_safe
        BY <1>1, <2>1, <4>1
      <4> QED
        BY <1>6, <4>2, <4>3
    <3> QED
      BY <3>1, <3>2
  <2> QED
    BY <1>1, <1>6, <2>2, <2>3 DEF IInv, UniquePids, SafeGap
<1> QED
  BY <1>4, <1>5, <1>6 DEF Scan, pid

\* At the end of the scan every entry is passed: no process has last_pid.
LEMMA ScanEndsStep == ASSUME IInv, ScanEnds PROVE IInv'
<1>1. TypeOK'
  BY DEF IInv, TypeOK, ScanEnds
<1>2. \A i \in 1..Len(pids) : ~(last_pid < pids[i] /\ pids[i] < next_safe) /\ pids[i] # last_pid
  BY DEF IInv, SafeGap, ScanEnds
<1>3. last_pid \notin Range(pids)
  BY <1>2, ListFacts DEF IInv
<1> QED
  BY <1>1, <1>2, <1>3 DEF IInv, UniquePids, SafeGap, ScanEnds

\* The new process gets a pid nobody has; last_pid is that pid.
LEMMA ReturnStep == ASSUME IInv, Return PROVE IInv'
<1>1. /\ pids \in Seq(1..(MAX_PID - 1)) /\ IsInjective(pids)
      /\ last_pid \in 1..(MAX_PID - 1) /\ last_pid \notin Range(pids)
      /\ pids' = <<last_pid>> \o pids
      /\ last_pid' = last_pid /\ next_safe' = next_safe /\ le' = 0 /\ pc' = "out"
      /\ returned' = last_pid
  BY PidAssumption DEF IInv, TypeOK, UniquePids, Return
<1>2. /\ pids' \in Seq(1..(MAX_PID - 1))
      /\ Range(pids') = Range(pids) \cup {last_pid}
      /\ IsInjective(pids')
  <2> DEFINE S == 1..(MAX_PID - 1)
  <2>1. pids \in Seq(S) /\ last_pid \in S
    BY <1>1
  <2> HIDE DEF S
  <2>2. LET l == <<last_pid>> \o pids
        IN  l \in Seq(S) /\ Range(l) = Range(pids) \cup {last_pid} /\ IsInjective(l)
    BY <1>1, <2>1, ListAddHead
  <2> QED
    BY <1>1, <2>2 DEF S
<1>3. Len(pids') \in Nat
  BY <1>2, LenProperties
<1>4. TypeOK'
  BY <1>1, <1>2, <1>3 DEF IInv, TypeOK
<1>5. \A pid \in Range(pids) : ~(last_pid < pid /\ pid < next_safe)
  BY ListFacts DEF IInv, SafeGap, Return
<1>6. \A i \in 1..Len(pids') : ~(last_pid < pids'[i] /\ pids'[i] < next_safe)
  <2>1. ASSUME NEW i \in 1..Len(pids') PROVE pids'[i] \in Range(pids')
    BY <1>2, LenProperties DEF Range
  <2> QED
    BY <1>1, <1>2, <1>5, <2>1
<1> QED
  BY <1>1, <1>2, <1>4, <1>6 DEF IInv, UniquePids, SafeGap

\* One pid less is in use.
LEMMA LeaveStep == ASSUME IInv, Leave PROVE IInv'
<1>1. PICK k \in 1..Len(pids) : pids' = RemoveAt(pids, k)
  BY DEF Leave
<1>2. pids \in Seq(1..(MAX_PID - 1)) /\ IsInjective(pids)
  BY DEF IInv, TypeOK, UniquePids
<1>3. /\ pids' \in Seq(1..(MAX_PID - 1))
      /\ Range(pids') = Range(pids) \ {pids[k]}
      /\ IsInjective(pids')
  BY <1>1, <1>2, ListDelete
<1>4. /\ last_pid' = last_pid /\ next_safe' = next_safe /\ le' = le /\ pc = "out" /\ pc' = "out"
      /\ returned' = returned
  BY DEF Leave
<1>5. \A pid \in Range(pids) : ~(last_pid < pid /\ pid < next_safe)
  BY <1>4, ListFacts DEF IInv, SafeGap
<1>6. \A i \in 1..Len(pids') : ~(last_pid < pids'[i] /\ pids'[i] < next_safe)
  <2>1. ASSUME NEW i \in 1..Len(pids') PROVE pids'[i] \in Range(pids')
    BY <1>3, LenProperties DEF Range
  <2> QED
    BY <1>3, <1>5, <2>1
<1>7. TypeOK'
  <2>1. le = 0 /\ Len(pids') \in Nat
    BY <1>3, <1>4, LenProperties DEF IInv, TypeOK
  <2> QED
    BY <1>3, <1>4, <2>1 DEF IInv, TypeOK
<1> QED
  BY <1>3, <1>4, <1>6, <1>7 DEF IInv, UniquePids, SafeGap

-----------------------------------------------------------------------------
\* Every step of get_pid, do_fork and do_wait keeps the invariant.
LEMMA NextIInv == IInv /\ [Next]_vars => IInv'
<1> SUFFICES ASSUME IInv, [Next]_vars PROVE IInv'
  OBVIOUS
<1>1. CASE UNCHANGED vars
  BY <1>1 DEF IInv, TypeOK, UniquePids, SafeGap, vars
<1> QED
  BY <1>1, CallStep, ScanStep, ScanEndsStep, ReturnStep, LeaveStep DEF Next

\* The variables of get_pid stay within the pids, also where the scan wraps around: last_pid
\* never reaches MAX_PID where it is returned, next_safe never exceeds it.
THEOREM TypeCorrect == Spec => []TypeOK
<1>1. IInv => TypeOK
  BY DEF IInv
<1> QED
  BY <1>1, InitIInv, NextIInv, PTL DEF Spec

\* No two processes ever have the same pid, and get_pid returns a new one.
THEOREM PidsUnique == Spec => []UniquePids
<1>1. IInv => UniquePids
  BY DEF IInv
<1> QED
  BY <1>1, InitIInv, NextIInv, PTL DEF Spec

\* get_pid's shortcut is sound: its window is empty whenever it is called.
THEOREM GapSafe == Spec => []SafeGap
<1>1. IInv => SafeGap
  BY DEF IInv
<1> QED
  BY <1>1, InitIInv, NextIInv, PTL DEF Spec

(* The way round the pool. *)

\* last_pid is where the circle has come to; on the way there every pid is in use.
Rotation ==
  /\ pc = "out" => returned = last_pid
  /\ pc # "out" => Pool!OnTheWay(last_pid) \subseteq Range(pids)

\* One pid further, after a pid in use: nothing free is passed.
LEMMA OneFurther ==
  ASSUME MAX_PID \in Nat, returned \in 1..MAX_PID, NEW last \in 1..MAX_PID, last = MAX_PID => returned = last,
         NEW used, Pool!OnTheWay(last) \subseteq used, last \in used \/ last = returned
  PROVE  Pool!OnTheWay(IF last + 1 >= MAX_PID THEN 1 ELSE last + 1) \subseteq used
<1> DEFINE next == IF last + 1 >= MAX_PID THEN 1 ELSE last + 1
<1> SUFFICES ASSUME NEW p \in 1..(MAX_PID - 1), p \in Pool!OnTheWay(next)
             PROVE  p \in used
  BY DEF Pool!OnTheWay, Pool!Pid
<1>1. IF returned < next THEN returned < p /\ p < next ELSE returned < p \/ p < next
  BY DEF Pool!OnTheWay
<1>2. p # last =>
        IF returned < last THEN returned < p /\ p < last ELSE returned < p \/ p < last
  BY <1>1
<1>3. p # last => p \in Pool!OnTheWay(last)
  BY <1>2 DEF Pool!OnTheWay, Pool!Pid
<1>4. p = last => last # returned
  BY <1>1
<1> QED
  BY <1>3, <1>4

\* No step of get_pid goes past a free pid.
LEMMA NextRotation == IInv /\ Rotation /\ [Next]_vars => Rotation'
<1> SUFFICES ASSUME IInv, Rotation, [Next]_vars PROVE Rotation'
  OBVIOUS
<1>1. /\ MAX_PID \in Nat /\ MAX_PID > 1 /\ returned \in 1..MAX_PID
      /\ last_pid \in 1..MAX_PID /\ next_safe \in 1..MAX_PID
      /\ pc # "out" => last_pid < MAX_PID
  BY PidAssumption DEF IInv, TypeOK
<1>2. CASE Call
  <2>1. /\ returned = last_pid /\ returned' = returned /\ pids' = pids /\ pc' # "out"
        /\ last_pid' = IF last_pid + 1 >= MAX_PID THEN 1 ELSE last_pid + 1
    BY <1>2 DEF Call, Rotation
  <2>2. ASSUME NEW p \in Pool!OnTheWay(last_pid') PROVE p \in Range(pids)
    <3>1. /\ p \in 1..(MAX_PID - 1)
          /\ IF returned < last_pid' THEN returned < p /\ p < last_pid' ELSE returned < p \/ p < last_pid'
      BY <2>2 DEF Pool!OnTheWay, Pool!Pid
    <3> QED
      BY <1>1, <2>1, <3>1
  <2> QED
    BY <2>1, <2>2 DEF Rotation, Pool!OnTheWay
<1>3. CASE Scan
  <2>1. pc = "scan" /\ pc' = pc /\ pids' = pids /\ returned' = returned
    BY <1>3 DEF Scan
  <2>2. Pool!OnTheWay(last_pid) \subseteq Range(pids) /\ last_pid < MAX_PID
    BY <1>1, <2>1 DEF Rotation
  <2>3. CASE last_pid' = last_pid
    BY <2>1, <2>2, <2>3 DEF Rotation, Pool!OnTheWay
  <2>4. CASE taken(pids[le + 1]) /\ le < Len(pids)
    <3>1. last_pid \in Range(pids)
      <4>1. le + 1 \in 1..Len(pids)
        BY <2>4, ListFacts DEF IInv, TypeOK
      <4> QED
        BY <2>4, <4>1, ListFacts DEF IInv, taken
    <3>2. last_pid' = IF last_pid + 1 >= MAX_PID THEN 1 ELSE last_pid + 1
      BY <1>1, <2>2, <2>4 DEF taken
    <3>3. Pool!OnTheWay(last_pid') \subseteq Range(pids)
      BY <1>1, <2>2, <3>1, <3>2, OneFurther
    <3> QED
      BY <2>1, <3>3 DEF Rotation, Pool!OnTheWay
  <2> QED
    BY <1>3, <2>3, <2>4 DEF Scan
<1>4. CASE ScanEnds
  BY <1>4 DEF ScanEnds, Rotation, Pool!OnTheWay
<1>5. CASE Return
  BY <1>5 DEF Return, Rotation
<1>6. CASE Leave
  BY <1>6 DEF Leave, Rotation
<1>7. CASE UNCHANGED vars
  BY <1>7 DEF vars, Rotation, Pool!OnTheWay
<1> QED
  BY <1>2, <1>3, <1>4, <1>5, <1>6, <1>7 DEF Next

\* Every step of get_pid and of its callers is a step of the pool of pids, or none: the pid
\* that is added is the first free one after the last that was.
THEOREM PoolImplemented == Spec => ImplementsPool
<1>1. Init => Pool!Init
  BY DEF Init, Pool!Init, Range
<1>2. Init => Rotation
  BY DEF Init, Rotation
<1>3. IInv /\ Rotation /\ [Next]_vars => [Pool!Next]_(Pool!vars)
  <2> SUFFICES ASSUME IInv, Rotation, [Next]_vars
               PROVE  Pool!Next \/ (pids' = pids /\ returned' = returned)
    BY DEF Pool!vars
  <2>1. CASE Return
    <3>1. /\ last_pid \in 1..(MAX_PID - 1) /\ last_pid \notin Range(pids)
      BY <2>1, PidAssumption DEF IInv, TypeOK, UniquePids, Return
    <3>2. Range(pids') = Range(pids) \cup {last_pid} /\ Len(pids') = Len(pids) + 1
      <4>1. /\ pids \in Seq(Int) /\ IsInjective(pids) /\ last_pid \in Int
        BY PidAssumption DEF IInv, TypeOK, UniquePids
      <4> QED
        BY <2>1, <3>1, <4>1, ListAddHead DEF Return
    <3>3. Pool!OnTheWay(last_pid) \subseteq Range(pids) /\ returned' = last_pid
      BY <2>1 DEF Rotation, Return
    <3>4. Pool!Alloc(last_pid)
      BY <3>1, <3>2, <3>3 DEF Pool!Alloc
    <3> QED
      BY <3>1, <3>4 DEF Pool!Next, Pool!Pid
  <2>2. CASE Leave
    <3>1. PICK k \in 1..Len(pids) : pids' = RemoveAt(pids, k)
      BY <2>2 DEF Leave
    <3>2. pids \in Seq(Int) /\ IsInjective(pids)
      BY PidAssumption DEF IInv, TypeOK, UniquePids
    <3>3. Range(pids') = Range(pids) \ {pids[k]} /\ Len(pids') = Len(pids) - 1
      BY <3>1, <3>2, ListDelete
    <3>4. pids[k] \in Range(pids) /\ pids[k] \in 1..(MAX_PID - 1)
      BY ListFacts DEF IInv
    <3>5. returned' = returned
      BY <2>2 DEF Leave
    <3>6. Pool!Release(pids[k])
      BY <3>3, <3>4, <3>5 DEF Pool!Release
    <3> QED
      BY <3>4, <3>6 DEF Pool!Next, Pool!Pid
  <2>3. CASE Call \/ Scan \/ ScanEnds \/ UNCHANGED vars
    <3>1. pids' = pids /\ returned' = returned
      BY <2>3 DEF Call, Scan, ScanEnds, vars
    <3> QED
      BY <3>1
  <2> QED
    BY <2>1, <2>2, <2>3 DEF Next
<1> QED
  BY <1>1, <1>2, <1>3, InitIInv, NextIInv, NextRotation, PTL DEF Spec, ImplementsPool, Pool!Spec
=============================================================================
