----------------------------- MODULE SlobProofs -----------------------------
(***************************************************************************)
(* Proofs about module Slob for any number of callers and pages: the list  *)
(* of free blocks is a circle, no unit is lost or given out twice, and     *)
(* kmalloc is a heap.                                                      *)
(***************************************************************************)
EXTENDS Slob, ListProofs, FiniteSetTheorems

-----------------------------------------------------------------------------
(* The list of slob_alloc and slob_free, as the set P of the blocks on it. *)

\* b comes after a when the blocks of P go round by address.
IsNext(P, a, b) ==
  /\ b \in P
  /\ IF b = arena THEN \A c \in P : c <= a ELSE a < b /\ \A c \in P : c <= a \/ b <= c

\* The links go round P by address.
Circle(next, P) ==
  /\ next \in [Addr -> Addr]
  /\ P \in SUBSET Addr /\ arena \in P
  /\ \A a \in P : IsNext(P, a, next[a])

\* The blocks of P have units of the memory, and do not even touch each other.
Blocks(units, P) ==
  /\ units \in [Addr -> Nat] /\ units[arena] = 1
  /\ \A a \in P : units[a] > 0 /\ unit_range(a, units[a]) \subseteq Addr
  /\ \A a, b \in P : a < b => a + units[a] < b

\* The units of the blocks of P.
Units(units, P) == UNION {unit_range(a, units[a]) : a \in P}

Record == [at : Nat, order : Nat, pages : Nat]
Slobs == [units : [Addr -> Nat], next : [Addr -> Addr], slobfree : Addr, bigblocks : Seq(Record)]

\* s has the blocks of P on its list.
FreeBlocks(s, P) ==
  s \in Slobs /\ s.slobfree \in P /\ Circle(s.next, P) /\ Blocks(s.units, P)

-----------------------------------------------------------------------------
(* Units and pages. *)

\* A page has three units at least, and the arena is before all of them.
LEMMA AddrFacts ==
  /\ perpage \in Nat /\ perpage >= 3 /\ perpage * SLOB_UNIT = PGSIZE
  /\ Addr \in SUBSET Nat /\ arena \in Addr
  /\ \A a \in Addr : a # arena => a >= perpage
  /\ IsFiniteSet(Addr) /\ \E b \in Nat : \A a \in Addr : a <= b
<1>1. perpage \in Nat /\ perpage * SLOB_UNIT = PGSIZE
  BY SlobAssumption DEF perpage
<1>2. perpage >= 3
  <2>1. SLOB_UNIT \in Nat /\ SLOB_UNIT > 0 /\ PGSIZE > 2 * SLOB_UNIT
    BY SlobAssumption
  <2>2. perpage <= 2 => perpage * SLOB_UNIT <= 2 * SLOB_UNIT
    BY <1>1, <2>1
  <2> QED
    BY <1>1, <2>1, <2>2
<1> HIDE DEF perpage
<1>3. ASSUME NEW p \in Page, NEW a \in on_page(p)
      PROVE  a \in Nat /\ a >= perpage /\ a <= (npage + 1) * perpage
  <2>1. p \in Nat /\ p >= 1 /\ p <= npage /\ npage \in Nat
    BY SlobAssumption DEF Page
  <2>2. p * perpage \in Nat /\ p * perpage >= perpage /\ p * perpage + perpage <= (npage + 1) * perpage
    BY <1>1, <2>1
  <2>3. a \in Int /\ p * perpage <= a /\ a <= p * perpage + perpage - 1
    BY <1>1, <2>2 DEF on_page, unit_range
  <2> QED
    BY <1>1, <2>1, <2>2, <2>3
<1>4. \A a \in Addr : a = arena \/ \E p \in Page : a \in on_page(p)
  BY DEF Addr
<1>5. Addr \in SUBSET Nat /\ arena \in Addr /\ \A a \in Addr : a # arena => a >= perpage
  BY <1>3, <1>4 DEF Addr, arena
<1>6. (npage + 1) * perpage \in Nat
  BY <1>1, SlobAssumption
<1>7. \A a \in Addr : a <= (npage + 1) * perpage
  BY <1>1, <1>3, <1>4, <1>6 DEF arena
<1>8. IsFiniteSet(Addr)
  BY <1>5, <1>6, <1>7, FS_BoundedSetOfNaturals
<1> QED
  BY <1>1, <1>2, <1>5, <1>6, <1>7, <1>8

\* A set of addresses below another one has a greatest one.
LEMMA GreatestBelow ==
  ASSUME NEW T \in SUBSET Nat, T # {}, NEW b \in Nat, \A k \in T : k <= b
  PROVE  \E m \in T : \A k \in T : k <= m
<1> DEFINE D == {b - k : k \in T}
<1>1. D \in SUBSET Nat /\ D # {}
  <2>1. \A k \in T : b - k \in Nat
    OBVIOUS
  <2> QED
    BY <2>1
<1>2. PICK d \in D : \A k \in D : d <= k
  <2> HIDE DEF D
  <2> QED
    BY <1>1, LeastNat
<1>3. PICK m \in T : d = b - m
  OBVIOUS
<1>4. \A k \in T : b - m <= b - k
  BY <1>2, <1>3
<1> QED
  BY <1>4

-----------------------------------------------------------------------------
(* Going round. *)

\* Two blocks do not have the same next one.
LEMMA NextInjective ==
  ASSUME NEW next, NEW P, Circle(next, P), NEW a \in P, NEW b \in P, next[a] = next[b]
  PROVE  a = b
<1>1. a \in Nat /\ b \in Nat /\ next[a] \in Nat
  BY AddrFacts DEF Circle
<1>2. IsNext(P, a, next[a]) /\ IsNext(P, b, next[a])
  BY DEF Circle
<1> QED
  BY <1>1, <1>2 DEF IsNext

\* Who goes round comes to every block.
LEMMA NextReachesAll ==
  ASSUME NEW next, NEW P, Circle(next, P),
         NEW Q \in SUBSET P, Q # {}, \A a \in Q : next[a] \in Q
  PROVE  Q = P
<1>1. P \in SUBSET Addr /\ arena \in P /\ \A a \in P : IsNext(P, a, next[a])
  BY DEF Circle
<1>2. Addr \in SUBSET Nat /\ IsFiniteSet(Addr)
  BY AddrFacts
<1>3. PICK b \in Nat : \A a \in Addr : a <= b
  BY AddrFacts
<1>4. arena \in Q
  <2>1. Q \in SUBSET Nat /\ \A a \in Q : a <= b
    BY <1>1, <1>2, <1>3
  <2>2. PICK m \in Q : \A a \in Q : a <= m
    BY <2>1, GreatestBelow
  <2>3. next[m] \in Q /\ IsNext(P, m, next[m]) /\ m \in Nat
    BY <1>1, <2>1
  <2>4. next[m] \in Nat /\ next[m] <= m
    BY <2>1, <2>2, <2>3
  <2>5. next[m] = arena
    BY <2>3, <2>4 DEF IsNext
  <2> QED
    BY <2>3, <2>5
<1> SUFFICES ASSUME P \ Q # {} PROVE FALSE
  OBVIOUS
<1>5. PICK p \in P \ Q : \A a \in P \ Q : p <= a
  <2>1. P \ Q \in SUBSET Nat
    BY <1>1, <1>2
  <2> QED
    BY <2>1, LeastNat
<1> DEFINE Below == {a \in P : a < p}
<1>6. p \in Nat /\ p # arena /\ arena \in Below
  <2>1. p \in Nat /\ p # arena
    BY <1>1, <1>2, <1>4
  <2> QED
    BY <1>1, <2>1 DEF arena
<1>7. PICK m \in Below : \A a \in Below : a <= m
  <2>1. Below \in SUBSET Nat /\ Below # {} /\ \A a \in Below : a <= p
    <3>1. P \in SUBSET Nat
      BY <1>1, <1>2
    <3>2. Below # {}
      BY <1>6
    <3>3. ASSUME NEW a \in Below PROVE a \in Nat /\ a <= p
      <4>1. a \in P /\ a < p
        OBVIOUS
      <4> QED
        BY <1>6, <3>1, <4>1
    <3> QED
      BY <3>2, <3>3
  <2> HIDE DEF Below
  <2> QED
    BY <1>6, <2>1, GreatestBelow
<1>8. m \in Q /\ m < p /\ m \in Nat
  <2>1. m \in P /\ m < p /\ m \in Nat
    BY <1>1, <1>2
  <2> QED
    BY <1>5, <1>6, <2>1
<1>9. IsNext(P, m, next[m]) /\ next[m] \in Q /\ next[m] \in Nat
  BY <1>1, <1>2, <1>8
<1>10. next[m] # arena
  BY <1>6, <1>8, <1>9 DEF IsNext
<1>11. m < next[m] /\ next[m] <= p
  BY <1>6, <1>8, <1>9, <1>10 DEF IsNext
<1>12. next[m] # p
  BY <1>9
<1> QED
  BY <1>1, <1>6, <1>7, <1>8, <1>9, <1>11, <1>12

\* The blocks walk has come by: each is next to the one before it, and they begin at slobfree.
Walked(s, w) ==
  /\ Len(w) > 0 /\ w[1] = s.slobfree
  /\ \A i \in 2..Len(w) : w[i] = s.next[w[i - 1]]
  /\ IsInjective(w)

\* One more turn of the walk, unless it is round.
Turn(s, w) ==
  IF s.next[Last(w)] = s.slobfree THEN w ELSE Append(w, s.next[Last(w)])

\* A turn comes by one block more that it has not come by before.
LEMMA TurnWalks ==
  ASSUME NEW s, NEW P, FreeBlocks(s, P), NEW w \in Seq(P), Walked(s, w)
  PROVE  /\ Turn(s, w) \in Seq(P) /\ Walked(s, Turn(s, w))
         /\ s.next[Last(w)] # s.slobfree => Len(Turn(s, w)) = Len(w) + 1
         /\ s.next[Last(w)] = s.slobfree => Turn(s, w) = w
<1> DEFINE n == Len(w)
           x == s.next[Last(w)]
<1>1. n \in Nat /\ n > 0 /\ DOMAIN w = 1..n /\ \A i \in 1..n : w[i] \in P
  BY LenProperties, ElementOfSeq DEF Walked
<1>2. Circle(s.next, P) /\ \A a \in P : s.next[a] \in P
  BY DEF FreeBlocks, Circle, IsNext
<1>3. Last(w) = w[n] /\ n \in 1..n /\ x \in P
  BY <1>1, <1>2 DEF Last
<1>4. CASE x = s.slobfree
  BY <1>4 DEF Turn
<1>5. CASE x # s.slobfree
  <2>1. Turn(s, w) = Append(w, x)
    BY <1>5 DEF Turn
  <2>2. /\ Append(w, x) \in Seq(P)
        /\ Len(Append(w, x)) = n + 1
        /\ \A i \in 1..n : Append(w, x)[i] = w[i]
        /\ Append(w, x)[n + 1] = x
    BY <1>3, AppendProperties
  <2> DEFINE v == Append(w, x)
  <2> HIDE DEF v
  <2>3. DOMAIN v = 1..(n + 1)
    BY <2>2, LenProperties DEF v
  <2>4. \A i \in 1..n : w[i] # x
    <3>1. ASSUME NEW i \in 1..n, w[i] = x PROVE FALSE
      <4>1. i # 1
        BY <1>5, <3>1 DEF Walked
      <4>2. i \in 2..n /\ i - 1 \in 1..n /\ i - 1 # n
        BY <1>1, <4>1
      <4>3. s.next[w[i - 1]] = s.next[w[n]]
        BY <1>3, <3>1, <4>2 DEF Walked
      <4>4. w[i - 1] = w[n]
        BY <1>1, <1>2, <1>3, <4>2, <4>3, NextInjective
      <4> QED
        BY <1>1, <1>3, <4>2, <4>4 DEF Walked, IsInjective
    <3> QED
      BY <3>1
  <2>5. v \in Seq(P) /\ Len(v) = n + 1 /\ \A i \in 1..(n + 1) : v[i] = IF i = n + 1 THEN x ELSE w[i]
    BY <1>1, <2>2 DEF v
  <2>6. IsInjective(v)
    <3>1. \A i, j \in 1..n : w[i] = w[j] => i = j
      BY <1>1 DEF Walked, IsInjective
    <3>2. \A i \in 1..(n + 1) : i # n + 1 => i \in 1..n
      BY <1>1
    <3> HIDE DEF n, x
    <3> QED
      BY <2>3, <2>4, <2>5, <3>1, <3>2 DEF IsInjective
  <2>7. ASSUME NEW i \in 2..(n + 1) PROVE v[i] = s.next[v[i - 1]]
    <3>1. i - 1 \in 1..n /\ i - 1 \in 1..(n + 1) /\ i - 1 # n + 1 /\ i \in 1..(n + 1)
      BY <1>1
    <3>2. v[i - 1] = w[i - 1]
      BY <2>5, <3>1
    <3>3. CASE i = n + 1
      <4>1. i - 1 = n
        BY <1>1, <3>3
      <4>2. v[i] = x
        BY <2>5, <3>1, <3>3
      <4> QED
        BY <1>3, <3>2, <4>1, <4>2
    <3>4. CASE i # n + 1
      <4>1. i \in 2..n /\ v[i] = w[i]
        BY <1>1, <2>5, <3>1, <3>4
      <4> QED
        BY <3>2, <4>1 DEF Walked
    <3> QED
      BY <3>3, <3>4
  <2>8. v[1] = s.slobfree
    BY <1>1, <2>5 DEF Walked
  <2>9. Walked(s, v)
    <3>1. Len(v) > 0 /\ \A i \in 2..Len(v) : v[i] = s.next[v[i - 1]]
      BY <1>1, <2>5, <2>7
    <3> QED
      BY <2>6, <2>8, <3>1 DEF Walked
  <2> QED
    BY <1>5, <2>1, <2>5, <2>9 DEF v
<1> QED
  BY <1>4, <1>5

\* circle(s) goes once round: every block of the list, one after the other, and back.
LEMMA CircleWalks ==
  ASSUME NEW s, NEW P, FreeBlocks(s, P)
  PROVE  /\ circle(s) \in Seq(P) /\ Walked(s, circle(s))
         /\ ToSet(circle(s)) = P
         /\ s.next[Last(circle(s))] = s.slobfree
<1> DEFINE N == Cardinality(Addr)
           Round(w) == s.next[Last(w)] = s.slobfree
           Good(n) == {w \in Seq(P) : Walked(s, w) /\ (Len(w) = n \/ Round(w))}
<1>1. N \in Nat /\ N > 0 /\ IsFiniteSet(Addr) /\ P \in SUBSET Addr /\ s.slobfree \in P
  BY AddrFacts, FS_CardinalityType, FS_EmptySet DEF FreeBlocks, Circle
<1>2. <<s.slobfree>> \in Good(1)
  <2>1. <<s.slobfree>> \in Seq(P) /\ Len(<<s.slobfree>>) = 1 /\ <<s.slobfree>>[1] = s.slobfree
    BY <1>1
  <2>2. DOMAIN <<s.slobfree>> = 1..1
    BY <2>1, LenProperties
  <2>3. Walked(s, <<s.slobfree>>)
    BY <2>1, <2>2 DEF Walked, IsInjective
  <2> QED
    BY <2>1, <2>3
<1>3. ASSUME NEW n \in Nat, NEW w \in Good(n) PROVE Turn(s, w) \in Good(n + 1)
  <2>1. w \in Seq(P) /\ Walked(s, w) /\ (Len(w) = n \/ Round(w))
    OBVIOUS
  <2> QED
    BY <2>1, TurnWalks
<1> DEFINE h == CHOOSE h : h = [i \in 1..N |-> IF i = 1 THEN <<s.slobfree>>
                                 ELSE LET w == h[i - 1]
                                      IN  IF s.next[Last(w)] = s.slobfree THEN w
                                          ELSE Append(w, s.next[Last(w)])]
<1>4. circle(s) = h[N]
  BY DEF circle
<1>5. \E g : g = [i \in 1..N |-> IF i = 1 THEN <<s.slobfree>> ELSE Turn(s, g[i - 1])]
  <2> DEFINE X == {w \in Seq(P) : Walked(s, w)}
             F == [i \in 2..N |-> [w \in X |-> Turn(s, w)]]
  <2>1. Keeps(F, X, 1, N)
    BY TurnWalks DEF Keeps
  <2>2. <<s.slobfree>> \in X
    BY <1>2
  <2>3. PICK g : Computes(g, F, X, <<s.slobfree>>, 1, N)
    <3> HIDE DEF F, X, N
    <3> QED
      BY <1>1, <2>1, <2>2, LoopExists
  <2>4. ASSUME NEW i \in 1..N PROVE g[i] = IF i = 1 THEN <<s.slobfree>> ELSE Turn(s, g[i - 1])
    <3>1. CASE i = 1
      BY <2>3, <3>1 DEF Computes
    <3>2. CASE i # 1
      <4>1. i \in 2..N /\ i \in (1 + 1)..N /\ i - 1 \in 1..N
        BY <1>1, <3>2
      <4>2. g[i] = F[i][g[i - 1]] /\ g[i - 1] \in X
        BY <2>3, <4>1 DEF Computes
      <4> QED
        BY <3>2, <4>1, <4>2
    <3> QED
      BY <3>1, <3>2
  <2> HIDE DEF F, X, N
  <2>5. g = [i \in 1..N |-> g[i]]
    BY <2>3 DEF Computes
  <2>6. g = [i \in 1..N |-> IF i = 1 THEN <<s.slobfree>> ELSE Turn(s, g[i - 1])]
    BY <2>4, <2>5
  <2> QED
    BY <2>6
<1>6. h = [i \in 1..N |-> IF i = 1 THEN <<s.slobfree>> ELSE Turn(s, h[i - 1])]
  <2>1. \E g : g = [i \in 1..N |-> IF i = 1 THEN <<s.slobfree>>
                                  ELSE LET w == g[i - 1]
                                       IN  IF s.next[Last(w)] = s.slobfree THEN w
                                           ELSE Append(w, s.next[Last(w)])]
    BY <1>5 DEF Turn
  <2> QED
    BY <2>1 DEF Turn
<1> HIDE DEF h
<1>7. h[N] \in Good(N)
  <2> DEFINE R == {i \in 1..N : h[i] \in Good(i)}
  <2>1. 1 \in R
    BY <1>1, <1>2, <1>6
  <2>2. ASSUME NEW i \in 1..(N - 1), i \in R PROVE i + 1 \in R
    <3>1. i + 1 \in 1..N /\ i + 1 # 1 /\ (i + 1) - 1 = i /\ i \in Nat
      BY <1>1
    <3>2. h[i + 1] = Turn(s, h[i])
      BY <1>6, <3>1
    <3>3. h[i] \in Good(i)
      BY <2>2
    <3>4. Turn(s, h[i]) \in Good(i + 1)
      BY <1>3, <3>1, <3>3
    <3> QED
      BY <3>1, <3>2, <3>4
  <2> HIDE DEF R, N
  <2>3. \A i \in 1..N : i \in R
    BY <1>1, <2>1, <2>2, Induction
  <2> QED
    BY <1>1, <2>3 DEF R
<1> DEFINE c == h[N]
<1> HIDE DEF c
<1>8. c \in Seq(P) /\ Walked(s, c) /\ (Len(c) = N \/ Round(c))
  BY <1>7 DEF c
<1>9. Len(c) \in Nat /\ Len(c) > 0 /\ DOMAIN c = 1..Len(c) /\ \A i \in 1..Len(c) : c[i] \in P
  BY <1>8, LenProperties, ElementOfSeq DEF Walked
<1>10. Round(c)
  <2> SUFFICES ASSUME ~Round(c) PROVE FALSE
    OBVIOUS
  <2>1. Turn(s, c) \in Seq(P) /\ Walked(s, Turn(s, c)) /\ Len(Turn(s, c)) = N + 1
    BY <1>8, TurnWalks
  <2> DEFINE v == Turn(s, c)
  <2> HIDE DEF v, N
  <2>2. DOMAIN v = 1..(N + 1) /\ \A i \in 1..(N + 1) : v[i] \in Addr
    BY <1>1, <2>1, LenProperties, ElementOfSeq DEF v
  <2>3. v \in [1..(N + 1) -> Addr] /\ \A i, j \in 1..(N + 1) : v[i] = v[j] => i = j
    BY <2>1, <2>2 DEF v, Walked, IsInjective
  <2>4. IsFiniteSet(1..(N + 1)) /\ Cardinality(1..(N + 1)) = N + 1
    BY <1>1, FS_Interval
  <2>5. Cardinality(Addr) < Cardinality(1..(N + 1))
    BY <1>1, <2>4 DEF N
  <2> QED
    BY <1>1, <2>3, <2>4, <2>5, FS_PigeonHole
<1>11. ToSet(c) = P
  <2> DEFINE Q == {c[i] : i \in 1..Len(c)}
  <2>1. Q \in SUBSET P /\ Q # {} /\ ToSet(c) = Q
    BY <1>9 DEF ToSet
  <2>2. ASSUME NEW i \in 1..Len(c) PROVE s.next[c[i]] \in Q
    <3>1. CASE i = Len(c)
      <4>1. s.next[c[i]] = c[1] /\ 1 \in 1..Len(c)
        BY <1>8, <1>9, <1>10, <3>1 DEF Last, Walked
      <4> QED
        BY <4>1
    <3>2. CASE i # Len(c)
      <4>1. i + 1 \in 2..Len(c) /\ i + 1 \in 1..Len(c) /\ (i + 1) - 1 = i
        <5>1. Len(c) \in Nat /\ i \in 1..Len(c) /\ i # Len(c)
          BY <1>9, <3>2
        <5> HIDE DEF Q
        <5> QED
          BY <5>1
      <4>2. c[i + 1] = s.next[c[i]]
        BY <1>8, <4>1 DEF Walked
      <4> QED
        BY <4>1, <4>2
    <3> QED
      BY <3>1, <3>2
  <2>3. \A a \in Q : s.next[a] \in Q
    BY <2>2
  <2> HIDE DEF Q
  <2>4. Circle(s.next, P)
    BY DEF FreeBlocks
  <2> QED
    BY <2>1, <2>3, <2>4, NextReachesAll
<1> QED
  BY <1>4, <1>8, <1>10, <1>11 DEF c

-----------------------------------------------------------------------------
(* slob_alloc: a block is cut. *)

\* What FreeBlocks says, in the form the provers need.
LEMMA BlockFacts ==
  ASSUME NEW s, NEW P, FreeBlocks(s, P)
  PROVE  /\ s \in Slobs /\ s.slobfree \in P
         /\ s.units \in [Addr -> Nat] /\ s.next \in [Addr -> Addr]
         /\ P \in SUBSET Addr /\ P \in SUBSET Nat /\ arena \in P /\ s.units[arena] = 1
         /\ \A a \in P : /\ IsNext(P, a, s.next[a]) /\ s.next[a] \in P
                         /\ s.units[a] \in Nat /\ s.units[a] > 0
                         /\ unit_range(a, s.units[a]) \subseteq Addr
         /\ \A a, b \in P : a < b => a + s.units[a] < b
         /\ Units(s.units, P) \in SUBSET Addr
<1>1. P \in SUBSET Addr /\ Addr \in SUBSET Nat
  BY AddrFacts DEF FreeBlocks, Circle
<1>2. \A a \in P : IsNext(P, a, s.next[a]) /\ s.next[a] \in P
  BY DEF FreeBlocks, Circle, IsNext
<1>3. /\ s.units \in [Addr -> Nat] /\ s.units[arena] = 1
      /\ \A a \in P : s.units[a] > 0 /\ unit_range(a, s.units[a]) \subseteq Addr
      /\ \A a, b \in P : a < b => a + s.units[a] < b
  BY DEF FreeBlocks, Blocks
<1>4. \A a \in P : s.units[a] \in Nat
  BY <1>1, <1>3
<1>5. Units(s.units, P) \in SUBSET Addr
  BY <1>3 DEF Units
<1> QED
  BY <1>1, <1>2, <1>3, <1>4, <1>5 DEF FreeBlocks, Circle

\* The arena is on the list.
LEMMA ArenaListed ==
  ASSUME NEW s, NEW P, FreeBlocks(s, P)
  PROVE  arena \in Units(s.units, P)
<1>1. arena \in P /\ s.units[arena] = 1
  BY BlockFacts
<1>2. arena \in unit_range(arena, s.units[arena])
  BY <1>1 DEF unit_range, arena
<1> QED
  BY <1>1, <1>2 DEF Units

\* first finds one of the blocks that have the property, if there are any.
LEMMA FirstOf ==
  ASSUME NEW s, NEW P, FreeBlocks(s, P), NEW T \in SUBSET P, T # {}
  PROVE  /\ \E i \in DOMAIN circle(s) : circle(s)[i] \in T /\ \A j \in 1..(i - 1) : circle(s)[j] \notin T
         /\ \A i \in DOMAIN circle(s) : circle(s)[i] \in P
         /\ \A i \in DOMAIN circle(s) : \A j \in 1..(i - 1) : circle(s)[j] \in P
<1> DEFINE c == circle(s)
           I == {i \in DOMAIN c : c[i] \in T}
<1>1. c \in Seq(P) /\ ToSet(c) = P
  BY CircleWalks
<1> HIDE DEF c
<1>2. DOMAIN c = 1..Len(c) /\ Len(c) \in Nat /\ \A i \in 1..Len(c) : c[i] \in P
  BY <1>1, LenProperties, ElementOfSeq
<1>3. I \in SUBSET Nat /\ I # {}
  BY <1>1, <1>2 DEF ToSet
<1>4. PICK i \in I : \A j \in I : i <= j
  <2> HIDE DEF I
  <2> QED
    BY <1>3, LeastNat
<1>5. \A k \in DOMAIN c : \A j \in 1..(k - 1) : j \in DOMAIN c /\ j < k
  BY <1>2
<1>6. \A j \in 1..(i - 1) : c[j] \notin T
  BY <1>2, <1>4, <1>5
<1> QED
  BY <1>2, <1>4, <1>5, <1>6 DEF c

\* t is what take(s, n) is: n units of the list s had with the blocks of P.
Taken(s, P, n, t) ==
  /\ t.block \in Addr \ {arena} /\ unit_range(t.block, n) \subseteq Units(s.units, P)
  /\ t.heap.units[t.block] = n
  /\ t.heap.bigblocks = s.bigblocks
  /\ \A a \in Addr : a \notin Units(s.units, P) => t.heap.units[a] = s.units[a]
  /\ \E Q : /\ FreeBlocks(t.heap, Q)
            /\ Units(t.heap.units, Q) = Units(s.units, P) \ unit_range(t.block, n)

\* All units of a block go.
LEMMA TakeAll ==
  ASSUME NEW s, NEW P, FreeBlocks(s, P), NEW prev \in P, s.next[prev] # arena
  PROVE  LET cur == s.next[prev]
         IN  Taken(s, P, s.units[cur],
                   [block |-> cur,
                    heap |-> [s EXCEPT !.next = [@ EXCEPT ![prev] = s.next[cur], ![cur] = arena],
                                       !.slobfree = prev]])
<1> DEFINE cur == s.next[prev]
           nn == s.next[cur]
           next == [s.next EXCEPT ![prev] = nn, ![cur] = arena]
           h == [s EXCEPT !.next = [@ EXCEPT ![prev] = s.next[cur], ![cur] = arena], !.slobfree = prev]
           n == s.units[cur]
           Q == P \ {cur}
<1>1. /\ P \in SUBSET Addr /\ P \in SUBSET Nat /\ arena \in P
      /\ \A a \in P : IsNext(P, a, s.next[a]) /\ s.next[a] \in P /\ s.units[a] \in Nat /\ s.units[a] > 0
      /\ \A a, b \in P : a < b => a + s.units[a] < b
  BY BlockFacts
<1>2. cur \in P /\ nn \in P /\ cur # arena /\ IsNext(P, prev, cur) /\ IsNext(P, cur, nn)
  BY <1>1
<1> HIDE DEF cur, nn
<1>3. prev < cur /\ prev \in Q /\ nn # cur /\ nn \in Q
  BY <1>1, <1>2 DEF IsNext
<1>4. IsNext(Q, prev, nn)
  BY <1>1, <1>2, <1>3 DEF IsNext
<1>5. ASSUME NEW a \in Q, a # prev PROVE IsNext(Q, a, s.next[a])
  <2>1. a \in P /\ IsNext(P, a, s.next[a]) /\ Circle(s.next, P)
    BY <1>1 DEF FreeBlocks
  <2>2. s.next[a] # cur
    BY <1>5, <2>1, NextInjective DEF cur
  <2> QED
    BY <1>1, <2>1, <2>2 DEF IsNext
<1>6. /\ h.units = s.units /\ h.next = next /\ h.slobfree = prev /\ h.bigblocks = s.bigblocks
      /\ h \in Slobs
  <2>1. s \in Slobs
    BY BlockFacts
  <2>2. prev \in Addr /\ cur \in Addr /\ nn \in Addr /\ arena \in Addr
    BY <1>1, <1>2
  <2> QED
    BY <2>1, <2>2 DEF Slobs, cur, nn
<1>7. Circle(next, Q)
  <2>1. s.next \in [Addr -> Addr] /\ prev \in Addr /\ cur \in Addr /\ nn \in Addr /\ arena \in Addr
    BY <1>1, <1>2, BlockFacts
  <2>2. next \in [Addr -> Addr] /\ next[prev] = nn /\ \A a \in Addr : a # prev /\ a # cur => next[a] = s.next[a]
    BY <1>3, <2>1
  <2> HIDE DEF next
  <2>3. \A a \in Q : IsNext(Q, a, next[a])
    BY <1>1, <1>4, <1>5, <2>2
  <2>4. Q \in SUBSET Addr /\ arena \in Q
    BY <1>1, <1>2
  <2> HIDE DEF Q
  <2> QED
    BY <2>2, <2>3, <2>4 DEF Circle
<1>8. Blocks(s.units, Q)
  <2>1. Blocks(s.units, P)
    BY DEF FreeBlocks
  <2> QED
    BY <2>1 DEF Blocks
<1>9. Units(s.units, Q) = Units(s.units, P) \ unit_range(cur, n)
  <2>1. ASSUME NEW a \in Q, NEW x \in unit_range(a, s.units[a]) PROVE x \notin unit_range(cur, n)
    <3>1. a \in Nat /\ cur \in Nat /\ s.units[a] \in Nat /\ n \in Nat /\ a # cur
      BY <1>1, <1>2
    <3>2. a + s.units[a] < cur \/ cur + n < a
      BY <1>1, <1>2, <3>1
    <3> QED
      BY <2>1, <3>1, <3>2 DEF unit_range
  <2>2. \A x \in Units(s.units, Q) : x \in Units(s.units, P) /\ x \notin unit_range(cur, n)
    BY <2>1 DEF Units
  <2>3. \A x \in Units(s.units, P) : x \notin unit_range(cur, n) => x \in Units(s.units, Q)
    BY DEF Units
  <2> QED
    BY <2>2, <2>3
<1>10. unit_range(cur, n) \subseteq Units(s.units, P)
  BY <1>2 DEF Units
<1> HIDE DEF h, n, next, Q
<1>11. FreeBlocks(h, Q) /\ Units(h.units, Q) = Units(s.units, P) \ unit_range(cur, n)
  BY <1>3, <1>6, <1>7, <1>8, <1>9 DEF FreeBlocks
<1>12. Taken(s, P, n, [block |-> cur, heap |-> h])
  BY <1>1, <1>2, <1>6, <1>10, <1>11 DEF Taken, n
<1> QED
  BY <1>12 DEF cur, n, h

\* The first units of a block go, and what is left of it takes its place.
LEMMA TakeSome ==
  ASSUME NEW s, NEW P, FreeBlocks(s, P), NEW prev \in P, s.next[prev] # arena,
         NEW n \in Nat, n > 0, n < s.units[s.next[prev]]
  PROVE  LET cur == s.next[prev]
             rest == cur + n
         IN  Taken(s, P, n,
                   [block |-> cur,
                    heap |-> [s EXCEPT !.units = [@ EXCEPT ![cur] = n, ![rest] = s.units[cur] - n],
                                       !.next = [@ EXCEPT ![prev] = rest, ![rest] = s.next[cur], ![cur] = arena],
                                       !.slobfree = prev]])
<1> DEFINE cur == s.next[prev]
           rest == cur + n
           nn == s.next[cur]
           m == s.units[cur]
           units == [s.units EXCEPT ![cur] = n, ![rest] = m - n]
           next == [s.next EXCEPT ![prev] = rest, ![rest] = nn, ![cur] = arena]
           h == [s EXCEPT !.units = [@ EXCEPT ![cur] = n, ![rest] = s.units[cur] - n],
                          !.next = [@ EXCEPT ![prev] = rest, ![rest] = s.next[cur], ![cur] = arena],
                          !.slobfree = prev]
           Q == (P \ {cur}) \cup {rest}
<1>1. /\ P \in SUBSET Addr /\ P \in SUBSET Nat /\ arena \in P
      /\ \A a \in P : /\ IsNext(P, a, s.next[a]) /\ s.next[a] \in P /\ s.units[a] \in Nat /\ s.units[a] > 0
                      /\ unit_range(a, s.units[a]) \subseteq Addr
      /\ \A a, b \in P : a < b => a + s.units[a] < b
      /\ s.units \in [Addr -> Nat] /\ s.next \in [Addr -> Addr] /\ s \in Slobs
  BY BlockFacts
<1>2. cur \in P /\ nn \in P /\ cur # arena /\ IsNext(P, prev, cur) /\ IsNext(P, cur, nn)
  BY <1>1
<1>3. m \in Nat /\ n < m /\ cur \in Nat
  BY <1>1, <1>2
<1> HIDE DEF cur, nn, m
<1>4. prev < cur /\ prev \in P \ {cur} /\ nn # cur /\ prev \in Nat
  BY <1>1, <1>2 DEF IsNext
<1>5. rest \in Nat /\ cur < rest /\ rest < cur + m /\ rest \in unit_range(cur, m) /\ rest # arena
  <2>1. rest \in Nat /\ cur < rest /\ rest < cur + m
    BY <1>3
  <2> HIDE DEF rest
  <2> QED
    BY <1>3, <2>1 DEF unit_range, arena
<1>6. rest \in Addr
  BY <1>1, <1>2, <1>5 DEF m
<1> HIDE DEF rest
<1>7. ASSUME NEW a \in P, cur < a PROVE rest < a
  <2>1. cur + m < a
    BY <1>1, <1>2, <1>7 DEF m
  <2> QED
    BY <1>1, <1>3, <1>5, <2>1
<1>8. rest \notin P
  BY <1>5, <1>7
<1>9. IsNext(Q, prev, rest)
  <2>1. ASSUME NEW c \in Q PROVE c <= prev \/ rest <= c
    <3>1. CASE c = rest
      BY <1>5, <3>1
    <3>2. CASE c # rest
      <4>1. c \in P /\ c # cur /\ c \in Nat
        BY <1>1, <3>2
      <4>2. c <= prev \/ cur < c
        BY <1>2, <1>3, <4>1 DEF IsNext
      <4> QED
        BY <1>5, <1>7, <4>1, <4>2
    <3> QED
      BY <3>1, <3>2
  <2>2. prev < rest
    BY <1>3, <1>4, <1>5
  <2> QED
    BY <1>5, <2>1, <2>2 DEF IsNext
<1>10. IsNext(Q, rest, nn)
  <2>1. nn \in Q
    BY <1>2, <1>4
  <2>2. CASE nn = arena
    <3>1. ASSUME NEW c \in Q PROVE c <= rest
      <4>1. c # rest => c \in P /\ c \in Nat
        BY <1>1
      <4>2. c \in P => c <= cur
        BY <1>2, <2>2 DEF IsNext
      <4> QED
        BY <1>3, <1>5, <4>1, <4>2
    <3> QED
      BY <2>1, <2>2, <3>1 DEF IsNext
  <2>3. CASE nn # arena
    <3>1. cur < nn /\ nn \in Nat
      BY <1>1, <1>2, <2>3 DEF IsNext
    <3>2. rest < nn
      BY <1>2, <1>7, <3>1
    <3>3. ASSUME NEW c \in Q PROVE c <= rest \/ nn <= c
      <4>1. c # rest => c \in P /\ c \in Nat
        BY <1>1
      <4>2. c \in P => c <= cur \/ nn <= c
        BY <1>2, <2>3 DEF IsNext
      <4> QED
        BY <1>3, <1>5, <4>1, <4>2
    <3> QED
      BY <2>1, <2>3, <3>2, <3>3 DEF IsNext
  <2> QED
    BY <2>2, <2>3
<1>11. ASSUME NEW a \in P \ {cur}, a # prev PROVE IsNext(Q, a, s.next[a])
  <2>1. a \in P /\ IsNext(P, a, s.next[a]) /\ Circle(s.next, P) /\ a \in Nat
    BY <1>1 DEF FreeBlocks
  <2> DEFINE b == s.next[a]
  <2>2. b # cur /\ b \in P /\ b \in Nat
    <3>1. b # cur
      BY <1>11, <2>1, NextInjective DEF cur
    <3> QED
      BY <1>1, <2>1, <3>1
  <2> HIDE DEF b
  <2>3. IsNext(P, a, b) /\ a # cur
    BY <2>1 DEF b
  <2>4. CASE b = arena
    <3>1. cur < a
      BY <1>2, <1>3, <2>1, <2>3, <2>4 DEF IsNext
    <3>2. rest < a
      BY <1>7, <3>1
    <3>3. \A c \in Q : c <= a
      BY <1>5, <2>1, <2>3, <2>4, <3>2 DEF IsNext
    <3> QED
      BY <2>2, <2>4, <3>3 DEF IsNext, b
  <2>5. CASE b # arena
    <3>1. a < b /\ (cur < a \/ b < cur)
      BY <1>2, <1>3, <2>1, <2>2, <2>3, <2>5 DEF IsNext
    <3>2. rest <= a \/ b <= rest
      BY <1>3, <1>5, <1>7, <2>1, <2>2, <3>1
    <3>3. \A c \in Q : c <= a \/ b <= c
      BY <2>3, <2>5, <3>2 DEF IsNext
    <3> QED
      BY <2>2, <2>5, <3>1, <3>3 DEF IsNext, b
  <2> QED
    BY <2>4, <2>5
<1>12. /\ prev \in Addr /\ cur \in Addr /\ nn \in Addr /\ arena \in Addr
       /\ prev # cur /\ prev # rest /\ cur # rest /\ m - n \in Nat /\ m - n > 0
  <2>1. m - n \in Nat /\ m - n > 0 /\ cur # rest /\ prev # rest
    BY <1>3, <1>4, <1>5
  <2> QED
    BY <1>1, <1>2, <1>4, <2>1
<1>13. /\ units \in [Addr -> Nat] /\ units[cur] = n /\ units[rest] = m - n
       /\ \A a \in Addr : a # cur /\ a # rest => units[a] = s.units[a]
  BY <1>1, <1>6, <1>12
<1>14. /\ next \in [Addr -> Addr] /\ next[prev] = rest /\ next[rest] = nn
       /\ \A a \in Addr : a # prev /\ a # cur /\ a # rest => next[a] = s.next[a]
  BY <1>1, <1>6, <1>12
<1>15. /\ h.units = units /\ h.next = next /\ h.slobfree = prev /\ h.bigblocks = s.bigblocks
       /\ h \in Slobs
  <2>1. h = [s EXCEPT !.units = units, !.next = next, !.slobfree = prev]
    BY <1>1 DEF Slobs, nn, m
  <2> HIDE DEF h, units, next
  <2> QED
    BY <1>1, <1>12, <1>13, <1>14, <2>1 DEF Slobs
<1> HIDE DEF units, next, h
<1>16. Circle(next, Q)
  <2>1. \A a \in Q : IsNext(Q, a, next[a])
    BY <1>1, <1>8, <1>9, <1>10, <1>11, <1>14
  <2>2. Q \in SUBSET Addr /\ arena \in Q
    BY <1>1, <1>2, <1>6
  <2> HIDE DEF Q
  <2> QED
    BY <1>14, <2>1, <2>2 DEF Circle
<1>17. ASSUME NEW x PROVE x \in unit_range(cur, m) <=> x \in unit_range(cur, n) \/ x \in unit_range(rest, m - n)
  BY <1>3 DEF unit_range, rest
<1>18. Blocks(units, Q)
  <2>1. units[arena] = 1
    BY <1>2, <1>5, <1>12, <1>13, BlockFacts
  <2>2. ASSUME NEW a \in Q PROVE units[a] > 0 /\ unit_range(a, units[a]) \subseteq Addr
    <3>1. CASE a = rest
      <4>1. unit_range(cur, m) \subseteq Addr
        BY <1>1, <1>2 DEF m
      <4> QED
        BY <1>12, <1>13, <1>17, <3>1, <4>1
    <3>2. CASE a # rest
      BY <1>1, <1>13, <3>2
    <3> QED
      BY <3>1, <3>2
  <2>3. ASSUME NEW a \in Q, NEW b \in Q, a < b PROVE a + units[a] < b
    <3>1. CASE a = rest
      <4>1. b \in P /\ b \in Nat /\ cur < b
        BY <1>1, <1>3, <1>5, <2>3, <3>1
      <4>2. cur + m < b
        BY <1>1, <1>2, <4>1 DEF m
      <4>3. rest + (m - n) = cur + m
        BY <1>3 DEF rest
      <4> QED
        BY <1>13, <3>1, <4>2, <4>3
    <3>2. CASE a # rest
      <4>1. a \in P /\ a # cur /\ a \in Nat /\ units[a] = s.units[a] /\ s.units[a] \in Nat
        BY <1>1, <1>13, <3>2
      <4>2. CASE b = rest
        <5>1. a < cur
          BY <1>3, <1>5, <1>7, <2>3, <4>1, <4>2
        <5>2. a + s.units[a] < cur
          BY <1>1, <1>2, <4>1, <5>1
        <5> QED
          BY <1>3, <1>5, <4>1, <4>2, <5>2
      <4>3. CASE b # rest
        BY <1>1, <2>3, <4>1, <4>3
      <4> QED
        BY <4>2, <4>3
    <3> QED
      BY <3>1, <3>2
  <2> HIDE DEF Q
  <2> QED
    BY <1>13, <2>1, <2>2, <2>3 DEF Blocks
<1>19. Units(units, Q) = Units(s.units, P) \ unit_range(cur, n)
  <2>1. ASSUME NEW a \in P, a # cur, NEW x \in unit_range(a, s.units[a])
        PROVE  x \notin unit_range(cur, n) /\ x \in unit_range(a, units[a]) /\ a \in Q
    <3>1. a \in Nat /\ s.units[a] \in Nat
      BY <1>1
    <3>2. a + s.units[a] < cur \/ cur + n < a
      BY <1>1, <1>2, <1>3, <1>5, <1>7, <2>1, <3>1 DEF rest
    <3>3. units[a] = s.units[a] /\ a \in Q
      BY <1>1, <1>8, <1>13, <2>1
    <3> QED
      BY <1>3, <2>1, <3>1, <3>2, <3>3 DEF unit_range
  <2>2. \A x \in unit_range(rest, units[rest]) : x \in unit_range(cur, m) /\ x \notin unit_range(cur, n)
    BY <1>3, <1>5, <1>13 DEF unit_range, rest
  <2>3. ASSUME NEW x \in Units(units, Q) PROVE x \in Units(s.units, P) /\ x \notin unit_range(cur, n)
    <3>1. PICK a \in Q : x \in unit_range(a, units[a])
      BY DEF Units
    <3>2. CASE a = rest
      BY <1>2, <2>2, <3>1, <3>2 DEF Units, m
    <3>3. CASE a # rest
      <4>1. a \in P /\ a # cur /\ units[a] = s.units[a]
        BY <1>1, <1>13, <3>3
      <4> QED
        BY <2>1, <3>1, <4>1 DEF Units
    <3> QED
      BY <3>2, <3>3
  <2>4. ASSUME NEW x \in Units(s.units, P), x \notin unit_range(cur, n) PROVE x \in Units(units, Q)
    <3>1. PICK a \in P : x \in unit_range(a, s.units[a])
      BY DEF Units
    <3>2. CASE a = cur
      <4>1. x \in unit_range(rest, units[rest]) /\ rest \in Q
        BY <1>13, <1>17, <2>4, <3>1, <3>2 DEF m
      <4> HIDE DEF Q
      <4> QED
        BY <4>1 DEF Units
    <3>3. CASE a # cur
      BY <2>1, <3>1, <3>3 DEF Units
    <3> QED
      BY <3>2, <3>3
  <2> HIDE DEF Q
  <2> QED
    BY <2>3, <2>4
<1>20. unit_range(cur, m) \subseteq Units(s.units, P)
  BY <1>2 DEF Units, m
<1>21. unit_range(cur, n) \subseteq Units(s.units, P) /\ rest \in Units(s.units, P) /\ cur \in Units(s.units, P)
  BY <1>3, <1>5, <1>17, <1>20 DEF unit_range
<1> HIDE DEF Q
<1>22. FreeBlocks(h, Q) /\ Units(h.units, Q) = Units(s.units, P) \ unit_range(cur, n)
  <2>1. prev \in Q
    BY <1>4 DEF Q
  <2> QED
    BY <1>15, <1>16, <1>18, <1>19, <2>1 DEF FreeBlocks
<1>23. Taken(s, P, n, [block |-> cur, heap |-> h])
  BY <1>1, <1>2, <1>13, <1>15, <1>21, <1>22 DEF Taken
<1> QED
  BY <1>23 DEF cur, rest, h

\* The search of slob_alloc finds n units, if a block has them, and cuts them off.
LEMMA TakeCuts ==
  ASSUME NEW s, NEW P, FreeBlocks(s, P), NEW n \in Nat, n >= 2, \E a \in P : s.units[a] >= n
  PROVE  Taken(s, P, n, take(s, n))
<1> DEFINE c == circle(s)
           T == {a \in P : s.units[s.next[a]] >= n}
           prev == first(s, LAMBDA a : s.units[s.next[a]] >= n)
           cur == s.next[prev]
           rest == cur + n
<1>1. /\ P \in SUBSET Nat /\ s.units[arena] = 1
      /\ \A a \in P : s.next[a] \in P /\ s.units[a] \in Nat
  BY BlockFacts
<1>2. T # {}
  <2>1. PICK a \in P : s.units[a] >= n
    OBVIOUS
  <2>2. /\ c \in Seq(P) /\ Walked(s, c) /\ ToSet(c) = P /\ s.next[Last(c)] = s.slobfree
    BY CircleWalks
  <2> HIDE DEF c
  <2>3. DOMAIN c = 1..Len(c) /\ Len(c) \in Nat /\ Len(c) > 0 /\ \A i \in 1..Len(c) : c[i] \in P
    BY <2>2, LenProperties, ElementOfSeq DEF Walked
  <2>4. PICK i \in 1..Len(c) : c[i] = a
    BY <2>2, <2>3 DEF ToSet
  <2>5. \E b \in P : s.next[b] = a
    <3>1. CASE i = 1
      <4>1. Len(c) \in 1..Len(c) /\ c[Len(c)] \in P /\ s.next[c[Len(c)]] = a
        BY <2>2, <2>3, <2>4, <3>1 DEF Last, Walked
      <4> QED
        BY <4>1
    <3>2. CASE i # 1
      <4>1. i \in 2..Len(c) /\ i - 1 \in 1..Len(c)
        BY <2>3, <3>2
      <4>2. s.next[c[i - 1]] = a /\ c[i - 1] \in P
        BY <2>2, <2>3, <2>4, <4>1 DEF Walked
      <4> QED
        BY <4>2
    <3> QED
      BY <3>1, <3>2
  <2> QED
    BY <2>1, <2>5
<1>3. prev \in P /\ s.units[cur] >= n
  <2> HIDE DEF T
  <2>1. /\ \E i \in DOMAIN c : c[i] \in T /\ \A j \in 1..(i - 1) : c[j] \notin T
        /\ \A i \in DOMAIN c : c[i] \in P
        /\ \A i \in DOMAIN c : \A j \in 1..(i - 1) : c[j] \in P
    BY <1>2, FirstOf DEF T
  <2>2. prev = c[CHOOSE i \in DOMAIN c : /\ s.units[s.next[c[i]]] >= n
                                         /\ \A j \in 1..(i - 1) : ~(s.units[s.next[c[j]]] >= n)]
    BY DEF first
  <2> HIDE DEF c, prev
  <2>3. \A a \in P : a \in T <=> s.units[s.next[a]] >= n
    BY DEF T
  <2>4. \E i \in DOMAIN c : /\ s.units[s.next[c[i]]] >= n
                            /\ \A j \in 1..(i - 1) : ~(s.units[s.next[c[j]]] >= n)
    BY <2>1, <2>3
  <2>5. PICK i \in DOMAIN c : prev = c[i] /\ s.units[s.next[c[i]]] >= n
    BY <2>2, <2>4
  <2> QED
    BY <2>1, <2>5
<1>4. take(s, n) =
        [block |-> cur,
         heap |->
           IF s.units[cur] = n
           THEN [s EXCEPT !.next = [@ EXCEPT ![prev] = s.next[cur], ![cur] = arena], !.slobfree = prev]
           ELSE [s EXCEPT !.units = [@ EXCEPT ![cur] = n, ![rest] = s.units[cur] - n],
                          !.next = [@ EXCEPT ![prev] = rest, ![rest] = s.next[cur], ![cur] = arena],
                          !.slobfree = prev]]
  BY DEF take
<1> HIDE DEF prev
<1>5. cur # arena /\ s.units[cur] \in Nat
  <2>1. cur \in P
    BY <1>1, <1>3
  <2> HIDE DEF cur
  <2>2. s.units[cur] \in Nat
    BY <1>1, <2>1
  <2>3. s.units[cur] # 1
    BY <1>3, <2>2
  <2> QED
    BY <1>1, <2>2, <2>3
<1>6. CASE s.units[cur] = n
  <2>1. Taken(s, P, s.units[cur],
              [block |-> cur,
               heap |-> [s EXCEPT !.next = [@ EXCEPT ![prev] = s.next[cur], ![cur] = arena],
                                  !.slobfree = prev]])
    BY <1>3, <1>5, TakeAll
  <2> QED
    BY <1>4, <1>6, <2>1
<1>7. CASE s.units[cur] # n
  <2>1. n > 0 /\ n < s.units[cur]
    BY <1>3, <1>5, <1>7
  <2>2. Taken(s, P, n,
              [block |-> cur,
               heap |-> [s EXCEPT !.units = [@ EXCEPT ![cur] = n, ![rest] = s.units[cur] - n],
                                  !.next = [@ EXCEPT ![prev] = rest, ![rest] = s.next[cur], ![cur] = arena],
                                  !.slobfree = prev]])
    BY <1>3, <1>5, <2>1, TakeSome
  <2> QED
    BY <1>4, <1>7, <2>2
<1> QED
  BY <1>6, <1>7

-----------------------------------------------------------------------------
(* slob_free: a block is put back. *)

\* The n units from b on are not on the list.
Away(s, P, b, n) ==
  /\ b \in Addr \ {arena} /\ n \in Nat \ {0} /\ unit_range(b, n) \subseteq Addr
  /\ unit_range(b, n) \cap Units(s.units, P) = {}

\* The blocks of the list are before or behind such units.
LEMMA AwayFacts ==
  ASSUME NEW s, NEW P, FreeBlocks(s, P), NEW b, NEW n, Away(s, P, b, n)
  PROVE  /\ b \in Nat /\ n \in Nat /\ n > 0 /\ arena < b /\ b \notin P
         /\ \A a \in P : a < b => a + s.units[a] <= b
         /\ \A a \in P : b < a => b + n <= a
<1>1. b \in Addr /\ b # arena /\ n \in Nat /\ n > 0
  BY DEF Away
<1>2. b \in Nat /\ arena < b
  BY <1>1, AddrFacts DEF arena
<1>3. ASSUME NEW a \in P
      PROVE  a \in Nat /\ s.units[a] \in Nat /\ s.units[a] > 0 /\ unit_range(a, s.units[a]) \subseteq Units(s.units, P)
  BY BlockFacts DEF Units
<1>4. ASSUME NEW a \in P PROVE \A x \in unit_range(a, s.units[a]) : x \notin unit_range(b, n)
  BY <1>3 DEF Away
<1>5. ASSUME NEW a \in P, a < b PROVE a + s.units[a] <= b
  <2> SUFFICES ASSUME b < a + s.units[a] PROVE FALSE
    BY <1>2, <1>3
  <2>1. b \in unit_range(a, s.units[a]) /\ b \in unit_range(b, n)
    BY <1>1, <1>2, <1>3, <1>5 DEF unit_range
  <2> QED
    BY <1>4, <2>1
<1>6. ASSUME NEW a \in P, b <= a PROVE b + n <= a
  <2> SUFFICES ASSUME a < b + n PROVE FALSE
    BY <1>1, <1>2, <1>3
  <2>1. a \in unit_range(a, s.units[a]) /\ a \in unit_range(b, n)
    BY <1>1, <1>2, <1>3, <1>6 DEF unit_range
  <2> QED
    BY <1>4, <2>1
<1>7. b \notin P
  BY <1>1, <1>2, <1>6
<1>8. \A a \in P : b < a => b + n <= a
  BY <1>2, <1>3, <1>6
<1> QED
  BY <1>1, <1>2, <1>5, <1>7, <1>8

\* slob_free stops at the last block before b.
LEMMA PlaceBelow ==
  ASSUME NEW s, NEW P, FreeBlocks(s, P), NEW b \in Nat, arena < b, b \notin P
  PROVE  place(s, b) \in P /\ place(s, b) < b /\ \A a \in P : a <= place(s, b) \/ b < a
<1> DEFINE Here(a) == \/ a < b /\ b < s.next[a]
                      \/ a >= s.next[a] /\ (b > a \/ b < s.next[a])
           c == circle(s)
           T == {a \in P : Here(a)}
           Below == {a \in P : a < b}
<1>1. P \in SUBSET Nat /\ arena \in P /\ \A a \in P : IsNext(P, a, s.next[a]) /\ s.next[a] \in P
  BY BlockFacts
<1>2. T # {}
  <2>1. Below \in SUBSET Nat /\ arena \in Below
    BY <1>1
  <2>2. \A a \in Below : a <= b
    <3>1. \A a \in Below : a \in Nat /\ a < b
      BY <2>1
    <3> QED
      BY <3>1
  <2>3. PICK m \in Below : \A a \in Below : a <= m
    <3>1. Below # {}
      BY <2>1
    <3> HIDE DEF Below
    <3> QED
      BY <2>1, <2>2, <3>1, GreatestBelow
  <2>4. m \in P /\ m \in Nat /\ m < b /\ IsNext(P, m, s.next[m]) /\ s.next[m] \in P /\ s.next[m] \in Nat
    BY <1>1
  <2>5. CASE s.next[m] = arena
    <3>1. m >= s.next[m]
      BY <2>4, <2>5 DEF arena
    <3>2. Here(m)
      BY <2>4, <3>1
    <3> QED
      BY <2>4, <3>2
  <2>6. CASE s.next[m] # arena
    <3>1. m < s.next[m]
      BY <2>4, <2>6 DEF IsNext
    <3>2. s.next[m] \notin Below
      BY <2>3, <2>4, <3>1
    <3>3. b < s.next[m]
      BY <2>4, <3>2
    <3> QED
      BY <2>4, <3>3
  <2> QED
    BY <2>5, <2>6
<1>3. ASSUME NEW a \in T PROVE a \in P /\ a < b /\ \A k \in P : k <= a \/ b < k
  <2>1. a \in P /\ a \in Nat /\ Here(a) /\ IsNext(P, a, s.next[a]) /\ s.next[a] \in Nat
    BY <1>1
  <2>2. CASE a < b /\ b < s.next[a]
    <3>1. s.next[a] # arena
      BY <2>1, <2>2 DEF arena
    <3>2. \A k \in P : k <= a \/ s.next[a] <= k
      BY <2>1, <3>1 DEF IsNext
    <3> QED
      BY <1>1, <2>1, <2>2, <3>2
  <2>3. CASE a >= s.next[a] /\ (b > a \/ b < s.next[a])
    <3>1. s.next[a] = arena
      BY <2>1, <2>3 DEF IsNext
    <3>2. \A k \in P : k <= a
      BY <2>1, <3>1 DEF IsNext
    <3> QED
      BY <2>1, <2>3, <3>1, <3>2 DEF arena
  <2> QED
    BY <2>1, <2>2, <2>3
<1>4. place(s, b) \in T
  <2>1. /\ \E i \in DOMAIN c : c[i] \in T /\ \A j \in 1..(i - 1) : c[j] \notin T
        /\ \A i \in DOMAIN c : c[i] \in P
        /\ \A i \in DOMAIN c : \A j \in 1..(i - 1) : c[j] \in P
    <3> HIDE DEF T
    <3> QED
      BY <1>2, FirstOf DEF T
  <2>2. place(s, b) = c[CHOOSE i \in DOMAIN c : Here(c[i]) /\ \A j \in 1..(i - 1) : ~Here(c[j])]
    BY DEF place, first
  <2>3. \A a \in P : a \in T <=> Here(a)
    OBVIOUS
  <2> HIDE DEF c, T, Here
  <2>4. \E i \in DOMAIN c : Here(c[i]) /\ \A j \in 1..(i - 1) : ~Here(c[j])
    BY <2>1, <2>3
  <2>5. PICK i \in DOMAIN c : place(s, b) = c[i] /\ Here(c[i])
    BY <2>2, <2>4
  <2> QED
    BY <2>1, <2>3, <2>5
<1> HIDE DEF T
<1> QED
  BY <1>3, <1>4

\* Between join_next and join_cur: b knows the block after it and does not touch it, but no
\* block knows b.
Pending(s, R, b, cur) ==
  /\ s \in Slobs
  /\ R \in SUBSET Addr /\ arena \in R /\ cur \in R /\ b \in Addr \ R /\ cur < b
  /\ \A a \in R : a <= cur \/ b < a
  /\ \A a \in R : a # cur => IsNext(R, a, s.next[a])
  /\ IsNext(R \cup {b}, b, s.next[b]) /\ s.next[b] # b
  /\ Blocks(s.units, R)
  /\ s.units[b] > 0 /\ unit_range(b, s.units[b]) \subseteq Addr
  /\ \A a \in R : a < b => a + s.units[a] <= b
  /\ \A a \in R : b < a => b + s.units[b] < a

\* The rest of the heap of s is as it was when t came, but for the units of W.
Elsewhere(s, t, W) ==
  t.bigblocks = s.bigblocks /\ \A a \in Addr : a \notin W => t.units[a] = s.units[a]

\* b does not touch the next block.
LEMMA NotJoinedNext ==
  ASSUME NEW s, NEW P, FreeBlocks(s, P), NEW b, Away(s, P, b, s.units[b]),
         NEW cur \in P, cur < b, \A a \in P : a <= cur \/ b < a,
         b + s.units[b] # s.next[cur]
  PROVE  Pending([s EXCEPT !.next[b] = s.next[cur]], P, b, cur)
<1> DEFINE nx == s.next[cur]
           n == s.units[b]
           j == [s EXCEPT !.next[b] = nx]
<1>1. /\ P \in SUBSET Addr /\ P \in SUBSET Nat /\ arena \in P
      /\ \A a \in P : IsNext(P, a, s.next[a]) /\ s.next[a] \in P
      /\ s.units \in [Addr -> Nat] /\ s.next \in [Addr -> Addr] /\ s \in Slobs
      /\ Blocks(s.units, P)
  BY BlockFacts DEF FreeBlocks
<1>2. /\ b \in Nat /\ n \in Nat /\ n > 0 /\ arena < b /\ b \notin P
      /\ \A a \in P : a < b => a + s.units[a] <= b
      /\ \A a \in P : b < a => b + n <= a
  BY AwayFacts
<1>3. b \in Addr /\ unit_range(b, n) \subseteq Addr
  BY DEF Away
<1>4. nx \in P /\ nx \in Nat /\ cur \in Nat /\ IsNext(P, cur, nx) /\ nx # b
  BY <1>1, <1>2
<1> HIDE DEF nx, n
<1>5. j \in Slobs /\ j.units = s.units /\ j.next[b] = nx /\ \A a \in P : j.next[a] = s.next[a]
  <2>1. nx \in Addr
    BY <1>1, <1>4
  <2> QED
    BY <1>1, <1>2, <1>3, <2>1 DEF Slobs
<1> HIDE DEF j
<1>6. IsNext(P \cup {b}, b, nx)
  <2>1. CASE nx = arena
    <3>1. \A a \in P : a <= cur
      BY <1>4, <2>1 DEF IsNext
    <3>2. \A a \in P \cup {b} : a <= b
      BY <1>1, <1>2, <1>4, <3>1
    <3> QED
      BY <1>4, <2>1, <3>2 DEF IsNext
  <2>2. CASE nx # arena
    <3>1. cur < nx /\ \A a \in P : a <= cur \/ nx <= a
      BY <1>4, <2>2 DEF IsNext
    <3>2. b < nx
      BY <1>2, <1>4, <3>1
    <3>3. \A a \in P \cup {b} : a <= b \/ nx <= a
      BY <1>1, <1>2, <1>4, <3>1
    <3> QED
      BY <1>4, <2>2, <3>2, <3>3 DEF IsNext
  <2> QED
    BY <2>1, <2>2
<1>7. ASSUME NEW a \in P, b < a PROVE b + n < a
  <2>1. a \in Nat /\ b + n <= a /\ ~(a <= cur)
    <3>1. a \in Nat /\ b + n <= a
      BY <1>1, <1>2, <1>7
    <3> QED
      BY <1>2, <1>4, <1>7, <3>1
  <2>2. nx # arena /\ nx <= a /\ cur < nx
    BY <1>4, <2>1 DEF IsNext
  <2>3. b < nx
    BY <1>2, <1>4, <2>2
  <2>4. b + n <= nx /\ b + n # nx
    BY <1>2, <1>4, <2>3 DEF n, nx
  <2> QED
    BY <1>2, <1>4, <2>1, <2>2, <2>4
<1>8. Pending(j, P, b, cur)
  BY <1>1, <1>2, <1>3, <1>4, <1>5, <1>6, <1>7 DEF Pending, n
<1> QED
  BY <1>8 DEF j, nx

\* b touches the next block: they become one.
LEMMA JoinedNext ==
  ASSUME NEW s, NEW P, FreeBlocks(s, P), NEW b, Away(s, P, b, s.units[b]),
         NEW cur \in P, cur < b, \A a \in P : a <= cur \/ b < a,
         NEW nx, nx = s.next[cur], b + s.units[b] = nx
  PROVE  LET j == [s EXCEPT !.units = [@ EXCEPT ![b] = s.units[b] + s.units[nx], ![nx] = 0],
                            !.next = [@ EXCEPT ![b] = s.next[nx], ![nx] = arena]]
             W == Units(s.units, P) \cup unit_range(b, s.units[b])
         IN  /\ Pending(j, P \ {nx}, b, cur)
             /\ Units(j.units, P \ {nx}) \cup unit_range(b, j.units[b]) = W
             /\ Elsewhere(s, j, W) /\ j.units[b] >= s.units[b]
<1> DEFINE n == s.units[b]
           m == s.units[nx]
           nn == s.next[nx]
           units == [s.units EXCEPT ![b] = @ + m, ![nx] = 0]
           next == [s.next EXCEPT ![b] = nn, ![nx] = arena]
           j == [s EXCEPT !.units = [@ EXCEPT ![b] = s.units[b] + s.units[nx], ![nx] = 0],
                          !.next = [@ EXCEPT ![b] = s.next[nx], ![nx] = arena]]
           R == P \ {nx}
<1>1. /\ P \in SUBSET Addr /\ P \in SUBSET Nat /\ arena \in P
      /\ \A a \in P : /\ IsNext(P, a, s.next[a]) /\ s.next[a] \in P /\ s.units[a] \in Nat
                      /\ s.units[a] > 0 /\ unit_range(a, s.units[a]) \subseteq Addr
      /\ \A a, c \in P : a < c => a + s.units[a] < c
      /\ s.units \in [Addr -> Nat] /\ s.next \in [Addr -> Addr] /\ s \in Slobs
      /\ s.units[arena] = 1
  BY BlockFacts
<1>2. /\ b \in Nat /\ n \in Nat /\ n > 0 /\ arena < b /\ b \notin P
      /\ \A a \in P : a < b => a + s.units[a] <= b
  BY AwayFacts
<1>3. b \in Addr /\ unit_range(b, n) \subseteq Addr
  BY DEF Away
<1>4. nx \in P /\ nx \in Nat /\ cur \in Nat /\ IsNext(P, cur, nx) /\ b < nx /\ b + n = nx /\ nx \in Addr
  <2>1. nx \in P /\ nx \in Nat /\ cur \in Nat /\ IsNext(P, cur, nx) /\ nx \in Addr
    BY <1>1
  <2> QED
    BY <1>2, <2>1
<1>5. m \in Nat /\ m > 0 /\ nn \in P /\ nn \in Nat /\ nn \in Addr /\ IsNext(P, nx, nn)
  BY <1>1, <1>4
<1>6. nx # arena /\ cur \in R /\ arena \in R /\ nn # nx /\ b # nx /\ b # arena
  <2>1. nx # arena /\ b # nx /\ cur # nx /\ b # arena
    BY <1>2, <1>4 DEF arena
  <2>2. nn # nx
    BY <1>4, <1>5, <2>1 DEF IsNext
  <2> QED
    BY <1>1, <2>1, <2>2
<1>7. /\ units \in [Addr -> Nat] /\ units[b] = n + m /\ units[nx] = 0
      /\ \A a \in Addr : a # b /\ a # nx => units[a] = s.units[a]
  <2>1. n + m \in Nat
    BY <1>2, <1>5
  <2> HIDE DEF m
  <2> QED
    BY <1>1, <1>3, <1>4, <1>6, <2>1
<1>8. /\ next \in [Addr -> Addr] /\ next[b] = nn
      /\ \A a \in Addr : a # b /\ a # nx => next[a] = s.next[a]
  <2>1. arena \in Addr
    BY <1>1
  <2> HIDE DEF nn
  <2> QED
    BY <1>1, <1>3, <1>4, <1>5, <1>6, <2>1
<1>9. j \in Slobs /\ j.units = units /\ j.next = next /\ j.bigblocks = s.bigblocks
  <2>1. j = [s EXCEPT !.units = units, !.next = next]
    OBVIOUS
  <2> HIDE DEF j, units, next
  <2> QED
    BY <1>1, <1>7, <1>8, <2>1 DEF Slobs
<1> HIDE DEF units, next, j, m, nn, n
<1>10. \A a \in R : a <= cur \/ nx < a
  <2>1. \A a \in P : a <= cur \/ nx <= a
    BY <1>4, <1>6 DEF IsNext
  <2> QED
    BY <1>1, <1>4, <2>1
<1>11. IsNext(R \cup {b}, b, nn)
  <2>1. nn \in R
    BY <1>5, <1>6
  <2>2. CASE nn = arena
    <3>1. \A a \in P : a <= nx
      BY <1>5, <2>2 DEF IsNext
    <3>2. \A a \in R \cup {b} : a <= b
      BY <1>1, <1>2, <1>4, <1>10, <3>1
    <3> QED
      BY <2>1, <2>2, <3>2 DEF IsNext
  <2>3. CASE nn # arena
    <3>1. nx < nn /\ \A a \in P : a <= nx \/ nn <= a
      BY <1>5, <2>3 DEF IsNext
    <3>2. b < nn
      BY <1>2, <1>4, <1>5, <3>1
    <3>3. \A a \in R \cup {b} : a <= b \/ nn <= a
      BY <1>1, <1>2, <1>4, <1>5, <1>10, <3>1
    <3> QED
      BY <2>1, <2>3, <3>2, <3>3 DEF IsNext
  <2> QED
    BY <2>2, <2>3
<1>12. ASSUME NEW a \in R, a # cur PROVE IsNext(R, a, next[a])
  <2>1. a \in P /\ IsNext(P, a, s.next[a]) /\ next[a] = s.next[a]
    BY <1>1, <1>2, <1>8
  <2>2. s.next[a] # nx
    <3>1. Circle(s.next, P)
      BY DEF FreeBlocks
    <3> QED
      BY <1>12, <2>1, <3>1, NextInjective
  <2> QED
    BY <2>1, <2>2 DEF IsNext
<1>13. Blocks(units, R)
  <2>1. \A a \in R : a \in P /\ units[a] = s.units[a]
    BY <1>1, <1>2, <1>7
  <2>2. units[arena] = 1
    BY <1>1, <1>6, <2>1
  <2> HIDE DEF R
  <2> QED
    BY <1>1, <1>7, <2>1, <2>2 DEF Blocks
<1>14. ASSUME NEW x
       PROVE  x \in unit_range(b, n + m) <=> x \in unit_range(b, n) \/ x \in unit_range(nx, m)
  BY <1>2, <1>4, <1>5 DEF unit_range
<1>15. units[b] > 0 /\ unit_range(b, units[b]) \subseteq Addr
  <2>1. unit_range(nx, m) \subseteq Addr
    BY <1>1, <1>4 DEF m
  <2>2. n + m > 0
    BY <1>2, <1>5
  <2> QED
    BY <1>3, <1>7, <1>14, <2>1, <2>2
<1>16. ASSUME NEW a \in R, b < a PROVE b + units[b] < a
  <2>1. a \in P /\ a \in Nat /\ nx < a
    BY <1>1, <1>2, <1>4, <1>10, <1>16
  <2>2. nx + m < a
    BY <1>1, <1>4, <2>1 DEF m
  <2> QED
    BY <1>2, <1>4, <1>5, <1>7, <2>1, <2>2
<1>17. Pending(j, R, b, cur)
  <2>1. R \in SUBSET Addr /\ b \in Addr \ R /\ \A a \in R : a <= cur \/ b < a
    BY <1>1, <1>2, <1>3
  <2>2. \A a \in R : a < b => a + units[a] <= b
    BY <1>1, <1>2, <1>7
  <2>3. nn # b
    BY <1>2, <1>5
  <2> HIDE DEF R
  <2> QED
    BY <1>6, <1>8, <1>9, <1>11, <1>12, <1>13, <1>15, <1>16, <2>1, <2>2, <2>3 DEF Pending
<1>18. Units(units, R) \cup unit_range(b, units[b]) = Units(s.units, P) \cup unit_range(b, n)
  <2>1. \A a \in R : a \in P /\ units[a] = s.units[a]
    BY <1>1, <1>2, <1>7
  <2>2. ASSUME NEW x \in Units(units, R) PROVE x \in Units(s.units, P)
    BY <2>1 DEF Units
  <2>3. ASSUME NEW x \in Units(s.units, P) PROVE x \in Units(units, R) \/ x \in unit_range(nx, m)
    <3>1. PICK a \in P : x \in unit_range(a, s.units[a])
      BY DEF Units
    <3>2. CASE a = nx
      BY <3>1, <3>2 DEF m
    <3>3. CASE a # nx
      <4>1. a \in R /\ x \in unit_range(a, units[a])
        BY <2>1, <3>1, <3>3
      <4> HIDE DEF R
      <4> QED
        BY <4>1 DEF Units
    <3> QED
      BY <3>2, <3>3
  <2>4. unit_range(nx, m) \subseteq Units(s.units, P)
    BY <1>4 DEF Units, m
  <2> HIDE DEF R
  <2> QED
    BY <1>7, <1>14, <2>2, <2>3, <2>4
<1>19. Elsewhere(s, j, Units(s.units, P) \cup unit_range(b, n))
  <2>1. b \in unit_range(b, n)
    BY <1>2 DEF unit_range
  <2>2. nx \in unit_range(nx, m) /\ unit_range(nx, m) \subseteq Units(s.units, P)
    <3>1. unit_range(nx, m) \subseteq Units(s.units, P)
      BY <1>4 DEF Units, m
    <3> QED
      BY <1>4, <1>5, <3>1 DEF unit_range
  <2> QED
    BY <1>7, <1>9, <2>1, <2>2 DEF Elsewhere
<1>20. units[b] >= n
  BY <1>2, <1>5, <1>7
<1> HIDE DEF R
<1>21. /\ Pending(j, R, b, cur)
       /\ Units(j.units, R) \cup unit_range(b, j.units[b]) = Units(s.units, P) \cup unit_range(b, n)
       /\ Elsewhere(s, j, Units(s.units, P) \cup unit_range(b, n)) /\ j.units[b] >= n
  BY <1>9, <1>17, <1>18, <1>19, <1>20
<1> QED
  BY <1>21 DEF j, R, n

\* What Pending says, in the form the provers need.
LEMMA PendingFacts ==
  ASSUME NEW s, NEW R, NEW b, NEW cur, Pending(s, R, b, cur)
  PROVE  /\ s \in Slobs /\ s.units \in [Addr -> Nat] /\ s.next \in [Addr -> Addr]
         /\ R \in SUBSET Addr /\ R \in SUBSET Nat /\ arena \in R /\ cur \in R /\ cur \in Nat
         /\ b \in Addr /\ b \in Nat /\ b # arena /\ b \notin R /\ cur < b
         /\ \A a \in R : s.units[a] \in Nat /\ s.units[a] > 0 /\ unit_range(a, s.units[a]) \subseteq Addr
         /\ \A a, c \in R : a < c => a + s.units[a] < c
         /\ s.units[arena] = 1 /\ s.units[cur] \in Nat /\ s.units[b] \in Nat
         /\ s.next[b] \in R /\ s.next[b] \in Nat
<1>1. s.units \in [Addr -> Nat] /\ s.next \in [Addr -> Addr] /\ s \in Slobs
  BY DEF Pending, Slobs
<1>2. R \in SUBSET Addr /\ R \in SUBSET Nat /\ arena \in R /\ cur \in R /\ b \in Addr /\ b \in Nat /\ b \notin R /\ cur < b
  BY AddrFacts DEF Pending
<1>3. b # arena
  BY <1>2
<1>4. /\ \A a \in R : s.units[a] > 0 /\ unit_range(a, s.units[a]) \subseteq Addr
      /\ \A a, c \in R : a < c => a + s.units[a] < c
      /\ s.units[arena] = 1
  BY DEF Pending, Blocks
<1>5. s.next[b] \in R
  BY DEF Pending, IsNext
<1>6. \A a \in Addr : s.units[a] \in Nat
  BY <1>1
<1> QED
  BY <1>1, <1>2, <1>3, <1>4, <1>5, <1>6

\* The block before b does not touch it.
LEMMA NotJoinedCur ==
  ASSUME NEW s, NEW R, NEW b, NEW cur, Pending(s, R, b, cur), cur + s.units[cur] # b
  PROVE  LET h == [[s EXCEPT !.next[cur] = b] EXCEPT !.slobfree = cur]
         IN  /\ FreeBlocks(h, R \cup {b})
             /\ Units(h.units, R \cup {b}) = Units(s.units, R) \cup unit_range(b, s.units[b])
             /\ Elsewhere(s, h, Units(s.units, R) \cup unit_range(b, s.units[b]))
             /\ h.units[b] >= s.units[b]
<1> DEFINE h == [[s EXCEPT !.next[cur] = b] EXCEPT !.slobfree = cur]
           Q == R \cup {b}
<1>1. /\ s \in Slobs /\ s.units \in [Addr -> Nat] /\ s.next \in [Addr -> Addr]
      /\ R \in SUBSET Addr /\ R \in SUBSET Nat /\ arena \in R /\ cur \in R /\ cur \in Nat
      /\ b \in Addr /\ b \in Nat /\ b # arena /\ b \notin R /\ cur < b
      /\ \A a \in R : s.units[a] \in Nat /\ s.units[a] > 0 /\ unit_range(a, s.units[a]) \subseteq Addr
      /\ \A a, c \in R : a < c => a + s.units[a] < c
      /\ s.units[arena] = 1 /\ s.units[b] \in Nat
  BY PendingFacts
<1>2. /\ \A a \in R : a <= cur \/ b < a
      /\ \A a \in R : a # cur => IsNext(R, a, s.next[a])
      /\ IsNext(R \cup {b}, b, s.next[b])
      /\ s.units[b] > 0 /\ unit_range(b, s.units[b]) \subseteq Addr
      /\ \A a \in R : a < b => a + s.units[a] <= b
      /\ \A a \in R : b < a => b + s.units[b] < a
  BY DEF Pending
<1>3. /\ h.units = s.units /\ h.slobfree = cur /\ h.bigblocks = s.bigblocks /\ h \in Slobs
      /\ h.next \in [Addr -> Addr] /\ h.next[cur] = b /\ \A a \in Addr : a # cur => h.next[a] = s.next[a]
  BY <1>1 DEF Slobs
<1> HIDE DEF h
<1>4. IsNext(Q, cur, b)
  <2>1. \A a \in Q : a <= cur \/ b <= a
    BY <1>1, <1>2
  <2> QED
    BY <1>1, <2>1 DEF IsNext
<1>5. ASSUME NEW a \in R, a # cur PROVE IsNext(Q, a, s.next[a])
  <2>1. a \in Nat /\ IsNext(R, a, s.next[a])
    BY <1>1, <1>2, <1>5
  <2> DEFINE d == s.next[a]
  <2> HIDE DEF d
  <2>2. d \in R /\ d \in Nat /\ IsNext(R, a, d)
    BY <1>1, <2>1 DEF IsNext, d
  <2>3. CASE d = arena
    <3>1. cur <= a
      BY <1>1, <2>2, <2>3 DEF IsNext
    <3>2. b < a
      BY <1>1, <1>2, <1>5, <2>1, <3>1
    <3>3. \A c \in Q : c <= a
      BY <1>1, <2>1, <2>2, <2>3, <3>2 DEF IsNext
    <3> QED
      BY <2>2, <2>3, <3>3 DEF IsNext, d
  <2>4. CASE d # arena
    <3>1. a < d /\ (cur <= a \/ d <= cur)
      BY <1>1, <2>2, <2>4 DEF IsNext
    <3>2. b <= a \/ d <= b
      BY <1>1, <1>2, <1>5, <2>1, <2>2, <3>1
    <3>3. \A c \in Q : c <= a \/ d <= c
      BY <2>2, <2>4, <3>2 DEF IsNext
    <3> QED
      BY <2>2, <2>4, <3>1, <3>3 DEF IsNext, d
  <2> QED
    BY <2>3, <2>4
<1>6. Circle(h.next, Q)
  <2>1. \A a \in Q : IsNext(Q, a, h.next[a])
    <3>1. b # cur /\ h.next[b] = s.next[b]
      BY <1>1, <1>3
    <3> QED
      BY <1>1, <1>2, <1>3, <1>4, <1>5, <3>1
  <2>2. Q \in SUBSET Addr /\ arena \in Q
    BY <1>1
  <2> HIDE DEF Q
  <2> QED
    BY <1>3, <2>1, <2>2 DEF Circle
<1>7. ASSUME NEW a \in Q, NEW c \in Q, a < c PROVE a + s.units[a] < c
  <2>1. CASE a = b
    <3>1. c \in R
      BY <1>1, <1>7, <2>1
    <3> QED
      BY <1>2, <1>7, <2>1, <3>1
  <2>2. CASE c = b /\ a # b
    <3>1. a \in R /\ a \in Nat /\ s.units[a] \in Nat /\ a < b
      BY <1>1, <1>7, <2>2
    <3>2. CASE a = cur
      <4>1. a + s.units[a] <= b /\ a + s.units[a] # b
        BY <1>2, <3>1, <3>2
      <4> QED
        BY <1>1, <2>2, <3>1, <4>1
    <3>3. CASE a # cur
      <4>1. a < cur
        BY <1>1, <1>2, <3>1, <3>3
      <4>2. a + s.units[a] < cur
        BY <1>1, <3>1, <4>1
      <4> QED
        BY <1>1, <2>2, <3>1, <4>2
    <3> QED
      BY <3>2, <3>3
  <2>3. CASE c # b /\ a # b
    BY <1>1, <1>7, <2>3
  <2> QED
    BY <2>1, <2>2, <2>3
<1>8. Blocks(s.units, Q)
  <2>1. \A a \in Q : s.units[a] > 0 /\ unit_range(a, s.units[a]) \subseteq Addr
    BY <1>1, <1>2
  <2> HIDE DEF Q
  <2> QED
    BY <1>1, <1>7, <2>1 DEF Blocks
<1>9. Units(s.units, Q) = Units(s.units, R) \cup unit_range(b, s.units[b])
  BY DEF Units
<1>10. Elsewhere(s, h, Units(s.units, R) \cup unit_range(b, s.units[b])) /\ h.units[b] >= s.units[b]
  BY <1>1, <1>3 DEF Elsewhere
<1>11. FreeBlocks(h, Q)
  BY <1>1, <1>3, <1>6, <1>8 DEF FreeBlocks
<1> QED
  BY <1>3, <1>9, <1>10, <1>11 DEF h

\* The block before b touches it: they become one.
LEMMA JoinedCur ==
  ASSUME NEW s, NEW R, NEW b, NEW cur, Pending(s, R, b, cur), cur + s.units[cur] = b
  PROVE  LET h == [[s EXCEPT !.units = [@ EXCEPT ![cur] = s.units[cur] + s.units[b], ![b] = 0],
                             !.next = [@ EXCEPT ![cur] = s.next[b], ![b] = arena]]
                   EXCEPT !.slobfree = cur]
         IN  /\ FreeBlocks(h, R)
             /\ Units(h.units, R) = Units(s.units, R) \cup unit_range(b, s.units[b])
             /\ Elsewhere(s, h, Units(s.units, R) \cup unit_range(b, s.units[b]))
             /\ h.units[cur] >= s.units[b]
<1> DEFINE m == s.units[cur]
           n == s.units[b]
           nn == s.next[b]
           units == [s.units EXCEPT ![cur] = m + n, ![b] = 0]
           next == [s.next EXCEPT ![cur] = nn, ![b] = arena]
           h == [[s EXCEPT !.units = [@ EXCEPT ![cur] = s.units[cur] + s.units[b], ![b] = 0],
                           !.next = [@ EXCEPT ![cur] = s.next[b], ![b] = arena]]
                 EXCEPT !.slobfree = cur]
<1>1. /\ s \in Slobs /\ s.units \in [Addr -> Nat] /\ s.next \in [Addr -> Addr]
      /\ R \in SUBSET Addr /\ R \in SUBSET Nat /\ arena \in R /\ cur \in R /\ cur \in Nat
      /\ b \in Addr /\ b \in Nat /\ b # arena /\ b \notin R /\ cur < b
      /\ \A a \in R : s.units[a] \in Nat /\ s.units[a] > 0 /\ unit_range(a, s.units[a]) \subseteq Addr
      /\ \A a, c \in R : a < c => a + s.units[a] < c
      /\ s.units[arena] = 1 /\ m \in Nat /\ n \in Nat /\ nn \in R /\ nn \in Nat
  BY PendingFacts
<1>2. /\ \A a \in R : a <= cur \/ b < a
      /\ \A a \in R : a # cur => IsNext(R, a, s.next[a])
      /\ IsNext(R \cup {b}, b, nn)
      /\ n > 0 /\ unit_range(b, n) \subseteq Addr
      /\ \A a \in R : b < a => b + n < a
  BY DEF Pending
<1>3. cur # arena
  <2>1. b >= 3
    BY <1>1, AddrFacts
  <2> QED
    BY <1>1, <2>1 DEF arena
<1>4. m > 0 /\ unit_range(cur, m) \subseteq Addr /\ b = cur + m /\ cur # b
  BY <1>1
<1>5. /\ units \in [Addr -> Nat] /\ units[cur] = m + n /\ units[b] = 0
      /\ \A a \in Addr : a # cur /\ a # b => units[a] = s.units[a]
  <2>1. m + n \in Nat /\ cur \in Addr
    BY <1>1
  <2> HIDE DEF m, n
  <2> QED
    BY <1>1, <1>4, <2>1
<1>6. /\ next \in [Addr -> Addr] /\ next[cur] = nn
      /\ \A a \in Addr : a # cur /\ a # b => next[a] = s.next[a]
  <2>1. nn \in Addr /\ cur \in Addr /\ arena \in Addr
    BY <1>1
  <2> HIDE DEF nn
  <2> QED
    BY <1>1, <1>4, <2>1
<1>7. /\ h \in Slobs /\ h.units = units /\ h.next = next /\ h.bigblocks = s.bigblocks
      /\ h.slobfree = cur
  <2>1. h = [[s EXCEPT !.units = units, !.next = next] EXCEPT !.slobfree = cur]
    OBVIOUS
  <2>2. cur \in Addr
    BY <1>1
  <2> HIDE DEF h, units, next
  <2> QED
    BY <1>1, <1>5, <1>6, <2>1, <2>2 DEF Slobs
<1> HIDE DEF units, next, h, m, n, nn
<1>8. IsNext(R, cur, nn)
  <2>1. CASE nn = arena
    <3>1. \A a \in R : a <= b
      BY <1>2, <2>1 DEF IsNext
    <3>2. \A a \in R : a <= cur
      BY <1>1, <1>2, <3>1
    <3> QED
      BY <1>1, <2>1, <3>2 DEF IsNext
  <2>2. CASE nn # arena
    <3>1. b < nn /\ \A a \in R : a <= b \/ nn <= a
      BY <1>2, <2>2 DEF IsNext
    <3>2. cur < nn
      BY <1>1, <3>1
    <3>3. \A a \in R : a <= cur \/ nn <= a
      BY <1>1, <1>2, <3>1
    <3> QED
      BY <1>1, <2>2, <3>2, <3>3 DEF IsNext
  <2> QED
    BY <2>1, <2>2
<1>9. Circle(next, R)
  <2>1. \A a \in R : IsNext(R, a, next[a])
    BY <1>1, <1>2, <1>6, <1>8
  <2> QED
    BY <1>1, <1>6, <2>1 DEF Circle
<1>10. ASSUME NEW x
       PROVE  x \in unit_range(cur, m + n) <=> x \in unit_range(cur, m) \/ x \in unit_range(b, n)
  BY <1>1, <1>2, <1>4 DEF unit_range
<1>11. Blocks(units, R)
  <2>1. units[arena] = 1
    BY <1>1, <1>3, <1>5
  <2>2. ASSUME NEW a \in R PROVE units[a] > 0 /\ unit_range(a, units[a]) \subseteq Addr
    <3>1. CASE a = cur
      <4>1. m + n > 0 /\ unit_range(cur, m + n) \subseteq Addr
        BY <1>1, <1>2, <1>4, <1>10
      <4> QED
        BY <1>5, <3>1, <4>1
    <3>2. CASE a # cur
      BY <1>1, <1>5, <3>2
    <3> QED
      BY <3>1, <3>2
  <2>3. ASSUME NEW a \in R, NEW c \in R, a < c PROVE a + units[a] < c
    <3>1. CASE a = cur
      <4>1. c \in Nat /\ b < c
        BY <1>1, <1>2, <2>3, <3>1
      <4>2. b + n < c
        BY <1>2, <4>1
      <4> QED
        BY <1>1, <1>4, <1>5, <3>1, <4>1, <4>2
    <3>2. CASE a # cur
      BY <1>1, <1>5, <2>3, <3>2
    <3> QED
      BY <3>1, <3>2
  <2> QED
    BY <1>5, <2>1, <2>2, <2>3 DEF Blocks
<1>12. Units(units, R) = Units(s.units, R) \cup unit_range(b, n)
  <2>1. \A a \in R : a # cur => units[a] = s.units[a]
    BY <1>1, <1>5
  <2>2. ASSUME NEW x \in Units(units, R) PROVE x \in Units(s.units, R) \/ x \in unit_range(b, n)
    <3>1. PICK a \in R : x \in unit_range(a, units[a])
      BY DEF Units
    <3>2. CASE a = cur
      BY <1>1, <1>5, <1>10, <3>1, <3>2 DEF Units, m
    <3>3. CASE a # cur
      BY <2>1, <3>1, <3>3 DEF Units
    <3> QED
      BY <3>2, <3>3
  <2>3. ASSUME NEW x \in Units(s.units, R) PROVE x \in Units(units, R)
    <3>1. PICK a \in R : x \in unit_range(a, s.units[a])
      BY DEF Units
    <3>2. CASE a = cur
      <4>1. x \in unit_range(cur, units[cur])
        BY <1>5, <1>10, <3>1, <3>2 DEF m
      <4> QED
        BY <1>1, <4>1 DEF Units
    <3>3. CASE a # cur
      BY <2>1, <3>1, <3>3 DEF Units
    <3> QED
      BY <3>2, <3>3
  <2>4. ASSUME NEW x \in unit_range(b, n) PROVE x \in Units(units, R)
    <3>1. x \in unit_range(cur, units[cur])
      BY <1>5, <1>10
    <3> QED
      BY <1>1, <3>1 DEF Units
  <2> QED
    BY <2>2, <2>3, <2>4
<1>13. Elsewhere(s, h, Units(s.units, R) \cup unit_range(b, n))
  <2>1. b \in unit_range(b, n)
    BY <1>1, <1>2 DEF unit_range
  <2>2. cur \in unit_range(cur, m)
    BY <1>1, <1>4 DEF unit_range
  <2>3. unit_range(cur, m) \subseteq Units(s.units, R)
    BY <1>1 DEF Units, m
  <2> QED
    BY <1>5, <1>7, <2>1, <2>2, <2>3 DEF Elsewhere
<1>14. units[cur] >= n
  BY <1>1, <1>5
<1>15. /\ FreeBlocks(h, R)
       /\ Units(h.units, R) = Units(s.units, R) \cup unit_range(b, n)
       /\ Elsewhere(s, h, Units(s.units, R) \cup unit_range(b, n))
       /\ h.units[cur] >= n
  BY <1>1, <1>7, <1>9, <1>11, <1>12, <1>13, <1>14 DEF FreeBlocks
<1> QED
  BY <1>15 DEF h, n

\* h is what slob_free leaves of s when it gets n units from b on.
Freed(s, P, b, n, h) ==
  LET W == Units(s.units, P) \cup unit_range(b, n)
  IN  /\ Elsewhere(s, h, W)
      /\ \E Q : FreeBlocks(h, Q) /\ Units(h.units, Q) = W /\ \E a \in Q : h.units[a] >= n

\* slob_free of a block whose head says how long it is.
LEMMA FreeSized ==
  ASSUME NEW s, NEW P, FreeBlocks(s, P), NEW b, Away(s, P, b, s.units[b]),
         NEW cur \in P, cur < b, \A a \in P : a <= cur \/ b < a
  PROVE  Freed(s, P, b, s.units[b], [join_cur(join_next(s, b, cur), b, cur) EXCEPT !.slobfree = cur])
<1> DEFINE j == join_next(s, b, cur)
           n == s.units[b]
           W == Units(s.units, P) \cup unit_range(b, n)
<1>1. \E R : /\ Pending(j, R, b, cur)
             /\ Units(j.units, R) \cup unit_range(b, j.units[b]) = W
             /\ Elsewhere(s, j, W) /\ j.units[b] >= n
  <2> DEFINE nx == s.next[cur]
  <2>1. CASE b + n = nx
    <3> DEFINE g == [s EXCEPT !.units = [@ EXCEPT ![b] = s.units[b] + s.units[nx], ![nx] = 0],
                              !.next = [@ EXCEPT ![b] = s.next[nx], ![nx] = arena]]
    <3>1. j = g
      BY <2>1 DEF join_next
    <3> HIDE DEF nx
    <3>2. nx = s.next[cur]
      BY DEF nx
    <3>3. /\ Pending(g, P \ {nx}, b, cur)
          /\ Units(g.units, P \ {nx}) \cup unit_range(b, g.units[b]) = W
          /\ Elsewhere(s, g, W) /\ g.units[b] >= n
      BY <2>1, <3>2, JoinedNext
    <3> HIDE DEF g, j, W, n
    <3> QED
      BY <3>1, <3>3
  <2>2. CASE b + n # nx
    <3>1. j = [s EXCEPT !.next[b] = nx]
      BY <2>2 DEF join_next
    <3>2. Pending([s EXCEPT !.next[b] = nx], P, b, cur)
      BY <2>2, NotJoinedNext
    <3>3. s \in Slobs /\ n \in Nat
      BY AwayFacts DEF FreeBlocks
    <3>4. j.units = s.units /\ j.bigblocks = s.bigblocks
      BY <3>1, <3>3 DEF Slobs
    <3> HIDE DEF j, nx
    <3> QED
      BY <3>1, <3>2, <3>3, <3>4 DEF Elsewhere
  <2> QED
    BY <2>1, <2>2
<1> HIDE DEF j, n, W
<1>2. PICK R : /\ Pending(j, R, b, cur)
               /\ Units(j.units, R) \cup unit_range(b, j.units[b]) = W
               /\ Elsewhere(s, j, W) /\ j.units[b] >= n
  BY <1>1
<1> DEFINE h == [join_cur(j, b, cur) EXCEPT !.slobfree = cur]
<1>3. \E Q : /\ FreeBlocks(h, Q) /\ Units(h.units, Q) = W /\ Elsewhere(j, h, W)
             /\ \E a \in Q : h.units[a] >= j.units[b]
  <2>1. CASE cur + j.units[cur] = b
    <3> DEFINE g == [[j EXCEPT !.units = [@ EXCEPT ![cur] = j.units[cur] + j.units[b], ![b] = 0],
                               !.next = [@ EXCEPT ![cur] = j.next[b], ![b] = arena]]
                     EXCEPT !.slobfree = cur]
    <3>1. h = g
      BY <2>1 DEF join_cur
    <3>2. /\ FreeBlocks(g, R) /\ Units(g.units, R) = W /\ Elsewhere(j, g, W)
          /\ g.units[cur] >= j.units[b]
      BY <1>2, <2>1, JoinedCur
    <3>3. cur \in R
      BY <1>2, PendingFacts
    <3> HIDE DEF g, h
    <3> QED
      BY <3>1, <3>2, <3>3
  <2>2. CASE cur + j.units[cur] # b
    <3> DEFINE g == [[j EXCEPT !.next[cur] = b] EXCEPT !.slobfree = cur]
               Q == R \cup {b}
    <3>1. h = g
      BY <2>2 DEF join_cur
    <3>2. /\ FreeBlocks(g, Q) /\ Units(g.units, Q) = W /\ Elsewhere(j, g, W)
          /\ g.units[b] >= j.units[b]
      BY <1>2, <2>2, NotJoinedCur
    <3>3. b \in Q
      OBVIOUS
    <3> HIDE DEF g, h, Q
    <3> QED
      BY <3>1, <3>2, <3>3
  <2> QED
    BY <2>1, <2>2
<1> HIDE DEF h
<1>4. PICK Q : /\ FreeBlocks(h, Q) /\ Units(h.units, Q) = W /\ Elsewhere(j, h, W)
               /\ \E a \in Q : h.units[a] >= j.units[b]
  BY <1>3
<1>5. \E a \in Q : h.units[a] >= n
  <2>1. PICK a \in Q : h.units[a] >= j.units[b]
    BY <1>4
  <2>2. h.units[a] \in Nat
    BY <1>4, <2>1, BlockFacts
  <2>3. j.units[b] \in Nat
    BY <1>2, PendingFacts
  <2>4. n \in Nat
    BY AwayFacts DEF n
  <2>5. h.units[a] >= n
    BY <1>2, <2>1, <2>2, <2>3, <2>4
  <2> QED
    BY <2>1, <2>5
<1>6. Elsewhere(s, h, W)
  BY <1>2, <1>4 DEF Elsewhere
<1> QED
  BY <1>4, <1>5, <1>6 DEF Freed, W, n, h, j

\* slob_free puts the units it gets on the list.
LEMMA FreePuts ==
  ASSUME NEW s, NEW P, FreeBlocks(s, P), NEW b, NEW size, NEW n,
         n = IF size = 0 THEN s.units[b] ELSE SLOB_UNITS(size), Away(s, P, b, n)
  PROVE  Freed(s, P, b, n, slob_free(s, b, size))
<1> DEFINE t == IF size = 0 THEN s ELSE [s EXCEPT !.units[b] = SLOB_UNITS(size)]
           cur == place(s, b)
           W == Units(s.units, P) \cup unit_range(b, n)
<1>1. /\ b \in Nat /\ n \in Nat /\ n > 0 /\ arena < b /\ b \notin P /\ b \in Addr
      /\ b \in unit_range(b, n)
  <2>1. b \in Nat /\ n \in Nat /\ n > 0 /\ arena < b /\ b \notin P /\ b \in Addr
    BY AwayFacts DEF Away
  <2> QED
    BY <2>1 DEF unit_range
<1>2. cur \in P /\ cur < b /\ \A a \in P : a <= cur \/ b < a
  BY <1>1, PlaceBelow
<1>3. s \in Slobs /\ s.units \in [Addr -> Nat] /\ arena \in P /\ P \in SUBSET Addr
  BY BlockFacts
<1>4. /\ t \in Slobs /\ t.next = s.next /\ t.slobfree = s.slobfree /\ t.bigblocks = s.bigblocks
      /\ t.units[b] = n /\ t.units \in [Addr -> Nat] /\ \A a \in Addr : a # b => t.units[a] = s.units[a]
  <2>1. CASE size = 0
    BY <1>3, <2>1
  <2>2. CASE size # 0
    <3> HIDE DEF W, cur
    <3>1. t = [s EXCEPT !.units[b] = n]
      BY <2>2
    <3> HIDE DEF t
    <3> QED
      BY <1>1, <1>3, <3>1 DEF Slobs
  <2> QED
    BY <2>1, <2>2
<1> HIDE DEF t, cur
<1>5. \A a \in P : a # b /\ t.units[a] = s.units[a]
  BY <1>1, <1>3, <1>4
<1>6. Units(t.units, P) = Units(s.units, P)
  BY <1>5 DEF Units
<1>7. FreeBlocks(t, P)
  <2>1. Blocks(t.units, P)
    <3>1. Blocks(s.units, P)
      BY DEF FreeBlocks
    <3> QED
      BY <1>3, <1>4, <1>5, <3>1 DEF Blocks
  <2> QED
    BY <1>4, <2>1 DEF FreeBlocks
<1>8. Away(t, P, b, t.units[b])
  BY <1>4, <1>6 DEF Away
<1> DEFINE h == [join_cur(join_next(t, b, cur), b, cur) EXCEPT !.slobfree = cur]
<1>9. Freed(t, P, b, t.units[b], h)
  BY <1>2, <1>7, <1>8, FreeSized
<1> HIDE DEF h
<1>10. Elsewhere(s, h, W)
  <2>1. Elsewhere(t, h, W)
    BY <1>4, <1>6, <1>9 DEF Freed
  <2> QED
    BY <1>1, <1>4, <2>1 DEF Elsewhere
<1>11. Freed(s, P, b, n, h)
  BY <1>4, <1>6, <1>9, <1>10 DEF Freed
<1> QED
  BY <1>11 DEF slob_free, h, t, cur

-----------------------------------------------------------------------------
(* Sizes. *)

\* 2 ^ k is positive and more than k: there are so many sets of k numbers.
LEMMA Powers ==
  ASSUME NEW k \in Nat
  PROVE  2 ^ k \in Nat /\ 2 ^ k > k
<1> DEFINE S == 1..k
           f == [i \in 0..k |-> IF i = 0 THEN {} ELSE {i}]
<1>1. IsFiniteSet(S) /\ Cardinality(S) = k
  BY FS_Interval
<1>2. IsFiniteSet(SUBSET S) /\ Cardinality(SUBSET S) = 2 ^ k
  BY <1>1, FS_SUBSET
<1>3. IsFiniteSet(0..k) /\ Cardinality(0..k) = k + 1
  BY FS_Interval
<1>4. 2 ^ k \in Nat
  BY <1>2, FS_CardinalityType
<1>5. f \in [0..k -> SUBSET S]
  OBVIOUS
<1>6. \A i, j \in 0..k : f[i] = f[j] => i = j
  OBVIOUS
<1> HIDE DEF f, S
<1>7. ~(2 ^ k < k + 1)
  BY <1>2, <1>3, <1>5, <1>6, FS_PigeonHole
<1> QED
  BY <1>4, <1>7

\* Division, as far as sizes need it.
LEMMA Quotient ==
  ASSUME NEW a \in Nat, NEW k \in Nat, k > 0
  PROVE  a \div k \in Nat /\ k * (a \div k) <= a /\ a < k * (a \div k) + k
OBVIOUS

\* Halving ends.
LEMMA OrderFound ==
  ASSUME NEW size \in Nat
  PROVE  find_order(size) \in Nat
<1> DEFINE half(k) == size \div 2 ^ k
           T == {k \in 0..size : half(k) <= PGSIZE}
<1>1. \A k \in Nat : half(k) \in Nat
  BY Powers, Quotient
<1>2. half(size) = 0
  <2> DEFINE d == 2 ^ size
  <2>1. d \in Nat /\ d > size
    BY Powers
  <2> HIDE DEF d
  <2>2. size \div d = 0
    <3>1. size \div d \in Nat /\ d * (size \div d) <= size
      BY <2>1, Quotient
    <3>2. size \div d >= 1 => d * (size \div d) >= d
      BY <2>1, <3>1
    <3> QED
      BY <2>1, <3>1, <3>2
  <2> QED
    BY <2>2 DEF d
<1> HIDE DEF half
<1>3. size \in T
  BY <1>2, SlobAssumption
<1>4. T \in SUBSET Nat /\ T # {}
  BY <1>3
<1>5. PICK k \in T : \A j \in T : k <= j
  <2> HIDE DEF T
  <2> QED
    BY <1>4, LeastNat
<1>6. \A j \in 0..(k - 1) : half(j) > PGSIZE
  <2>1. ASSUME NEW j \in 0..(k - 1) PROVE half(j) > PGSIZE
    <3>1. j \in 0..size /\ j < k
      BY <1>4, <1>5
    <3>2. j \notin T
      BY <1>4, <1>5, <3>1
    <3>3. half(j) \in Nat /\ PGSIZE \in Nat
      BY <1>1, <3>1, SlobAssumption
    <3> QED
      BY <3>1, <3>2, <3>3
  <2> QED
    BY <2>1
<1>7. \E i \in 0..size : half(i) <= PGSIZE /\ \A j \in 0..(i - 1) : half(j) > PGSIZE
  BY <1>5, <1>6
<1>8. find_order(size) \in 0..size
  BY <1>7 DEF find_order, half
<1> QED
  BY <1>8

\* An object with its head has two units at least, and no more than a page.
LEMMA SizeUnits ==
  ASSUME NEW size \in Nat, size > SLOB_UNIT, size + SLOB_UNIT <= PGSIZE
  PROVE  /\ SLOB_UNITS(size) \in Nat /\ SLOB_UNITS(size) >= 2 /\ SLOB_UNITS(size) <= perpage
         /\ SLOB_UNITS(size) * SLOB_UNIT >= size
<1> DEFINE U == SLOB_UNIT
           n == SLOB_UNITS(size)
<1>1. U \in Nat /\ U > 0 /\ PGSIZE = U * perpage /\ perpage \in Nat
  BY AddrFacts, SlobAssumption
<1>2. n \in Nat /\ U * n <= size + U - 1 /\ size + U - 1 < U * n + U
  <2>1. size + U - 1 \in Nat
    BY <1>1
  <2> QED
    BY <1>1, <2>1, Quotient DEF SLOB_UNITS
<1> HIDE DEF n
<1>3. n >= 2
  <2>1. n <= 1 => U * n <= U
    BY <1>1, <1>2
  <2> QED
    BY <1>1, <1>2, <2>1
<1>4. n <= perpage
  <2>1. n >= perpage + 1 => U * n >= U * perpage + U
    BY <1>1, <1>2
  <2> QED
    BY <1>1, <1>2, <2>1
<1>5. n * U >= size
  BY <1>1, <1>2
<1> QED
  BY <1>2, <1>3, <1>4, <1>5 DEF n

\* A page has perpage units.
LEMMA PageSize == SLOB_UNITS(PGSIZE) = perpage
<1> DEFINE U == SLOB_UNIT
           n == SLOB_UNITS(PGSIZE)
<1>1. U \in Nat /\ U > 0 /\ PGSIZE = U * perpage /\ perpage \in Nat /\ PGSIZE \in Nat /\ PGSIZE > 0
  BY AddrFacts, SlobAssumption
<1>2. n \in Nat /\ U * n <= PGSIZE + U - 1 /\ PGSIZE + U - 1 < U * n + U
  <2>1. PGSIZE + U - 1 \in Nat
    BY <1>1
  <2> QED
    BY <1>1, <2>1, Quotient DEF SLOB_UNITS
<1> HIDE DEF n
<1>3. n >= perpage + 1 => U * n >= U * perpage + U
  BY <1>1, <1>2
<1>4. n + 1 <= perpage => U * n + U <= U * perpage
  BY <1>1, <1>2
<1> QED
  BY <1>1, <1>2, <1>3, <1>4 DEF n

\* A unit is on one page, and a run of pages is a range of units.
LEMMA PageFacts ==
  ASSUME NEW p \in Nat
  PROVE  /\ p * perpage \in Nat /\ (p * perpage) % perpage = 0
         /\ p * perpage \in on_page(p)
         /\ \A q \in Nat : \A x \in on_page(p) : x \in on_page(q) => q = p
<1>1. perpage \in Nat /\ perpage > 0
  BY AddrFacts
<1> HIDE DEF perpage
<1>2. p * perpage \in Nat
  BY <1>1
<1>3. (p * perpage) % perpage = 0
  <2>1. (p * perpage) \div perpage = p
    BY <1>1
  <2> QED
    BY <1>1, <1>2, <2>1
<1>4. p * perpage \in on_page(p)
  BY <1>1, <1>2 DEF on_page, unit_range
<1>5. ASSUME NEW q \in Nat, NEW x \in on_page(p), x \in on_page(q) PROVE q = p
  <2>1. q * perpage \in Nat
    BY <1>1
  <2>2. /\ x \in Int /\ p * perpage <= x /\ x < p * perpage + perpage
        /\ q * perpage <= x /\ x < q * perpage + perpage
    BY <1>1, <1>2, <1>5, <2>1 DEF on_page, unit_range
  <2>3. p >= q + 1 => p * perpage >= q * perpage + perpage
    BY <1>1
  <2>4. q >= p + 1 => q * perpage >= p * perpage + perpage
    BY <1>1
  <2> QED
    BY <1>1, <1>2, <2>1, <2>2, <2>3, <2>4
<1> QED
  BY <1>2, <1>3, <1>4, <1>5

\* The units of a run of pages.
LEMMA RunFacts ==
  ASSUME NEW p \in Nat, NEW n \in Nat, n > 0
  PROVE  /\ unit_range(p * perpage, n * perpage) = UNION {on_page(q) : q \in p..(p + n - 1)}
         /\ \A q \in Nat : q * perpage \in unit_range(p * perpage, n * perpage) <=> q \in p..(p + n - 1)
<1> DEFINE k == perpage
           A == unit_range(p * perpage, n * perpage)
<1>1. k \in Nat /\ k > 0
  BY AddrFacts
<1> HIDE DEF k
<1>2. p * k \in Nat /\ n * k \in Nat /\ (p + n) * k = p * k + n * k
  BY <1>1
<1>3. \A x : x \in A <=> x \in Int /\ p * k <= x /\ x < (p + n) * k
  BY <1>2 DEF unit_range, k
<1> HIDE DEF A
<1>4. ASSUME NEW q \in Nat
      PROVE  /\ q * k \in Nat
             /\ \A x : x \in on_page(q) <=> x \in Int /\ q * k <= x /\ x < q * k + k
             /\ q >= p => q * k >= p * k
             /\ q < p => q * k + k <= p * k
             /\ q <= p + n - 1 => q * k + k <= (p + n) * k
             /\ q > p + n - 1 => q * k >= (p + n) * k
  <2>1. q * k \in Nat
    BY <1>1
  <2>2. \A x : x \in on_page(q) <=> x \in Int /\ q * k <= x /\ x < q * k + k
    BY <1>1, <2>1 DEF on_page, unit_range, k
  <2>3. q >= p => q * k >= p * k
    BY <1>1
  <2>4. q < p => q * k + k <= p * k
    <3>1. q < p => (q + 1) * k <= p * k
      BY <1>1
    <3> QED
      BY <1>1, <3>1
  <2>5. q <= p + n - 1 => q * k + k <= (p + n) * k
    <3>1. q + 1 <= p + n => (q + 1) * k <= (p + n) * k
      BY <1>1
    <3> QED
      BY <1>1, <3>1
  <2>6. q > p + n - 1 => q * k >= (p + n) * k
    BY <1>1
  <2> QED
    BY <2>1, <2>2, <2>3, <2>4, <2>5, <2>6
<1>5. ASSUME NEW x \in A PROVE \E q \in p..(p + n - 1) : x \in on_page(q)
  <2>1. x \in Nat /\ p * k <= x /\ x < (p + n) * k
    BY <1>2, <1>3
  <2> DEFINE q == x \div k
  <2>2. q \in Nat /\ k * q <= x /\ x < k * q + k
    BY <1>1, <2>1, Quotient
  <2> HIDE DEF q
  <2>3. k * q = q * k
    BY <1>1, <2>2
  <2>4. x \in on_page(q)
    BY <1>4, <2>1, <2>2, <2>3
  <2>5. q \in p..(p + n - 1)
    <3>1. q * k \in Nat /\ (p + n) * k \in Nat
      BY <1>1, <2>2
    <3>2. ~(q < p)
      BY <1>1, <1>2, <1>4, <2>1, <2>2, <2>3, <3>1
    <3>3. ~(q > p + n - 1)
      BY <1>1, <1>2, <1>4, <2>1, <2>2, <2>3, <3>1
    <3> QED
      BY <2>2, <3>2, <3>3
  <2> QED
    BY <2>4, <2>5
<1>6. ASSUME NEW q \in p..(p + n - 1), NEW x \in on_page(q) PROVE x \in A
  <2>1. q \in Nat /\ q >= p /\ q <= p + n - 1
    OBVIOUS
  <2>2. q * k \in Nat /\ (p + n) * k \in Nat
    BY <1>1, <2>1
  <2> QED
    BY <1>1, <1>2, <1>3, <1>4, <2>1, <2>2
<1>7. A = UNION {on_page(q) : q \in p..(p + n - 1)}
  BY <1>5, <1>6
<1>8. ASSUME NEW q \in Nat PROVE q * k \in A <=> q \in p..(p + n - 1)
  <2>1. q * k \in Nat /\ (p + n) * k \in Nat
    BY <1>1
  <2>2. CASE q < p
    BY <1>1, <1>2, <1>3, <1>4, <2>1, <2>2
  <2>3. CASE q > p + n - 1
    BY <1>3, <1>4, <2>1, <2>3
  <2>4. CASE p <= q /\ q <= p + n - 1
    BY <1>1, <1>2, <1>3, <1>4, <2>1, <2>4
  <2> QED
    BY <2>2, <2>3, <2>4
<1> QED
  BY <1>7, <1>8 DEF A, k

-----------------------------------------------------------------------------
(* slob_alloc, with the page it may take. *)

\* The units of the page, if there is one.
PageUnits(page) == IF page = NULL THEN {} ELSE on_page(page)

\* h and block are what slob_alloc makes of s, with n units from those of W.
Given(s, W, n, h, block) ==
  /\ block \in Addr \ {arena} /\ unit_range(block, n) \subseteq W
  /\ h.units[block] = n
  /\ Elsewhere(s, h, W)
  /\ \E Q : FreeBlocks(h, Q) /\ Units(h.units, Q) = W \ unit_range(block, n)

LEMMA AllocGives ==
  ASSUME NEW P, FreeBlocks(heap, P), free \in SUBSET Page,
         \A p \in free : on_page(p) \cap Units(heap.units, P) = {},
         NEW size \in Nat, size > SLOB_UNIT, size + SLOB_UNIT <= PGSIZE,
         NEW page \in pages_for(heap, size)
  PROVE  LET a == slob_alloc(heap, size, page)
         IN  Given(heap, Units(heap.units, P) \cup PageUnits(page), SLOB_UNITS(size), a.heap, a.block)
<1> DEFINE n == SLOB_UNITS(size)
           W == Units(heap.units, P) \cup PageUnits(page)
<1>1. n \in Nat /\ n >= 2 /\ n <= perpage
  BY SizeUnits
<1> HIDE DEF n
<1>2. CASE page = NULL
  <2>1. \E a \in P : heap.units[a] >= n
    <3>1. has_room(heap, n)
      <4>1. \A p \in Page : p \in Nat
        BY DEF Page
      <4>2. NULL \notin Nat
        BY SlobAssumption
      <4>3. page \notin free
        BY <1>2, <4>1, <4>2
      <4> QED
        BY <4>3 DEF pages_for, n
    <3>2. ToSet(circle(heap)) = P
      BY CircleWalks
    <3> QED
      BY <3>1, <3>2 DEF has_room
  <2>2. Taken(heap, P, n, take(heap, n))
    BY <1>1, <2>1, TakeCuts
  <2>3. slob_alloc(heap, size, page) = take(heap, n)
    BY <1>2 DEF slob_alloc, n
  <2>4. W = Units(heap.units, P)
    BY <1>2 DEF PageUnits
  <2> DEFINE t == take(heap, n)
  <2> HIDE DEF t
  <2>5. Given(heap, W, n, t.heap, t.block)
    BY <2>2, <2>4 DEF Taken, Given, Elsewhere, t
  <2> QED
    BY <2>3, <2>5 DEF n, t
<1>3. CASE page # NULL
  <2> DEFINE b == page * perpage
             h == slob_free(heap, b, PGSIZE)
  <2>1. page \in free /\ page \in Nat /\ page \in Page
    <3>1. page \in free
      BY <1>3 DEF pages_for
    <3>2. \A p \in Page : p \in Nat
      BY DEF Page
    <3> QED
      BY <3>1, <3>2
  <2>2. W = Units(heap.units, P) \cup unit_range(b, perpage) /\ on_page(page) = unit_range(b, perpage)
    BY <1>3 DEF PageUnits, on_page
  <2>3. b \in unit_range(b, perpage) /\ unit_range(b, perpage) \subseteq Addr
    BY <2>1, <2>2, PageFacts DEF Addr
  <2>4. b # arena
    <3>1. b \in Nat /\ b >= perpage
      <4>1. perpage \in Nat /\ page >= 1
        BY <2>1, AddrFacts DEF Page
      <4> HIDE DEF perpage
      <4> QED
        BY <2>1, <4>1
    <3> QED
      BY <3>1, AddrFacts DEF arena
  <2> HIDE DEF b
  <2>5. perpage \in Nat \ {0}
    BY AddrFacts
  <2>6. Away(heap, P, b, perpage)
    BY <2>1, <2>2, <2>3, <2>4, <2>5 DEF Away
  <2>7. perpage = IF PGSIZE = 0 THEN heap.units[b] ELSE SLOB_UNITS(PGSIZE)
    BY PageSize, SlobAssumption
  <2>8. Freed(heap, P, b, perpage, h)
    BY <2>6, <2>7, FreePuts
  <2> HIDE DEF h
  <2>9. PICK Q : FreeBlocks(h, Q) /\ Units(h.units, Q) = W /\ \E a \in Q : h.units[a] >= perpage
    BY <2>2, <2>8 DEF Freed
  <2>10. \E a \in Q : h.units[a] >= n
    <3>1. PICK a \in Q : h.units[a] >= perpage
      BY <2>9
    <3>2. h.units[a] \in Nat
      BY <2>9, BlockFacts
    <3>3. h.units[a] >= n
      BY <1>1, <2>5, <3>1, <3>2
    <3> QED
      BY <3>3
  <2>11. Taken(h, Q, n, take(h, n))
    BY <1>1, <2>9, <2>10, TakeCuts
  <2>12. slob_alloc(heap, size, page) = take(h, n)
    BY <1>3 DEF slob_alloc, n, h, b
  <2> DEFINE t == take(h, n)
  <2> HIDE DEF t, W
  <2>13. Elsewhere(heap, h, W)
    BY <2>2, <2>8 DEF Freed
  <2>14. Given(heap, W, n, t.heap, t.block)
    BY <2>9, <2>11, <2>13 DEF Taken, Given, Elsewhere, t
  <2> QED
    BY <2>12, <2>14 DEF n, t, W
<1> QED
  BY <1>2, <1>3

-----------------------------------------------------------------------------
(* Who has a unit: the list, a free page, the object of a caller, or the record or the  *)
(* pages of a large object.                                                             *)

ListTag == <<"list", NULL>>
FreeTag == <<"free", NULL>>
ObjectTag(c) == <<"object", c>>
RecordTag(bb) == <<"record", bb>>
PagesTag(bb) == <<"pages", bb>>

Tags(bigs) ==
  {ListTag, FreeTag} \cup {ObjectTag(c) : c \in Client}
    \cup {RecordTag(bb) : bb \in bigs} \cup {PagesTag(bb) : bb \in bigs}

RecordUnits(bb) == unit_range(bb.at, SLOB_UNITS(BIGBLOCK))
LargeUnits(bb) == unit_range(bb.pages, 2 ^ bb.order * perpage)
FreeUnits(F) == UNION {on_page(p) : p \in F}

\* The units of X, and no others, have the owner t.
Has(own, t, X) == X \in SUBSET Addr /\ \A a \in Addr : own[a] = t <=> a \in X

\* own[a] is who has the unit a, when the list has those of L, alloc_pages the pages of F,
\* the caller c those of O[c], and bigs are the records of the large objects.
Owned(own, L, F, O, bigs) ==
  /\ own \in [Addr -> Tags(bigs)]
  /\ Has(own, ListTag, L)
  /\ Has(own, FreeTag, FreeUnits(F))
  /\ \A c \in Client : Has(own, ObjectTag(c), O[c])
  /\ \A bb \in bigs : Has(own, RecordTag(bb), RecordUnits(bb)) /\ Has(own, PagesTag(bb), LargeUnits(bb))

\* Every unit has one owner.
Shared(L, F, O, bigs) == \E own : Owned(own, L, F, O, bigs)

\* The owners are different.
LEMMA TagFacts ==
  /\ ListTag # FreeTag
  /\ \A c : ObjectTag(c) # ListTag /\ ObjectTag(c) # FreeTag
  /\ \A b : /\ RecordTag(b) # ListTag /\ RecordTag(b) # FreeTag
            /\ PagesTag(b) # ListTag /\ PagesTag(b) # FreeTag
  /\ \A c, d : ObjectTag(c) = ObjectTag(d) => c = d
  /\ \A b, d : /\ RecordTag(b) = RecordTag(d) => b = d
               /\ PagesTag(b) = PagesTag(d) => b = d
               /\ RecordTag(b) # PagesTag(d)
  /\ \A c, b : ObjectTag(c) # RecordTag(b) /\ ObjectTag(c) # PagesTag(b)
BY DEF ListTag, FreeTag, ObjectTag, RecordTag, PagesTag

\* The units of S go to the owner t.
Move(own, S, t) == [a \in Addr |-> IF a \in S THEN t ELSE own[a]]

\* The units of S, some of those of s, Y, go to t, and the others keep their owners.
Moved(own, new, S, s, Y, t) ==
  /\ Has(new, s, Y \ S)
  /\ \A X : Has(own, t, X) => Has(new, t, X \cup S)
  /\ \A u, X : u # s /\ u # t /\ Has(own, u, X) => Has(new, u, X)
  /\ (\A a \in Addr : own[a] # t) => Has(new, t, S)
  /\ \A a \in Addr : new[a] = t \/ new[a] = own[a]

LEMMA MoveFacts ==
  ASSUME NEW own, NEW s, NEW t, s # t, NEW Y, Has(own, s, Y), NEW S \in SUBSET Y
  PROVE  Moved(own, Move(own, S, t), S, s, Y, t)
<1> DEFINE new == Move(own, S, t)
<1>1. S \in SUBSET Addr /\ \A a \in S : own[a] = s
  BY DEF Has
<1>2. \A a \in Addr : new[a] = IF a \in S THEN t ELSE own[a]
  BY DEF Move
<1> HIDE DEF new
<1>3. Has(new, s, Y \ S)
  BY <1>1, <1>2 DEF Has
<1>4. ASSUME NEW X, Has(own, t, X) PROVE Has(new, t, X \cup S)
  BY <1>1, <1>2, <1>4 DEF Has
<1>5. ASSUME NEW u, NEW X, u # s, u # t, Has(own, u, X) PROVE Has(new, u, X)
  BY <1>1, <1>2, <1>5 DEF Has
<1>6. (\A a \in Addr : own[a] # t) => Has(new, t, S)
  BY <1>1, <1>2 DEF Has
<1>7. \A a \in Addr : new[a] = t \/ new[a] = own[a]
  BY <1>2
<1>8. Moved(own, new, S, s, Y, t)
  BY <1>3, <1>4, <1>5, <1>6, <1>7 DEF Moved
<1> QED
  BY <1>8 DEF new

\* What has different owners has no unit in common.
LEMMA HasApart ==
  ASSUME NEW own, NEW s, NEW t, s # t, NEW X, NEW Y, Has(own, s, X), Has(own, t, Y)
  PROVE  X \cap Y = {}
BY DEF Has

\* Nobody else has what the list, a free page, or a caller has.
LEMMA SharedApart ==
  ASSUME NEW L, NEW F, NEW O, NEW bigs, Shared(L, F, O, bigs)
  PROVE  /\ L \in SUBSET Addr /\ \A p \in F : on_page(p) \in SUBSET Addr /\ on_page(p) \cap L = {}
         /\ \A c \in Client : /\ O[c] \in SUBSET Addr /\ O[c] \cap L = {}
                              /\ \A p \in F : O[c] \cap on_page(p) = {}
                              /\ \A d \in Client : c # d => O[c] \cap O[d] = {}
                              /\ \A bb \in bigs : O[c] \cap RecordUnits(bb) = {} /\ O[c] \cap LargeUnits(bb) = {}
         /\ \A bb \in bigs : /\ RecordUnits(bb) \in SUBSET Addr /\ RecordUnits(bb) \cap L = {}
                             /\ LargeUnits(bb) \in SUBSET Addr
                             /\ RecordUnits(bb) \cap LargeUnits(bb) = {}
                             /\ \A p \in F : LargeUnits(bb) \cap on_page(p) = {}
                             /\ \A cc \in bigs : bb # cc => /\ RecordUnits(bb) \cap RecordUnits(cc) = {}
                                                            /\ LargeUnits(bb) \cap LargeUnits(cc) = {}
<1>1. PICK own : Owned(own, L, F, O, bigs)
  BY DEF Shared
<1>2. /\ Has(own, ListTag, L) /\ Has(own, FreeTag, FreeUnits(F))
      /\ \A c \in Client : Has(own, ObjectTag(c), O[c])
      /\ \A bb \in bigs : Has(own, RecordTag(bb), RecordUnits(bb)) /\ Has(own, PagesTag(bb), LargeUnits(bb))
  BY <1>1 DEF Owned
<1>3. \A t, X : Has(own, t, X) => X \in SUBSET Addr
  BY DEF Has
<1>4. \A p \in F : on_page(p) \subseteq FreeUnits(F)
  BY DEF FreeUnits
<1>5. ASSUME NEW p \in F PROVE on_page(p) \in SUBSET Addr /\ on_page(p) \cap L = {}
  <2>1. FreeUnits(F) \cap L = {} /\ FreeUnits(F) \in SUBSET Addr
    BY <1>2, <1>3, HasApart, TagFacts
  <2> QED
    BY <1>4, <2>1
<1>6. ASSUME NEW c \in Client
      PROVE  /\ O[c] \in SUBSET Addr /\ O[c] \cap L = {}
             /\ \A p \in F : O[c] \cap on_page(p) = {}
             /\ \A d \in Client : c # d => O[c] \cap O[d] = {}
             /\ \A bb \in bigs : O[c] \cap RecordUnits(bb) = {} /\ O[c] \cap LargeUnits(bb) = {}
  <2>1. O[c] \in SUBSET Addr /\ O[c] \cap L = {} /\ O[c] \cap FreeUnits(F) = {}
    BY <1>2, <1>3, HasApart, TagFacts
  <2>2. ASSUME NEW d \in Client, c # d PROVE O[c] \cap O[d] = {}
    <3>1. ObjectTag(c) # ObjectTag(d)
      BY <2>2, TagFacts
    <3> QED
      BY <1>2, <3>1, HasApart
  <2>3. \A bb \in bigs : O[c] \cap RecordUnits(bb) = {} /\ O[c] \cap LargeUnits(bb) = {}
    BY <1>2, HasApart, TagFacts
  <2> QED
    BY <1>4, <2>1, <2>2, <2>3
<1>7. ASSUME NEW bb \in bigs
      PROVE  /\ RecordUnits(bb) \in SUBSET Addr /\ RecordUnits(bb) \cap L = {}
             /\ LargeUnits(bb) \in SUBSET Addr
             /\ RecordUnits(bb) \cap LargeUnits(bb) = {}
             /\ \A p \in F : LargeUnits(bb) \cap on_page(p) = {}
             /\ \A cc \in bigs : bb # cc => /\ RecordUnits(bb) \cap RecordUnits(cc) = {}
                                            /\ LargeUnits(bb) \cap LargeUnits(cc) = {}
  <2>1. /\ RecordUnits(bb) \in SUBSET Addr /\ RecordUnits(bb) \cap L = {}
        /\ LargeUnits(bb) \in SUBSET Addr /\ RecordUnits(bb) \cap LargeUnits(bb) = {}
    BY <1>2, <1>3, HasApart, TagFacts
  <2>2. LargeUnits(bb) \cap FreeUnits(F) = {}
    BY <1>2, HasApart, TagFacts
  <2>3. ASSUME NEW cc \in bigs, bb # cc
        PROVE  RecordUnits(bb) \cap RecordUnits(cc) = {} /\ LargeUnits(bb) \cap LargeUnits(cc) = {}
    <3>1. RecordTag(bb) # RecordTag(cc) /\ PagesTag(bb) # PagesTag(cc)
      BY <2>3, TagFacts
    <3> QED
      BY <1>2, <3>1, HasApart
  <2> QED
    BY <1>4, <2>1, <2>2, <2>3
<1> QED
  BY <1>2, <1>3, <1>5, <1>6, <1>7

\* The units of other pages.
LEMMA FreeUnitsLess ==
  ASSUME NEW F \in SUBSET Nat, NEW Q \in SUBSET F
  PROVE  FreeUnits(F \ Q) = FreeUnits(F) \ FreeUnits(Q) /\ FreeUnits(Q) \subseteq FreeUnits(F)
<1>1. \A p, q \in F : \A x \in on_page(p) : x \in on_page(q) => q = p
  BY PageFacts
<1> QED
  BY <1>1 DEF FreeUnits

\* A free page goes onto the list.
LEMMA PageToList ==
  ASSUME NEW L, NEW F \in SUBSET Nat, NEW O, NEW bigs, Shared(L, F, O, bigs), NEW p \in F
  PROVE  Shared(L \cup on_page(p), F \ {p}, O, bigs)
<1>1. PICK own : Owned(own, L, F, O, bigs)
  BY DEF Shared
<1> DEFINE S == on_page(p)
           new == Move(own, S, ListTag)
<1>2. FreeUnits(F \ {p}) = FreeUnits(F) \ S /\ S \subseteq FreeUnits(F)
  <2>1. FreeUnits({p}) = S
    BY DEF FreeUnits
  <2> QED
    BY <2>1, FreeUnitsLess
<1>3. Has(own, FreeTag, FreeUnits(F)) /\ Has(own, ListTag, L)
  BY <1>1 DEF Owned
<1> HIDE DEF S, new
<1>4. /\ Has(new, FreeTag, FreeUnits(F) \ S) /\ Has(new, ListTag, L \cup S)
      /\ \A u, X : u # FreeTag /\ u # ListTag /\ Has(own, u, X) => Has(new, u, X)
      /\ \A a \in Addr : new[a] = ListTag \/ new[a] = own[a]
  <2>1. FreeTag # ListTag /\ S \in SUBSET FreeUnits(F)
    BY <1>2, TagFacts
  <2>2. Moved(own, new, S, FreeTag, FreeUnits(F), ListTag)
    BY <1>3, <2>1, MoveFacts DEF new
  <2> QED
    BY <1>3, <2>2 DEF Moved
<1>5. new \in [Addr -> Tags(bigs)]
  <2>1. own \in [Addr -> Tags(bigs)] /\ ListTag \in Tags(bigs)
    BY <1>1 DEF Owned, Tags
  <2>2. \A a \in Addr : new[a] \in Tags(bigs)
    BY <1>4, <2>1
  <2>3. new = [a \in Addr |-> new[a]]
    BY DEF new, Move
  <2> QED
    BY <2>2, <2>3
<1>6. /\ \A c \in Client : Has(new, ObjectTag(c), O[c])
      /\ \A bb \in bigs : Has(new, RecordTag(bb), RecordUnits(bb)) /\ Has(new, PagesTag(bb), LargeUnits(bb))
  BY <1>1, <1>4, TagFacts DEF Owned
<1>7. Owned(new, L \cup S, F \ {p}, O, bigs)
  BY <1>2, <1>4, <1>5, <1>6 DEF Owned
<1> QED
  BY <1>7 DEF Shared, S

\* Units of the list become the object of a caller who has none.
LEMMA ListToObject ==
  ASSUME NEW L, NEW F, NEW O, NEW bigs, Shared(L, F, O, bigs), NEW c \in Client, O[c] = {},
         O = [d \in Client |-> O[d]], NEW S \in SUBSET L
  PROVE  Shared(L \ S, F, [O EXCEPT ![c] = S], bigs)
<1>1. PICK own : Owned(own, L, F, O, bigs)
  BY DEF Shared
<1> DEFINE new == Move(own, S, ObjectTag(c))
           N == [O EXCEPT ![c] = S]
<1>2. Has(own, ListTag, L) /\ Has(own, ObjectTag(c), {})
  BY <1>1 DEF Owned
<1>3. N[c] = S /\ \A d \in Client : d # c => N[d] = O[d]
  OBVIOUS
<1> HIDE DEF new, N
<1>4. \A a \in Addr : own[a] # ObjectTag(c)
  BY <1>2 DEF Has
<1>5. /\ Has(new, ListTag, L \ S) /\ Has(new, ObjectTag(c), S)
      /\ \A u, X : u # ListTag /\ u # ObjectTag(c) /\ Has(own, u, X) => Has(new, u, X)
      /\ \A a \in Addr : new[a] = ObjectTag(c) \/ new[a] = own[a]
  <2>1. ListTag # ObjectTag(c)
    BY TagFacts
  <2>2. Moved(own, new, S, ListTag, L, ObjectTag(c))
    BY <1>2, <2>1, MoveFacts DEF new
  <2> QED
    BY <1>4, <2>2 DEF Moved
<1>6. new \in [Addr -> Tags(bigs)]
  <2>1. own \in [Addr -> Tags(bigs)] /\ ObjectTag(c) \in Tags(bigs)
    BY <1>1 DEF Owned, Tags
  <2>2. \A a \in Addr : new[a] \in Tags(bigs)
    BY <1>5, <2>1
  <2>3. new = [a \in Addr |-> new[a]]
    BY DEF new, Move
  <2> QED
    BY <2>2, <2>3
<1>7. \A d \in Client : Has(new, ObjectTag(d), N[d])
  <2>1. ASSUME NEW d \in Client, d # c PROVE Has(new, ObjectTag(d), N[d])
    <3>1. ObjectTag(d) # ListTag /\ ObjectTag(d) # ObjectTag(c)
      BY <2>1, TagFacts
    <3>2. Has(own, ObjectTag(d), O[d])
      BY <1>1 DEF Owned
    <3> QED
      BY <1>3, <1>5, <2>1, <3>1, <3>2
  <2> QED
    BY <1>3, <1>5, <2>1
<1>8. /\ Has(new, FreeTag, FreeUnits(F))
      /\ \A bb \in bigs : Has(new, RecordTag(bb), RecordUnits(bb)) /\ Has(new, PagesTag(bb), LargeUnits(bb))
  BY <1>1, <1>5, TagFacts DEF Owned
<1>9. Owned(new, L \ S, F, N, bigs)
  BY <1>5, <1>6, <1>7, <1>8 DEF Owned
<1> QED
  BY <1>9 DEF Shared, N

\* The object of a caller goes onto the list.
LEMMA ObjectToList ==
  ASSUME NEW L, NEW F, NEW O, NEW bigs, Shared(L, F, O, bigs), NEW c \in Client,
         O = [d \in Client |-> O[d]]
  PROVE  Shared(L \cup O[c], F, [O EXCEPT ![c] = {}], bigs)
<1>1. PICK own : Owned(own, L, F, O, bigs)
  BY DEF Shared
<1> DEFINE S == O[c]
           new == Move(own, S, ListTag)
           N == [O EXCEPT ![c] = {}]
<1>2. Has(own, ListTag, L) /\ Has(own, ObjectTag(c), S)
  BY <1>1 DEF Owned
<1>3. N[c] = {} /\ \A d \in Client : d # c => N[d] = O[d]
  OBVIOUS
<1> HIDE DEF new, N, S
<1>4. /\ Has(new, ListTag, L \cup S) /\ Has(new, ObjectTag(c), S \ S)
      /\ \A u, X : u # ListTag /\ u # ObjectTag(c) /\ Has(own, u, X) => Has(new, u, X)
      /\ \A a \in Addr : new[a] = ListTag \/ new[a] = own[a]
  <2>1. ListTag # ObjectTag(c)
    BY TagFacts
  <2>2. Moved(own, new, S, ObjectTag(c), S, ListTag)
    BY <1>2, <2>1, MoveFacts DEF new
  <2> QED
    BY <1>2, <2>2 DEF Moved
<1>5. S \ S = {}
  OBVIOUS
<1>6. new \in [Addr -> Tags(bigs)]
  <2>1. own \in [Addr -> Tags(bigs)] /\ ListTag \in Tags(bigs)
    BY <1>1 DEF Owned, Tags
  <2>2. \A a \in Addr : new[a] \in Tags(bigs)
    BY <1>4, <2>1
  <2>3. new = [a \in Addr |-> new[a]]
    BY DEF new, Move
  <2> QED
    BY <2>2, <2>3
<1>7. \A d \in Client : Has(new, ObjectTag(d), N[d])
  <2>1. ASSUME NEW d \in Client, d # c PROVE Has(new, ObjectTag(d), N[d])
    <3>1. ObjectTag(d) # ListTag /\ ObjectTag(d) # ObjectTag(c)
      BY <2>1, TagFacts
    <3>2. Has(own, ObjectTag(d), O[d])
      BY <1>1 DEF Owned
    <3> QED
      BY <1>3, <1>4, <2>1, <3>1, <3>2
  <2>2. Has(new, ObjectTag(c), N[c])
    BY <1>3, <1>4, <1>5
  <2> QED
    BY <2>1, <2>2
<1>8. /\ Has(new, FreeTag, FreeUnits(F))
      /\ \A bb \in bigs : Has(new, RecordTag(bb), RecordUnits(bb)) /\ Has(new, PagesTag(bb), LargeUnits(bb))
  BY <1>1, <1>4, TagFacts DEF Owned
<1>9. Owned(new, L \cup S, F, N, bigs)
  BY <1>4, <1>6, <1>7, <1>8 DEF Owned
<1> QED
  BY <1>9 DEF Shared, N, S

\* Units of the list become a record, and the pages of Q the large object.
LEMMA ToLarge ==
  ASSUME NEW L, NEW F \in SUBSET Nat, NEW O, NEW bigs, Shared(L, F, O, bigs),
         NEW bb, bb \notin bigs, RecordUnits(bb) \subseteq L,
         NEW Q \in SUBSET F, LargeUnits(bb) = FreeUnits(Q)
  PROVE  Shared(L \ RecordUnits(bb), F \ Q, O, bigs \cup {bb})
<1>1. PICK own : Owned(own, L, F, O, bigs)
  BY DEF Shared
<1> DEFINE S == RecordUnits(bb)
           T == LargeUnits(bb)
           mid == Move(own, S, RecordTag(bb))
           new == Move(mid, T, PagesTag(bb))
<1>2. /\ own \in [Addr -> Tags(bigs)]
      /\ Has(own, ListTag, L) /\ Has(own, FreeTag, FreeUnits(F))
      /\ \A c \in Client : Has(own, ObjectTag(c), O[c])
      /\ \A b \in bigs : Has(own, RecordTag(b), RecordUnits(b)) /\ Has(own, PagesTag(b), LargeUnits(b))
  BY <1>1 DEF Owned
<1>3. T \subseteq FreeUnits(F) /\ FreeUnits(F \ Q) = FreeUnits(F) \ T
  <2>1. FreeUnits(F \ Q) = FreeUnits(F) \ FreeUnits(Q) /\ FreeUnits(Q) \subseteq FreeUnits(F)
    BY FreeUnitsLess
  <2> QED
    BY <2>1
<1>4. \A a \in Addr : own[a] # RecordTag(bb) /\ own[a] # PagesTag(bb)
  <2>1. RecordTag(bb) \notin Tags(bigs) /\ PagesTag(bb) \notin Tags(bigs)
    BY TagFacts DEF Tags
  <2> QED
    BY <1>2, <2>1
<1> HIDE DEF S, T, mid, new
<1>5. /\ Has(mid, ListTag, L \ S) /\ Has(mid, RecordTag(bb), S)
      /\ \A u, X : u # ListTag /\ u # RecordTag(bb) /\ Has(own, u, X) => Has(mid, u, X)
      /\ \A a \in Addr : mid[a] = RecordTag(bb) \/ mid[a] = own[a]
  <2>1. S \in SUBSET L
    BY DEF S
  <2>2. ListTag # RecordTag(bb)
    BY TagFacts
  <2>3. Moved(own, mid, S, ListTag, L, RecordTag(bb))
    BY <1>2, <2>1, <2>2, MoveFacts DEF mid
  <2> QED
    BY <1>4, <2>3 DEF Moved
<1>6. Has(mid, FreeTag, FreeUnits(F)) /\ \A a \in Addr : mid[a] # PagesTag(bb)
  BY <1>2, <1>4, <1>5, TagFacts
<1>7. /\ Has(new, FreeTag, FreeUnits(F) \ T) /\ Has(new, PagesTag(bb), T)
      /\ \A u, X : u # FreeTag /\ u # PagesTag(bb) /\ Has(mid, u, X) => Has(new, u, X)
      /\ \A a \in Addr : new[a] = PagesTag(bb) \/ new[a] = mid[a]
  <2>1. T \in SUBSET FreeUnits(F)
    BY <1>3
  <2>2. FreeTag # PagesTag(bb)
    BY TagFacts
  <2>3. Moved(mid, new, T, FreeTag, FreeUnits(F), PagesTag(bb))
    BY <1>6, <2>1, <2>2, MoveFacts DEF new
  <2> QED
    BY <1>6, <2>3 DEF Moved
<1>8. new \in [Addr -> Tags(bigs \cup {bb})]
  <2>1. Tags(bigs) \subseteq Tags(bigs \cup {bb}) /\ RecordTag(bb) \in Tags(bigs \cup {bb}) /\ PagesTag(bb) \in Tags(bigs \cup {bb})
    BY DEF Tags
  <2>2. \A a \in Addr : new[a] \in Tags(bigs \cup {bb})
    BY <1>2, <1>5, <1>7, <2>1
  <2>3. new = [a \in Addr |-> new[a]]
    BY DEF new, Move
  <2> QED
    BY <2>2, <2>3
<1>9. Has(new, ListTag, L \ S) /\ Has(new, RecordTag(bb), S)
  BY <1>5, <1>7, TagFacts
<1>10. \A c \in Client : Has(new, ObjectTag(c), O[c])
  BY <1>2, <1>5, <1>7, TagFacts
<1>11. ASSUME NEW b \in bigs PROVE Has(new, RecordTag(b), RecordUnits(b)) /\ Has(new, PagesTag(b), LargeUnits(b))
  <2>1. RecordTag(b) # RecordTag(bb) /\ PagesTag(b) # PagesTag(bb)
    BY TagFacts
  <2>2. Has(mid, RecordTag(b), RecordUnits(b)) /\ Has(mid, PagesTag(b), LargeUnits(b))
    BY <1>2, <1>5, <2>1, TagFacts
  <2> QED
    BY <1>7, <2>1, <2>2, TagFacts
<1>12. Owned(new, L \ S, F \ Q, O, bigs \cup {bb})
  BY <1>3, <1>7, <1>8, <1>9, <1>10, <1>11 DEF Owned, S, T
<1> QED
  BY <1>12 DEF Shared, S

\* A record goes onto the list, and the pages of its object, Q, are free.
LEMMA FromLarge ==
  ASSUME NEW L, NEW F, NEW O, NEW bigs, Shared(L, F, O, bigs),
         NEW bb \in bigs, NEW Q, LargeUnits(bb) = FreeUnits(Q)
  PROVE  Shared(L \cup RecordUnits(bb), F \cup Q, O, bigs \ {bb})
<1>1. PICK own : Owned(own, L, F, O, bigs)
  BY DEF Shared
<1> DEFINE S == RecordUnits(bb)
           T == LargeUnits(bb)
           mid == Move(own, S, ListTag)
           new == Move(mid, T, FreeTag)
<1>2. /\ own \in [Addr -> Tags(bigs)]
      /\ Has(own, ListTag, L) /\ Has(own, FreeTag, FreeUnits(F))
      /\ \A c \in Client : Has(own, ObjectTag(c), O[c])
      /\ \A b \in bigs : Has(own, RecordTag(b), RecordUnits(b)) /\ Has(own, PagesTag(b), LargeUnits(b))
  BY <1>1 DEF Owned
<1>3. FreeUnits(F \cup Q) = FreeUnits(F) \cup T
  BY DEF FreeUnits
<1> HIDE DEF S, T, mid, new
<1>4. /\ Has(mid, ListTag, L \cup S) /\ Has(mid, RecordTag(bb), S \ S)
      /\ \A u, X : u # ListTag /\ u # RecordTag(bb) /\ Has(own, u, X) => Has(mid, u, X)
      /\ \A a \in Addr : mid[a] = ListTag \/ mid[a] = own[a]
  <2>1. Has(own, RecordTag(bb), S) /\ RecordTag(bb) # ListTag
    BY <1>2, TagFacts DEF S
  <2>2. Moved(own, mid, S, RecordTag(bb), S, ListTag)
    BY <2>1, MoveFacts DEF mid
  <2> QED
    BY <1>2, <2>2 DEF Moved
<1>5. Has(mid, FreeTag, FreeUnits(F)) /\ Has(mid, PagesTag(bb), T)
  BY <1>2, <1>4, TagFacts DEF T
<1>6. /\ Has(new, FreeTag, FreeUnits(F) \cup T) /\ Has(new, PagesTag(bb), T \ T)
      /\ \A u, X : u # FreeTag /\ u # PagesTag(bb) /\ Has(mid, u, X) => Has(new, u, X)
      /\ \A a \in Addr : new[a] = FreeTag \/ new[a] = mid[a]
  <2>1. PagesTag(bb) # FreeTag
    BY TagFacts
  <2>2. Moved(mid, new, T, PagesTag(bb), T, FreeTag)
    BY <1>5, <2>1, MoveFacts DEF new
  <2> QED
    BY <1>5, <2>2 DEF Moved
<1>7. Has(new, ListTag, L \cup S) /\ Has(new, RecordTag(bb), S \ S)
  BY <1>4, <1>6, TagFacts
<1>8. \A a \in Addr : new[a] # RecordTag(bb) /\ new[a] # PagesTag(bb)
  BY <1>6, <1>7 DEF Has
<1>9. new \in [Addr -> Tags(bigs \ {bb})]
  <2>1. ASSUME NEW a \in Addr PROVE new[a] \in Tags(bigs \ {bb})
    <3>1. new[a] \in Tags(bigs)
      BY <1>2, <1>4, <1>6 DEF Tags
    <3> QED
      BY <1>8, <3>1 DEF Tags
  <2>2. new = [a \in Addr |-> new[a]]
    BY DEF new, Move
  <2> QED
    BY <2>1, <2>2
<1>10. \A c \in Client : Has(new, ObjectTag(c), O[c])
  BY <1>2, <1>4, <1>6, TagFacts
<1>11. ASSUME NEW b \in bigs \ {bb}
       PROVE  Has(new, RecordTag(b), RecordUnits(b)) /\ Has(new, PagesTag(b), LargeUnits(b))
  <2>1. RecordTag(b) # RecordTag(bb) /\ PagesTag(b) # PagesTag(bb)
    BY TagFacts
  <2>2. Has(mid, RecordTag(b), RecordUnits(b)) /\ Has(mid, PagesTag(b), LargeUnits(b))
    BY <1>2, <1>4, <2>1, TagFacts
  <2> QED
    BY <1>6, <2>1, <2>2, TagFacts
<1>12. Owned(new, L \cup S, F \cup Q, O, bigs \ {bb})
  BY <1>3, <1>6, <1>7, <1>9, <1>10, <1>11 DEF Owned
<1> QED
  BY <1>12 DEF Shared, S

-----------------------------------------------------------------------------
(* The inductive invariant, of a state with the heap hp, the free pages fr and the blocks *)
(* gt of the callers.                                                                     *)

\* A large object begins at the unit block.
Large_at(hp, block) == \E bb \in ToSet(hp.bigblocks) : bb.pages = block

\* The units of a small object, with its head.
ObjectUnits(hp, g) ==
  IF g = none \/ Large_at(hp, g.block) THEN {} ELSE unit_range(g.block - 1, hp.units[g.block - 1])

Objects(hp, gt) == [c \in Client |-> ObjectUnits(hp, gt[c])]

\* Every unit has one owner, and the list is a circle.
MemoryInv(hp, fr, O) ==
  /\ fr \in SUBSET Page
  /\ IsInjective(hp.bigblocks)
  /\ \A bb \in ToSet(hp.bigblocks) : \E p \in Page : bb.pages = p * perpage
  /\ \E P : FreeBlocks(hp, P) /\ Shared(Units(hp.units, P), fr, O, ToSet(hp.bigblocks))

\* A small object has a head that says how long it is, a large one a record with its order.
Caller(hp, g) ==
  IF Large_at(hp, g.block)
  THEN \E bb \in ToSet(hp.bigblocks) : bb.pages = g.block /\ bb.order = find_order(g.size)
  ELSE /\ hp.units[g.block - 1] = SLOB_UNITS(g.size + SLOB_UNIT)
       /\ g.size + SLOB_UNIT + SLOB_UNIT < PGSIZE

\* Two callers do not have the same large object.
CallersInv(hp, gt) ==
  /\ gt \in [Client -> {none} \cup [block : Addr, size : Size]]
  /\ \A c \in Client : gt[c] # none => Caller(hp, gt[c])
  /\ \A c, d \in Client :
        c # d /\ gt[c] # none /\ gt[d] # none /\ Large_at(hp, gt[c].block) => gt[c].block # gt[d].block

InvOf(hp, fr, gt) == MemoryInv(hp, fr, Objects(hp, gt)) /\ CallersInv(hp, gt)

IInv == InvOf(heap, free, got)

\* Nobody with a block has none.
LEMMA NoneFacts ==
  \A g \in {none} \cup [block : Addr, size : Size] :
     g # none => g.block \in Addr /\ g.block \in Nat /\ g.size \in Size /\ g.size \in Nat /\ g.size > 0
<1>1. \A a \in Addr : a \in Nat
  BY AddrFacts
<1>2. \A size \in Size : size \in Nat /\ size > 0
  BY SlobAssumption
<1> SUFFICES ASSUME NEW g \in [block : Addr, size : Size]
             PROVE  g.block \in Addr /\ g.size \in Size
  BY <1>1, <1>2
<1> QED
  OBVIOUS

\* Who has no block is not one with a block.
LEMMA SomeBlock ==
  ASSUME NEW block \in Addr, NEW size \in Size
  PROVE  [block |-> block, size |-> size] \in [block : Addr, size : Size]
         /\ [block |-> block, size |-> size] # none
<1>1. size # 0
  BY SlobAssumption
<1> QED
  BY <1>1 DEF none

\* The records, as a sequence and as a set.
LEMMA RecordFacts ==
  ASSUME NEW hp, hp \in Slobs
  PROVE  /\ hp.bigblocks \in Seq(Record) /\ ToSet(hp.bigblocks) \in SUBSET Record
         /\ ToSet(hp.bigblocks) = Range(hp.bigblocks)
<1>1. hp.bigblocks \in Seq(Record)
  BY DEF Slobs
<1>2. DOMAIN hp.bigblocks = 1..Len(hp.bigblocks) /\ \A i \in 1..Len(hp.bigblocks) : hp.bigblocks[i] \in Record
  BY <1>1, LenProperties, ElementOfSeq
<1> QED
  BY <1>1, <1>2 DEF ToSet, Range

\* The units of the record of a large object, and of its pages.
LEMMA LargeFacts ==
  ASSUME NEW bb \in Record, NEW p \in Page, bb.pages = p * perpage
  PROVE  LET Q == p..(p + 2 ^ bb.order - 1)
         IN  /\ Q \in SUBSET Nat
             /\ LargeUnits(bb) = FreeUnits(Q) /\ bb.pages \in LargeUnits(bb)
             /\ bb.pages \in Nat /\ bb.pages % perpage = 0
             /\ \A q \in Nat : q * perpage \in LargeUnits(bb) <=> q \in Q
             /\ bb.at \in Nat /\ bb.at \in RecordUnits(bb)
             /\ SLOB_UNITS(BIGBLOCK) \in Nat /\ SLOB_UNITS(BIGBLOCK) >= 2
<1> DEFINE n == 2 ^ bb.order
           Q == p..(p + n - 1)
<1>1. bb.order \in Nat /\ bb.at \in Nat /\ p \in Nat
  BY DEF Record, Page
<1>2. n \in Nat /\ n > 0
  BY <1>1, Powers
<1> HIDE DEF n
<1>3. Q \in SUBSET Nat
  BY <1>1, <1>2
<1>4. /\ unit_range(p * perpage, n * perpage) = UNION {on_page(q) : q \in Q}
      /\ \A q \in Nat : q * perpage \in unit_range(p * perpage, n * perpage) <=> q \in Q
  BY <1>1, <1>2, RunFacts
<1>5. LargeUnits(bb) = unit_range(p * perpage, n * perpage)
  BY DEF LargeUnits, n
<1>6. p \in Q
  BY <1>1, <1>2
<1>7. bb.pages \in Nat /\ bb.pages % perpage = 0
  BY <1>1, PageFacts
<1>8. SLOB_UNITS(BIGBLOCK) \in Nat /\ SLOB_UNITS(BIGBLOCK) >= 2
  BY SizeUnits, SlobAssumption
<1>9. bb.at \in RecordUnits(bb)
  BY <1>1, <1>8 DEF RecordUnits, unit_range
<1> HIDE DEF Q
<1> QED
  BY <1>1, <1>3, <1>4, <1>5, <1>6, <1>7, <1>8, <1>9 DEF FreeUnits, Q, n

\* The units of a small object: its head is the first of them, and what the caller got the
\* second one.
LEMMA SmallFacts ==
  ASSUME NEW hp, NEW fr, NEW gt, InvOf(hp, fr, gt), NEW c \in Client,
         gt[c] # none, ~Large_at(hp, gt[c].block)
  PROVE  LET b == gt[c].block - 1
             O == Objects(hp, gt)
         IN  /\ gt[c].size \in Nat /\ gt[c].size > 0 /\ gt[c].block \in Nat
             /\ b \in Nat /\ b \in O[c] /\ gt[c].block \in O[c] /\ O[c] \in SUBSET Addr
             /\ O[c] = unit_range(b, hp.units[b])
             /\ hp.units[b] = SLOB_UNITS(gt[c].size + SLOB_UNIT)
             /\ hp.units[b] \in Nat /\ hp.units[b] >= 2
             /\ gt[c].size + SLOB_UNIT + SLOB_UNIT < PGSIZE
<1> DEFINE b == gt[c].block - 1
           O == Objects(hp, gt)
           n == hp.units[b]
<1>1. gt[c] \in {none} \cup [block : Addr, size : Size] /\ Caller(hp, gt[c])
  BY DEF InvOf, CallersInv
<1>2. gt[c].block \in Nat /\ gt[c].size \in Nat /\ gt[c].size > 0
  BY <1>1, NoneFacts
<1>3. n = SLOB_UNITS(gt[c].size + SLOB_UNIT) /\ gt[c].size + SLOB_UNIT + SLOB_UNIT < PGSIZE
  BY <1>1 DEF Caller
<1>4. n \in Nat /\ n >= 2
  <2>1. gt[c].size + SLOB_UNIT \in Nat /\ gt[c].size + SLOB_UNIT > SLOB_UNIT
    BY <1>2, SlobAssumption
  <2>2. gt[c].size + SLOB_UNIT + SLOB_UNIT <= PGSIZE
    BY <1>2, <1>3, SlobAssumption
  <2> HIDE DEF n
  <2> QED
    BY <1>3, <2>1, <2>2, SizeUnits
<1>5. O[c] = unit_range(b, n)
  BY DEF Objects, ObjectUnits
<1>6. O[c] \in SUBSET Addr
  <2>1. PICK P : Shared(Units(hp.units, P), fr, O, ToSet(hp.bigblocks))
    BY DEF InvOf, MemoryInv
  <2> HIDE DEF O
  <2> QED
    BY <2>1, SharedApart
<1> HIDE DEF O, n
<1>7. b \in Int /\ b \in O[c] /\ gt[c].block \in O[c]
  BY <1>2, <1>4, <1>5 DEF unit_range
<1>8. b \in Nat
  BY <1>6, <1>7, AddrFacts
<1> QED
  BY <1>2, <1>3, <1>4, <1>5, <1>6, <1>7, <1>8 DEF O, n

\* Only small objects have no record.
LEMMA RecordsOf ==
  ASSUME NEW block, MemoryInv(heap, free, Objects(heap, got))
  PROVE  records(block) = {} <=> ~Large_at(heap, block)
<1>1. ASSUME NEW bb \in ToSet(heap.bigblocks) PROVE bb.pages % perpage = 0
  <2>1. PICK p \in Page : bb.pages = p * perpage
    BY DEF MemoryInv
  <2> QED
    BY <2>1, PageFacts DEF Page
<1> QED
  BY <1>1 DEF records, Large_at

\* g is h but for its records and one unit.
ButFor(h, k, g) ==
  /\ g \in Slobs /\ g.next = h.next /\ g.slobfree = h.slobfree
  /\ \A a \in Addr : a # k => g.units[a] = h.units[a]

\* What is not on the list can change.
LEMMA FreeBlocksKept ==
  ASSUME NEW h, NEW P, FreeBlocks(h, P), NEW k, k \notin Units(h.units, P), NEW g, ButFor(h, k, g)
  PROVE  FreeBlocks(g, P) /\ Units(g.units, P) = Units(h.units, P)
<1>1. /\ P \in SUBSET Addr /\ P \in SUBSET Nat /\ arena \in P
      /\ \A a \in P : h.units[a] \in Nat /\ h.units[a] > 0
  BY BlockFacts
<1>2. ASSUME NEW a \in P PROVE g.units[a] = h.units[a]
  <2>1. a \in unit_range(a, h.units[a])
    BY <1>1 DEF unit_range
  <2>2. a # k
    BY <2>1 DEF Units
  <2> QED
    BY <1>1, <2>2 DEF ButFor
<1>3. Units(g.units, P) = Units(h.units, P)
  BY <1>2 DEF Units
<1>4. Blocks(g.units, P)
  <2>1. Blocks(h.units, P) /\ g.units \in [Addr -> Nat]
    BY DEF ButFor, FreeBlocks, Slobs
  <2> QED
    BY <1>1, <1>2, <2>1 DEF Blocks
<1> QED
  BY <1>3, <1>4 DEF ButFor, FreeBlocks

-----------------------------------------------------------------------------
(* The steps. *)

\* slob_alloc has given n units from block on, and the pages fr are left.
Cut(h, fr, O, bigs, block, n) ==
  /\ fr \in SUBSET Page /\ block \in Addr \ {arena} /\ h.units[block] = n
  /\ \E P, W : /\ FreeBlocks(h, P) /\ Shared(W, fr, O, bigs)
               /\ unit_range(block, n) \subseteq W /\ Units(h.units, P) = W \ unit_range(block, n)

\* The units of O, as the heap was and as it is now.
SameUnits(s, h, X) == \A a \in X : h.units[a] = s.units[a]
SameHeads(s, h, O) == \A c \in Client : SameUnits(s, h, O[c])

LEMMA AllocCuts ==
  ASSUME NEW O, MemoryInv(heap, free, O),
         NEW size \in Nat, size > SLOB_UNIT, size + SLOB_UNIT <= PGSIZE,
         NEW page \in pages_for(heap, size)
  PROVE  LET a == slob_alloc(heap, size, page)
         IN  /\ Cut(a.heap, free \ {page}, O, ToSet(heap.bigblocks), a.block, SLOB_UNITS(size))
             /\ a.heap.bigblocks = heap.bigblocks
             /\ SameHeads(heap, a.heap, O)
<1> DEFINE a == slob_alloc(heap, size, page)
           n == SLOB_UNITS(size)
           bigs == ToSet(heap.bigblocks)
<1>1. PICK P : FreeBlocks(heap, P) /\ Shared(Units(heap.units, P), free, O, bigs)
  BY DEF MemoryInv
<1> DEFINE W == Units(heap.units, P) \cup PageUnits(page)
           left == free \ {page}
<1>2. free \in SUBSET Page /\ free \in SUBSET Nat
  BY DEF MemoryInv, Page
<1>3. Given(heap, W, n, a.heap, a.block)
  <2>1. \A p \in free : on_page(p) \cap Units(heap.units, P) = {}
    BY <1>1, SharedApart
  <2> QED
    BY <1>1, <1>2, <2>1, AllocGives
<1> HIDE DEF a, n, bigs, W
<1>4. Shared(W, left, O, bigs)
  <2>1. CASE page = NULL
    <3>1. NULL \notin free
      BY <1>2, SlobAssumption
    <3>2. left = free /\ W = Units(heap.units, P)
      BY <2>1, <3>1 DEF PageUnits, W
    <3> QED
      BY <1>1, <3>2
  <2>2. CASE page # NULL
    <3>1. page \in free
      BY <2>2 DEF pages_for
    <3>2. W = Units(heap.units, P) \cup on_page(page)
      BY <2>2 DEF PageUnits, W
    <3> QED
      BY <1>1, <1>2, <3>1, <3>2, PageToList
  <2> QED
    BY <2>1, <2>2
<1>5. Cut(a.heap, left, O, bigs, a.block, n)
  BY <1>2, <1>3, <1>4 DEF Given, Cut
<1>6. SameHeads(heap, a.heap, O)
  <2>1. \A c \in Client : O[c] \in SUBSET Addr /\ O[c] \cap W = {}
    BY <1>4, SharedApart
  <2> QED
    BY <1>3, <2>1 DEF Given, Elsewhere, SameHeads, SameUnits
<1>7. a.heap.bigblocks = heap.bigblocks
  BY <1>3 DEF Given, Elsewhere
<1> QED
  BY <1>5, <1>6, <1>7 DEF a, n, bigs

\* The objects of who does nothing stay what they are, if their heads do and there are the
\* same large objects.
LEMMA SameObject ==
  ASSUME NEW hp, NEW fr, NEW gt, InvOf(hp, fr, gt), NEW h,
         NEW d \in Client, SameUnits(hp, h, Objects(hp, gt)[d]),
         gt[d] # none => (Large_at(h, gt[d].block) <=> Large_at(hp, gt[d].block))
  PROVE  ObjectUnits(h, gt[d]) = Objects(hp, gt)[d]
<1> DEFINE O == Objects(hp, gt)
<1>1. O[d] = ObjectUnits(hp, gt[d])
  BY DEF Objects
<1>2. CASE gt[d] = none \/ Large_at(hp, gt[d].block)
  BY <1>1, <1>2 DEF ObjectUnits
<1>3. CASE gt[d] # none /\ ~Large_at(hp, gt[d].block)
  <2> DEFINE b == gt[d].block - 1
  <2>1. b \in Objects(hp, gt)[d]
    BY <1>3, SmallFacts
  <2> HIDE DEF b
  <2>2. h.units[b] = hp.units[b]
    BY <2>1 DEF SameUnits
  <2> QED
    BY <1>1, <1>3, <2>2 DEF ObjectUnits, b
<1> QED
  BY <1>2, <1>3

\* So does what Caller says of them.
LEMMA SameCaller ==
  ASSUME NEW hp, NEW fr, NEW gt, InvOf(hp, fr, gt), NEW h,
         NEW d \in Client, SameUnits(hp, h, Objects(hp, gt)[d]), gt[d] # none, ~Large_at(hp, gt[d].block), ~Large_at(h, gt[d].block)
  PROVE  Caller(h, gt[d])
<1> DEFINE b == gt[d].block - 1
<1>1. /\ b \in Objects(hp, gt)[d] /\ hp.units[b] = SLOB_UNITS(gt[d].size + SLOB_UNIT)
      /\ gt[d].size + SLOB_UNIT + SLOB_UNIT < PGSIZE
  BY SmallFacts
<1>2. h.units[b] = hp.units[b]
  BY <1>1 DEF SameUnits
<1> QED
  BY <1>1, <1>2 DEF Caller

\* All but c keep their objects and their large objects keep their records.
Others(hp, gt, h, c) ==
  \A d \in Client \ {c} :
     /\ SameUnits(hp, h, Objects(hp, gt)[d])
     /\ gt[d] # none =>
          /\ Large_at(h, gt[d].block) => Large_at(hp, gt[d].block)
          /\ \A bb \in ToSet(hp.bigblocks) : bb.pages = gt[d].block => bb \in ToSet(h.bigblocks)

\* new is f but for c.
Gives(f, c, g, new) == new = [f EXCEPT ![c] = g]

\* Then all is well with them when c has g.
LEMMA CallersKept ==
  ASSUME NEW hp, NEW fr, NEW gt, InvOf(hp, fr, gt), NEW h, NEW c \in Client, Others(hp, gt, h, c),
         NEW g \in {none} \cup [block : Addr, size : Size], NEW new, Gives(gt, c, g, new),
         g # none => Caller(h, g) /\ \A d \in Client \ {c} : gt[d] # none => gt[d].block # g.block
  PROVE  CallersInv(h, new) /\ Gives(Objects(hp, gt), c, ObjectUnits(h, g), Objects(h, new))
<1> DEFINE O == Objects(hp, gt)
<1>1. gt \in [Client -> {none} \cup [block : Addr, size : Size]] /\ CallersInv(hp, gt)
  BY DEF InvOf, CallersInv
<1>2. /\ new \in [Client -> {none} \cup [block : Addr, size : Size]]
      /\ new[c] = g /\ \A d \in Client : d # c => new[d] = gt[d]
  BY <1>1 DEF Gives
<1>3. \A d \in Client : d # c => SameUnits(hp, h, Objects(hp, gt)[d])
  BY DEF Others
<1>4. ASSUME NEW d \in Client, d # c, gt[d] # none
      PROVE  Large_at(h, gt[d].block) <=> Large_at(hp, gt[d].block)
  <2>1. d \in Client \ {c}
    BY <1>4
  <2>2. Large_at(h, gt[d].block) => Large_at(hp, gt[d].block)
    BY <1>4, <2>1 DEF Others
  <2>3. \A bb \in ToSet(hp.bigblocks) : bb.pages = gt[d].block => bb \in ToSet(h.bigblocks)
    BY <1>4, <2>1 DEF Others
  <2> QED
    BY <2>2, <2>3 DEF Large_at
<1>5. ASSUME NEW d \in Client, d # c PROVE ObjectUnits(h, new[d]) = O[d]
  <2>1. ObjectUnits(h, gt[d]) = O[d]
    BY <1>3, <1>4, <1>5, SameObject
  <2> QED
    BY <1>2, <1>5, <2>1
<1>6. Objects(h, new) = [O EXCEPT ![c] = ObjectUnits(h, g)]
  <2> DEFINE N == [O EXCEPT ![c] = ObjectUnits(h, g)]
  <2>1. O = [d \in Client |-> O[d]]
    BY DEF Objects
  <2> HIDE DEF O
  <2>2. N = [d \in Client |-> N[d]] /\ N[c] = ObjectUnits(h, g) /\ \A d \in Client : d # c => N[d] = O[d]
    BY <2>1
  <2> HIDE DEF N
  <2>3. \A d \in Client : ObjectUnits(h, new[d]) = N[d]
    BY <1>2, <1>5, <2>2
  <2>4. Objects(h, new) = N
    BY <2>2, <2>3 DEF Objects
  <2> QED
    BY <2>4 DEF N
<1>7. ASSUME NEW d \in Client, new[d] # none PROVE Caller(h, new[d])
  <2>1. CASE d = c
    BY <1>2, <1>7, <2>1
  <2>2. CASE d # c
    <3>1. new[d] = gt[d] /\ gt[d] # none
      BY <1>2, <1>7, <2>2
    <3>2. CASE Large_at(hp, gt[d].block)
      <4>1. Caller(hp, gt[d])
        BY <1>1, <3>1 DEF CallersInv
      <4>2. PICK bb \in ToSet(hp.bigblocks) : bb.pages = gt[d].block /\ bb.order = find_order(gt[d].size)
        BY <3>2, <4>1 DEF Caller
      <4>3. bb \in ToSet(h.bigblocks)
        BY <2>2, <3>1, <4>2 DEF Others
      <4>4. Large_at(h, gt[d].block)
        BY <1>4, <2>2, <3>1, <3>2
      <4> QED
        BY <3>1, <4>2, <4>3, <4>4 DEF Caller
    <3>3. CASE ~Large_at(hp, gt[d].block)
      BY <1>3, <1>4, <2>2, <3>1, <3>3, SameCaller
    <3> QED
      BY <3>2, <3>3
  <2> QED
    BY <2>1, <2>2
<1>8. ASSUME NEW d \in Client, NEW e \in Client, d # e, new[d] # none, new[e] # none,
             Large_at(h, new[d].block)
      PROVE  new[d].block # new[e].block
  <2>1. CASE d = c \/ e = c
    BY <1>2, <1>8, <2>1
  <2>2. CASE d # c /\ e # c
    BY <1>1, <1>2, <1>4, <1>8, <2>2 DEF CallersInv
  <2> QED
    BY <2>1, <2>2
<1>9. CallersInv(h, new)
  BY <1>2, <1>7, <1>8 DEF CallersInv
<1> QED
  BY <1>6, <1>9 DEF Gives, O

\* A small object is cut off the list.
LEMMA SmallKeeps ==
  ASSUME IInv, NEW c \in Client, NEW size \in Size, Small(c, size)
  PROVE  IInv'
<1> DEFINE O == Objects(heap, got)
           n == SLOB_UNITS(size + SLOB_UNIT)
           bigs == ToSet(heap.bigblocks)
<1>1. MemoryInv(heap, free, O) /\ CallersInv(heap, got) /\ InvOf(heap, free, got)
  BY DEF IInv, InvOf
<1>2. size \in Nat /\ size > 0 /\ SLOB_UNIT \in Nat /\ SLOB_UNIT > 0 /\ PGSIZE \in Nat
  BY SlobAssumption
<1>3. size + SLOB_UNIT \in Nat /\ size + SLOB_UNIT > SLOB_UNIT /\ size + SLOB_UNIT + SLOB_UNIT <= PGSIZE
  BY <1>2 DEF Small
<1>4. PICK page \in pages_for(heap, size + SLOB_UNIT) :
        LET a == slob_alloc(heap, size + SLOB_UNIT, page)
        IN  /\ heap' = a.heap
            /\ free' = free \ {page}
            /\ got' = [got EXCEPT ![c] = [block |-> a.block + 1, size |-> size]]
  BY DEF Small
<1> DEFINE k == slob_alloc(heap, size + SLOB_UNIT, page).block
           S == unit_range(k, n)
           N == [O EXCEPT ![c] = S]
           g == [block |-> k + 1, size |-> size]
<1>5. /\ Cut(heap', free', O, bigs, k, n)
      /\ heap'.bigblocks = heap.bigblocks
      /\ SameHeads(heap, heap', O)
  BY <1>1, <1>3, <1>4, AllocCuts
<1>6. n \in Nat /\ n >= 2
  BY <1>3, SizeUnits
<1>7. got' = [got EXCEPT ![c] = g] /\ got[c] = none
  BY <1>4 DEF Small
<1> HIDE DEF k, n
<1>8. got \in [Client -> {none} \cup [block : Addr, size : Size]]
  BY <1>1 DEF CallersInv
<1>9. got'[c] = g /\ \A d \in Client : d # c => got'[d] = got[d]
  BY <1>7, <1>8
<1>10. O = [d \in Client |-> O[d]] /\ O[c] = {}
  BY <1>7 DEF Objects, ObjectUnits
<1> HIDE DEF O, S, N
<1>11. N[c] = S /\ \A d \in Client : d # c => N[d] = O[d]
  BY <1>10 DEF N
<1>12. PICK P, W : /\ FreeBlocks(heap', P)
                   /\ Shared(W, free', O, bigs) /\ S \subseteq W /\ Units(heap'.units, P) = W \ S
  BY <1>5 DEF Cut, S
<1>13. Shared(Units(heap'.units, P), free', N, bigs)
  BY <1>10, <1>12, ListToObject DEF N
<1>14. k \in Nat /\ k \in S /\ k + 1 \in S /\ S \in SUBSET Addr /\ k + 1 \in Addr
  <2>1. k \in Nat
    BY <1>5, AddrFacts DEF Cut
  <2>2. k \in S /\ k + 1 \in S
    BY <1>6, <2>1 DEF S, unit_range
  <2>3. S \in SUBSET Addr
    BY <1>11, <1>13, SharedApart
  <2> QED
    BY <2>1, <2>2, <2>3
<1>15. ToSet(heap'.bigblocks) = bigs /\ \A b : Large_at(heap', b) <=> Large_at(heap, b)
  BY <1>5 DEF Large_at
<1>16. \A bb \in bigs : bb.pages \in LargeUnits(bb)
  <2>1. ASSUME NEW bb \in bigs PROVE bb.pages \in LargeUnits(bb)
    <3>1. PICK p \in Page : bb.pages = p * perpage
      BY <1>1 DEF MemoryInv
    <3>2. bb \in Record
      BY <1>1, RecordFacts DEF MemoryInv, FreeBlocks
    <3> QED
      BY <3>1, <3>2, LargeFacts
  <2> QED
    BY <2>1
<1>17. ~Large_at(heap', k + 1)
  <2>1. \A bb \in bigs : S \cap LargeUnits(bb) = {}
    BY <1>11, <1>13, SharedApart
  <2>2. \A bb \in bigs : bb.pages # k + 1
    BY <1>14, <1>16, <2>1
  <2> QED
    BY <1>15, <2>2 DEF Large_at
<1>18. g.block = k + 1 /\ g.size = size /\ g \in [block : Addr, size : Size] /\ g # none
  BY <1>14, SomeBlock
<1>19. heap'.units[k] = n
  BY <1>5 DEF Cut
<1> HIDE DEF g
<1>20. CallersInv(heap', got') /\ Gives(O, c, ObjectUnits(heap', g), Objects(heap', got'))
  <2>1. Others(heap, got, heap', c)
    BY <1>5, <1>15 DEF Others, SameHeads, O
  <2>2. Caller(heap', g)
    <3>1. (k + 1) - 1 = k /\ size + SLOB_UNIT + SLOB_UNIT < PGSIZE
      BY <1>14 DEF Small
    <3> QED
      BY <1>17, <1>18, <1>19, <3>1 DEF Caller, n
  <2>3. ASSUME NEW d \in Client \ {c}, got[d] # none PROVE got[d].block # g.block
    <3>1. CASE Large_at(heap, got[d].block)
      BY <1>15, <1>17, <1>18, <3>1
    <3>2. CASE ~Large_at(heap, got[d].block)
      <4>1. got[d].block \in O[d]
        BY <1>1, <2>3, <3>2, SmallFacts DEF O
      <4>2. O[d] \cap S = {}
        BY <1>12, SharedApart
      <4> QED
        BY <1>14, <1>18, <4>1, <4>2
    <3> QED
      BY <3>1, <3>2
  <2>4. Gives(got, c, g, got') /\ g \in {none} \cup [block : Addr, size : Size]
    BY <1>7, <1>18 DEF Gives
  <2> QED
    BY <1>1, <2>1, <2>2, <2>3, <2>4, CallersKept DEF O
<1>21. Objects(heap', got') = N
  <2>1. (k + 1) - 1 = k
    BY <1>14
  <2>2. ObjectUnits(heap', g) = S
    BY <1>17, <1>18, <1>19, <2>1 DEF ObjectUnits, S
  <2> QED
    BY <1>20, <2>2 DEF Gives, N
<1>22. MemoryInv(heap', free', Objects(heap', got'))
  <2>1. free' \in SUBSET Page
    BY <1>5 DEF Cut
  <2>2. IsInjective(heap'.bigblocks) /\ \A bb \in ToSet(heap'.bigblocks) : \E p \in Page : bb.pages = p * perpage
    BY <1>1, <1>5, <1>15 DEF MemoryInv
  <2> QED
    BY <1>12, <1>13, <1>15, <1>21, <2>1, <2>2 DEF MemoryInv
<1>23. InvOf(heap', free', got')
  BY <1>20, <1>22 DEF InvOf
<1> QED
  BY <1>23 DEF IInv

\* No object of a caller begins on a free page.
LEMMA NotOnFree ==
  ASSUME IInv, NEW p \in free, NEW d \in Client, got[d] # none
  PROVE  got[d].block # p * perpage
<1>1. MemoryInv(heap, free, Objects(heap, got)) /\ InvOf(heap, free, got) /\ p \in Nat
  BY DEF IInv, InvOf, MemoryInv, Page
<1>2. PICK P : /\ FreeBlocks(heap, P)
               /\ Shared(Units(heap.units, P), free, Objects(heap, got), ToSet(heap.bigblocks))
  BY <1>1 DEF MemoryInv
<1>3. p * perpage \in on_page(p)
  BY <1>1, PageFacts
<1>4. CASE Large_at(heap, got[d].block)
  <2>1. PICK bb \in ToSet(heap.bigblocks) : bb.pages = got[d].block
    BY <1>4 DEF Large_at
  <2>2. PICK q \in Page : bb.pages = q * perpage
    BY <1>1 DEF MemoryInv
  <2>3. bb \in Record
    BY <1>2, RecordFacts DEF FreeBlocks
  <2>4. got[d].block \in LargeUnits(bb)
    BY <2>1, <2>2, <2>3, LargeFacts
  <2>5. LargeUnits(bb) \cap on_page(p) = {}
    BY <1>2, SharedApart
  <2> QED
    BY <1>3, <2>4, <2>5
<1>5. CASE ~Large_at(heap, got[d].block)
  <2> DEFINE O == Objects(heap, got)
  <2>1. got[d].block \in O[d]
    BY <1>1, <1>5, SmallFacts
  <2>2. O[d] \cap on_page(p) = {}
    <3> HIDE DEF O
    <3> QED
      BY <1>2, SharedApart DEF O
  <2> HIDE DEF O
  <2> QED
    BY <1>3, <2>1, <2>2
<1> QED
  BY <1>4, <1>5

\* g is h with the order at k and the records l.
IsRecorded(h, k, order, l, g) == g = [h EXCEPT !.units[k] = order, !.bigblocks = l]

\* It is a heap like h.
LEMMA Recorded ==
  ASSUME NEW h, NEW P, FreeBlocks(h, P), NEW k, k \notin Units(h.units, P), k \in Addr \ {arena},
         NEW order \in Nat, NEW l \in Seq(Record), NEW g, IsRecorded(h, k, order, l, g)
  PROVE  FreeBlocks(g, P) /\ Units(g.units, P) = Units(h.units, P) /\ g.bigblocks = l /\ ButFor(h, k, g)
<1>1. h \in Slobs
  BY DEF FreeBlocks
<1>2. /\ g.units = [h.units EXCEPT ![k] = order] /\ g.bigblocks = l
      /\ g.next = h.next /\ g.slobfree = h.slobfree
      /\ g = [units |-> g.units, next |-> g.next, slobfree |-> g.slobfree, bigblocks |-> g.bigblocks]
  BY <1>1 DEF IsRecorded, Slobs
<1>3. g.units \in [Addr -> Nat] /\ \A a \in Addr : a # k => g.units[a] = h.units[a]
  <2>1. h.units \in [Addr -> Nat]
    BY <1>1 DEF Slobs
  <2> QED
    BY <1>2, <2>1
<1>4. g \in Slobs
  <2>1. g.next \in [Addr -> Addr] /\ g.slobfree \in Addr
    BY <1>1, <1>2 DEF Slobs
  <2> QED
    BY <1>2, <1>3, <2>1 DEF Slobs
<1>5. ButFor(h, k, g)
  BY <1>2, <1>3, <1>4 DEF ButFor
<1> QED
  BY <1>2, <1>5, FreeBlocksKept

\* A record is cut off the list, and pages are taken.
LEMMA LargeKeeps ==
  ASSUME IInv, NEW c \in Client, NEW size \in Size, Large(c, size)
  PROVE  IInv'
<1> DEFINE O == Objects(heap, got)
           n == SLOB_UNITS(BIGBLOCK)
           bigs == ToSet(heap.bigblocks)
           order == find_order(size)
<1>1. MemoryInv(heap, free, O) /\ CallersInv(heap, got) /\ InvOf(heap, free, got)
  BY DEF IInv, InvOf
<1>2. /\ BIGBLOCK \in Nat /\ BIGBLOCK > SLOB_UNIT /\ BIGBLOCK + SLOB_UNIT <= PGSIZE
      /\ order \in Nat
  BY OrderFound, SlobAssumption
<1>3. PICK page \in pages_for(heap, BIGBLOCK) :
        LET bb == slob_alloc(heap, BIGBLOCK, page)
            left == free \ {page}
        IN  \E p \in runs(left, order) :
              /\ heap' = [bb.heap EXCEPT !.units[bb.block] = order,
                                         !.bigblocks = <<[at |-> bb.block, order |-> order, pages |-> p * perpage]>> \o @]
              /\ free' = left \ (p .. (p + 2 ^ order - 1))
              /\ got' = [got EXCEPT ![c] = [block |-> p * perpage, size |-> size]]
  BY DEF Large
<1>4. PICK p \in runs(free \ {page}, order) :
        LET bb == slob_alloc(heap, BIGBLOCK, page)
            left == free \ {page}
        IN  /\ heap' = [bb.heap EXCEPT !.units[bb.block] = order,
                                       !.bigblocks = <<[at |-> bb.block, order |-> order, pages |-> p * perpage]>> \o @]
            /\ free' = left \ (p .. (p + 2 ^ order - 1))
            /\ got' = [got EXCEPT ![c] = [block |-> p * perpage, size |-> size]]
  BY <1>3
<1> DEFINE h == slob_alloc(heap, BIGBLOCK, page).heap
           k == slob_alloc(heap, BIGBLOCK, page).block
           left == free \ {page}
           Q == p .. (p + 2 ^ order - 1)
           rec == [at |-> k, order |-> order, pages |-> p * perpage]
           g == [block |-> p * perpage, size |-> size]
           S == unit_range(k, n)
<1>5. /\ Cut(h, left, O, bigs, k, n)
      /\ h.bigblocks = heap.bigblocks
      /\ SameHeads(heap, h, O)
  BY <1>1, <1>2, AllocCuts
<1>6. /\ heap' = [h EXCEPT !.units[k] = order, !.bigblocks = <<rec>> \o h.bigblocks]
      /\ free' = left \ Q /\ got' = [got EXCEPT ![c] = g]
  BY <1>4
<1>7. got[c] = none
  BY DEF Large
<1> HIDE DEF h, k, order, n
<1>8. /\ left \in SUBSET Page /\ left \in SUBSET Nat /\ p \in Page /\ p \in free /\ p \in Nat
      /\ p \in left /\ Q \in SUBSET left
  <2>1. left \in SUBSET Page /\ Page \in SUBSET Nat
    BY <1>5 DEF Cut, Page
  <2>2. p \in left /\ Q \subseteq left
    BY <1>4 DEF runs
  <2> QED
    BY <2>1, <2>2
<1>9. k \in Addr \ {arena} /\ k \in Nat
  BY <1>5, AddrFacts DEF Cut
<1>10. p * perpage \in Nat /\ p * perpage \in on_page(p)
  BY <1>8, PageFacts
<1>11. rec \in Record /\ rec.at = k /\ rec.pages = p * perpage /\ rec.order = order
  BY <1>2, <1>9, <1>10 DEF Record
<1> HIDE DEF rec
<1>12. /\ Q \in SUBSET Nat /\ LargeUnits(rec) = FreeUnits(Q) /\ n \in Nat /\ n >= 2
       /\ k \in RecordUnits(rec) /\ RecordUnits(rec) = S
  <2>1. RecordUnits(rec) = S
    BY <1>11 DEF RecordUnits, n
  <2> QED
    BY <1>8, <1>11, <2>1, LargeFacts DEF n
<1> HIDE DEF Q, S, left, O
<1>13. PICK P, W : /\ FreeBlocks(h, P)
                   /\ Shared(W, left, O, bigs) /\ S \subseteq W /\ Units(h.units, P) = W \ S
  BY <1>5 DEF Cut, S
<1>14. rec \notin bigs
  <2>1. \A bb \in bigs : RecordUnits(bb) \cap W = {}
    BY <1>13, SharedApart
  <2> QED
    BY <1>12, <1>13, <2>1
<1> HIDE DEF bigs
<1>15. Shared(W \ S, left \ Q, O, bigs \cup {rec})
  BY <1>8, <1>12, <1>13, <1>14, ToLarge
<1> DEFINE l == <<rec>> \o h.bigblocks
<1>16. l \in Seq(Record) /\ IsInjective(l) /\ ToSet(l) = bigs \cup {rec}
  <2>1. h.bigblocks \in Seq(Record) /\ ToSet(h.bigblocks) = Range(h.bigblocks)
    BY <1>13, RecordFacts DEF FreeBlocks
  <2>2. IsInjective(h.bigblocks) /\ Range(h.bigblocks) = bigs
    BY <1>1, <1>5, <2>1 DEF MemoryInv, bigs
  <2>3. l \in Seq(Record) /\ Range(l) = bigs \cup {rec} /\ IsInjective(l)
    BY <1>11, <1>14, <2>1, <2>2, ListAddHead
  <2>4. ToSet(l) = Range(l)
    <3>1. DOMAIN l = 1..Len(l)
      BY <2>3, LenProperties
    <3> QED
      BY DEF ToSet, Range
  <2> QED
    BY <2>3, <2>4
<1> HIDE DEF l
<1>17. IsRecorded(h, k, order, l, heap')
  BY <1>6 DEF IsRecorded, l
<1>18. /\ FreeBlocks(heap', P) /\ Units(heap'.units, P) = W \ S
       /\ heap'.bigblocks = l /\ \A a \in Addr : a # k => heap'.units[a] = h.units[a]
  <2>1. k \notin Units(h.units, P)
    BY <1>12, <1>13
  <2>2. /\ FreeBlocks(heap', P) /\ Units(heap'.units, P) = Units(h.units, P)
        /\ heap'.bigblocks = l /\ ButFor(h, k, heap')
    BY <1>2, <1>9, <1>13, <1>16, <1>17, <2>1, Recorded
  <2> QED
    BY <1>13, <2>2 DEF ButFor
<1>19. \A b : Large_at(heap', b) <=> Large_at(heap, b) \/ b = p * perpage
  BY <1>11, <1>16, <1>18 DEF Large_at, bigs
<1>20. \A d \in Client : got[d] # none => got[d].block # p * perpage
  BY <1>8, NotOnFree
<1>21. Others(heap, got, heap', c)
  <2>1. SameHeads(heap, heap', O)
    <3>1. \A d \in Client : O[d] \in SUBSET Addr /\ O[d] \cap W = {}
      BY <1>13, SharedApart
    <3>2. k \in W
      BY <1>12, <1>13
    <3> QED
      BY <1>5, <1>18, <3>1, <3>2 DEF SameHeads, SameUnits
  <2>2. bigs \subseteq ToSet(heap'.bigblocks)
    BY <1>16, <1>18
  <2> QED
    BY <1>19, <1>20, <2>1, <2>2 DEF Others, SameHeads, O, bigs
<1>22. p * perpage \in Addr
  <2>1. on_page(p) \in SUBSET Addr
    BY <1>8, <1>13, SharedApart
  <2> QED
    BY <1>10, <2>1
<1>23. g \in [block : Addr, size : Size] /\ g # none /\ g.block = p * perpage /\ g.size = size
  BY <1>22, SomeBlock
<1> HIDE DEF g
<1>24. Large_at(heap', g.block) /\ Caller(heap', g)
  <2>1. rec \in ToSet(heap'.bigblocks) /\ Large_at(heap', g.block)
    BY <1>16, <1>18, <1>19, <1>23
  <2> QED
    BY <1>11, <1>23, <2>1 DEF Caller, order
<1>25. CallersInv(heap', got') /\ Gives(O, c, ObjectUnits(heap', g), Objects(heap', got'))
  <2>1. g # none => Caller(heap', g) /\ \A d \in Client \ {c} : got[d] # none => got[d].block # g.block
    BY <1>20, <1>23, <1>24
  <2>2. g \in {none} \cup [block : Addr, size : Size]
    BY <1>23
  <2>3. Gives(got, c, g, got')
    BY <1>6 DEF Gives
  <2> QED
    BY <1>1, <1>21, <2>1, <2>2, <2>3, CallersKept DEF O
<1>26. Objects(heap', got') = O
  <2>1. ObjectUnits(heap', g) = {} /\ ObjectUnits(heap, got[c]) = {}
    BY <1>7, <1>24 DEF ObjectUnits
  <2>2. O = [d \in Client |-> O[d]] /\ O[c] = {}
    BY <2>1 DEF O, Objects
  <2> QED
    BY <1>25, <2>1, <2>2 DEF Gives
<1>27. MemoryInv(heap', free', Objects(heap', got'))
  <2>1. free' \in SUBSET Page
    BY <1>6, <1>8
  <2>2. ASSUME NEW bb \in ToSet(heap'.bigblocks) PROVE \E q \in Page : bb.pages = q * perpage
    <3>1. bb \in bigs \/ bb = rec
      BY <1>16, <1>18, <2>2
    <3> QED
      BY <1>1, <1>8, <1>11, <3>1 DEF MemoryInv, bigs
  <2>3. Shared(Units(heap'.units, P), free', O, ToSet(heap'.bigblocks))
    BY <1>6, <1>15, <1>16, <1>18
  <2>4. IsInjective(heap'.bigblocks)
    BY <1>16, <1>18
  <2> QED
    BY <1>18, <1>26, <2>1, <2>2, <2>3, <2>4 DEF MemoryInv
<1>28. InvOf(heap', free', got')
  BY <1>25, <1>27 DEF InvOf
<1> QED
  BY <1>28 DEF IInv

\* A record is cut off the list, and put back.
LEMMA LargeFailsKeeps ==
  ASSUME IInv, NEW c \in Client, NEW size \in Size, LargeFails(c, size)
  PROVE  IInv'
<1> DEFINE O == Objects(heap, got)
           n == SLOB_UNITS(BIGBLOCK)
           bigs == ToSet(heap.bigblocks)
           order == find_order(size)
<1>1. MemoryInv(heap, free, O) /\ CallersInv(heap, got) /\ InvOf(heap, free, got)
  BY DEF IInv, InvOf
<1>2. /\ BIGBLOCK \in Nat /\ BIGBLOCK > SLOB_UNIT /\ BIGBLOCK + SLOB_UNIT <= PGSIZE
      /\ order \in Nat /\ BIGBLOCK # 0
  BY OrderFound, SlobAssumption
<1>3. PICK page \in pages_for(heap, BIGBLOCK) :
        LET bb == slob_alloc(heap, BIGBLOCK, page)
        IN  /\ heap' = free_record([bb.heap EXCEPT !.units[bb.block] = order], bb.block)
            /\ free' = free \ {page}
            /\ UNCHANGED got
  BY DEF LargeFails
<1> DEFINE h == slob_alloc(heap, BIGBLOCK, page).heap
           k == slob_alloc(heap, BIGBLOCK, page).block
           left == free \ {page}
           S == unit_range(k, n)
           g == [h EXCEPT !.units[k] = order]
<1>4. /\ Cut(h, left, O, bigs, k, n)
      /\ h.bigblocks = heap.bigblocks
      /\ SameHeads(heap, h, O)
  BY <1>1, <1>2, AllocCuts
<1>5. heap' = slob_free(g, k, BIGBLOCK) /\ free' = left /\ got' = got
  BY <1>3 DEF free_record
<1> HIDE DEF h, k, order, left
<1>6. n \in Nat \ {0}
  BY <1>2, SizeUnits
<1> HIDE DEF n
<1>7. k \in Addr \ {arena} /\ k \in Nat /\ k \in S
  <2>1. k \in Addr \ {arena} /\ k \in Nat
    BY <1>4, AddrFacts DEF Cut
  <2> QED
    BY <1>6, <2>1 DEF unit_range
<1>8. PICK P, W : /\ FreeBlocks(h, P)
                  /\ Shared(W, left, O, bigs) /\ S \subseteq W /\ Units(h.units, P) = W \ S
  BY <1>4 DEF Cut
<1> HIDE DEF S, g
<1>9. /\ FreeBlocks(g, P) /\ Units(g.units, P) = W \ S
      /\ g.bigblocks = heap.bigblocks /\ ButFor(h, k, g)
  <2>1. h.bigblocks \in Seq(Record) /\ h \in Slobs
    BY <1>8, RecordFacts DEF FreeBlocks
  <2>2. IsRecorded(h, k, order, h.bigblocks, g)
    BY <2>1 DEF IsRecorded, g, Slobs
  <2>3. k \notin Units(h.units, P)
    BY <1>7, <1>8
  <2> QED
    BY <1>2, <1>4, <1>7, <1>8, <2>1, <2>2, <2>3, Recorded
<1>10. Freed(g, P, k, n, heap')
  <2>1. W \in SUBSET Addr
    BY <1>8, SharedApart
  <2>2. Away(g, P, k, n)
    BY <1>6, <1>7, <1>8, <1>9, <2>1 DEF Away, S
  <2>3. n = IF BIGBLOCK = 0 THEN g.units[k] ELSE SLOB_UNITS(BIGBLOCK)
    BY <1>2 DEF n
  <2> QED
    BY <1>5, <1>9, <2>2, <2>3, FreePuts
<1>11. Units(g.units, P) \cup unit_range(k, n) = W
  BY <1>8, <1>9 DEF S
<1>12. PICK R : FreeBlocks(heap', R) /\ Units(heap'.units, R) = W
  BY <1>10, <1>11 DEF Freed
<1>13. Elsewhere(g, heap', W)
  BY <1>10, <1>11 DEF Freed
<1>14. heap'.bigblocks = heap.bigblocks
  BY <1>9, <1>13 DEF Elsewhere
<1>15. Others(heap, got, heap', c)
  <2> HIDE DEF O
  <2>1. SameHeads(heap, heap', O)
    <3>1. \A d \in Client : O[d] \in SUBSET Addr /\ O[d] \cap W = {}
      BY <1>8, SharedApart
    <3>2. k \in W
      BY <1>7, <1>8
    <3>3. \A d \in Client : \A a \in O[d] : heap'.units[a] = g.units[a]
      BY <1>13, <3>1 DEF Elsewhere
    <3>4. \A d \in Client : \A a \in O[d] : g.units[a] = h.units[a]
      BY <1>9, <3>1, <3>2 DEF ButFor
    <3> QED
      BY <1>4, <3>3, <3>4 DEF SameHeads, SameUnits
  <2>2. ToSet(heap'.bigblocks) = ToSet(heap.bigblocks)
    BY <1>14
  <2> QED
    BY <2>1, <2>2 DEF Others, SameHeads, Large_at, O
<1>16. got[c] = none /\ got \in [Client -> {none} \cup [block : Addr, size : Size]]
  BY <1>1 DEF LargeFails, CallersInv
<1>17. CallersInv(heap', got') /\ Gives(O, c, ObjectUnits(heap', none), Objects(heap', got'))
  <2>1. Gives(got, c, none, got')
    BY <1>5, <1>16 DEF Gives
  <2> QED
    BY <1>1, <1>15, <2>1, CallersKept
<1>18. Objects(heap', got') = O
  <2>1. ObjectUnits(heap', none) = {} /\ O[c] = {} /\ O = [d \in Client |-> O[d]]
    BY <1>16 DEF ObjectUnits, Objects
  <2> HIDE DEF O
  <2> QED
    BY <1>17, <2>1 DEF Gives
<1>19. MemoryInv(heap', free', Objects(heap', got'))
  <2>1. free' \in SUBSET Page
    BY <1>4, <1>5 DEF Cut
  <2>2. Shared(Units(heap'.units, R), free', O, ToSet(heap'.bigblocks))
    BY <1>5, <1>8, <1>12, <1>14
  <2> QED
    BY <1>1, <1>12, <1>14, <1>18, <2>1, <2>2 DEF MemoryInv
<1>20. InvOf(heap', free', got')
  BY <1>17, <1>19 DEF InvOf
<1> QED
  BY <1>20 DEF IInv

\* The object of c goes onto the list, with its head.
LEMMA KfreeSmallKeeps ==
  ASSUME IInv, NEW c \in Client, KfreeSmall(c)
  PROVE  IInv'
<1> DEFINE O == Objects(heap, got)
           bigs == ToSet(heap.bigblocks)
           b == got[c].block - 1
           n == heap.units[b]
<1>1. MemoryInv(heap, free, O) /\ CallersInv(heap, got) /\ InvOf(heap, free, got)
  BY DEF IInv, InvOf
<1>2. got[c] # none /\ ~Large_at(heap, got[c].block)
  BY <1>1, RecordsOf DEF KfreeSmall
<1>3. heap' = slob_free(heap, b, 0) /\ free' = free /\ Gives(got, c, none, got')
  BY DEF KfreeSmall, Gives
<1>4. /\ b \in Nat /\ b \in O[c] /\ O[c] \in SUBSET Addr
      /\ O[c] = unit_range(b, n) /\ n \in Nat /\ n >= 2
  BY <1>1, <1>2, SmallFacts
<1>5. O = [d \in Client |-> O[d]]
  BY DEF Objects
<1> HIDE DEF O, b, n
<1>6. PICK P : FreeBlocks(heap, P) /\ Shared(Units(heap.units, P), free, O, bigs)
  BY <1>1 DEF MemoryInv
<1>7. \A d \in Client : /\ O[d] \in SUBSET Addr /\ O[d] \cap Units(heap.units, P) = {}
                        /\ d # c => O[d] \cap O[c] = {}
  BY <1>6, SharedApart
<1>8. b # arena
  BY <1>4, <1>6, <1>7, ArenaListed
<1>9. Freed(heap, P, b, n, heap')
  <2>1. Away(heap, P, b, n)
    BY <1>4, <1>7, <1>8 DEF Away
  <2>2. n = IF 0 = 0 THEN heap.units[b] ELSE SLOB_UNITS(0)
    BY DEF n
  <2> QED
    BY <1>3, <1>6, <2>1, <2>2, FreePuts
<1> DEFINE W == Units(heap.units, P) \cup O[c]
<1>10. Elsewhere(heap, heap', W) /\ \E R : FreeBlocks(heap', R) /\ Units(heap'.units, R) = W
  BY <1>4, <1>9 DEF Freed
<1>11. PICK R : FreeBlocks(heap', R) /\ Units(heap'.units, R) = W
  BY <1>10
<1>12. heap'.bigblocks = heap.bigblocks
  BY <1>10 DEF Elsewhere
<1>13. Shared(W, free', [O EXCEPT ![c] = {}], ToSet(heap'.bigblocks))
  BY <1>3, <1>5, <1>6, <1>12, ObjectToList
<1> HIDE DEF W
<1>14. Others(heap, got, heap', c)
  <2>1. ASSUME NEW d \in Client \ {c} PROVE SameUnits(heap, heap', O[d])
    <3>1. O[d] \in SUBSET Addr /\ O[d] \cap W = {}
      BY <1>7 DEF W
    <3> QED
      BY <1>10, <3>1 DEF Elsewhere, SameUnits
  <2> QED
    BY <1>12, <2>1 DEF Others, Large_at, O
<1>15. CallersInv(heap', got') /\ Gives(O, c, ObjectUnits(heap', none), Objects(heap', got'))
  BY <1>1, <1>3, <1>14, CallersKept DEF O
<1>16. Objects(heap', got') = [O EXCEPT ![c] = {}]
  <2>1. ObjectUnits(heap', none) = {}
    BY DEF ObjectUnits
  <2> QED
    BY <1>15, <2>1 DEF Gives
<1>17. MemoryInv(heap', free', Objects(heap', got'))
  BY <1>1, <1>3, <1>11, <1>12, <1>13, <1>16 DEF MemoryInv
<1>18. InvOf(heap', free', got')
  BY <1>15, <1>17 DEF InvOf
<1> QED
  BY <1>18 DEF IInv

\* The record of c's object goes onto the list, and its pages are free.
LEMMA KfreeLargeKeeps ==
  ASSUME IInv, NEW c \in Client, KfreeLarge(c)
  PROVE  IInv'
<1> DEFINE O == Objects(heap, got)
           n == SLOB_UNITS(BIGBLOCK)
           bigs == ToSet(heap.bigblocks)
<1>1. MemoryInv(heap, free, O) /\ CallersInv(heap, got) /\ InvOf(heap, free, got)
  BY DEF IInv, InvOf
<1>2. PICK bb \in records(got[c].block) :
        /\ heap' = [free_record(heap, bb.at) EXCEPT !.bigblocks = RemoveFirst(@, bb)]
        /\ free' = free \cup {q \in Page : q * perpage \in unit_range(bb.pages, 2 ^ bb.order * perpage)}
  BY DEF KfreeLarge
<1>3. got[c] # none /\ Gives(got, c, none, got') /\ bb \in bigs /\ bb.pages = got[c].block
  BY DEF KfreeLarge, Gives, records
<1> DEFINE h == slob_free(heap, bb.at, BIGBLOCK)
           l == RemoveFirst(h.bigblocks, bb)
<1>4. /\ heap' = [h EXCEPT !.bigblocks = l]
      /\ free' = free \cup {q \in Page : q * perpage \in LargeUnits(bb)}
  BY <1>2 DEF free_record, LargeUnits
<1> HIDE DEF h, O, n, bigs
<1>5. PICK P : FreeBlocks(heap, P) /\ Shared(Units(heap.units, P), free, O, bigs)
  BY <1>1 DEF MemoryInv, bigs
<1>6. /\ heap.bigblocks \in Seq(Record) /\ bigs = Range(heap.bigblocks) /\ bb \in Record
      /\ IsInjective(heap.bigblocks)
  BY <1>1, <1>3, <1>5, RecordFacts DEF FreeBlocks, MemoryInv, bigs
<1>7. PICK p \in Page : bb.pages = p * perpage
  BY <1>1, <1>3 DEF MemoryInv, bigs
<1> DEFINE Q == p..(p + 2 ^ bb.order - 1)
<1>8. /\ Q \in SUBSET Nat /\ LargeUnits(bb) = FreeUnits(Q)
      /\ \A q \in Nat : q * perpage \in LargeUnits(bb) <=> q \in Q
      /\ bb.at \in Nat /\ bb.at \in RecordUnits(bb) /\ n \in Nat /\ n >= 2
  BY <1>6, <1>7, LargeFacts DEF n
<1>9. p \in Nat /\ p >= 1 /\ \A q \in Q : q >= p
  BY DEF Page
<1> HIDE DEF Q
<1>10. /\ RecordUnits(bb) \in SUBSET Addr /\ RecordUnits(bb) \cap Units(heap.units, P) = {}
       /\ LargeUnits(bb) \in SUBSET Addr
       /\ \A d \in Client : /\ O[d] \in SUBSET Addr /\ O[d] \cap Units(heap.units, P) = {}
                            /\ O[d] \cap RecordUnits(bb) = {}
  BY <1>3, <1>5, SharedApart
<1>11. Q \in SUBSET Page
  <2>1. ASSUME NEW q \in Q PROVE q \in Page
    <3>1. q \in Nat /\ q * perpage \in Addr /\ q >= 1
      BY <1>8, <1>9, <1>10
    <3>2. q * perpage \in Nat /\ q * perpage \in on_page(q)
      BY <3>1, PageFacts
    <3>3. q * perpage # arena
      <4>1. perpage \in Nat /\ perpage >= 3
        BY AddrFacts
      <4> HIDE DEF perpage
      <4>2. q * perpage >= perpage
        BY <3>1, <4>1
      <4> QED
        BY <3>2, <4>1, <4>2 DEF arena
    <3>4. PICK r \in Page : q * perpage \in on_page(r)
      BY <3>1, <3>3 DEF Addr
    <3>5. r \in Nat
      BY DEF Page
    <3> QED
      BY <3>1, <3>2, <3>4, <3>5, PageFacts
  <2> QED
    BY <2>1
<1>12. free' = free \cup Q
  <2>1. {q \in Page : q * perpage \in LargeUnits(bb)} = Q
    <3>1. \A q \in Page : q \in Nat
      BY DEF Page
    <3> QED
      BY <1>8, <1>11, <3>1
  <2> QED
    BY <1>4, <2>1
<1>13. RecordUnits(bb) = unit_range(bb.at, n)
  BY DEF RecordUnits, n
<1>14. Freed(heap, P, bb.at, n, h)
  <2>1. bb.at # arena
    BY <1>5, <1>8, <1>10, ArenaListed
  <2>2. Away(heap, P, bb.at, n)
    BY <1>8, <1>10, <1>13, <2>1 DEF Away
  <2>3. n = IF BIGBLOCK = 0 THEN heap.units[bb.at] ELSE SLOB_UNITS(BIGBLOCK)
    BY SlobAssumption DEF n
  <2> QED
    BY <1>5, <2>2, <2>3, FreePuts DEF h
<1> DEFINE W == Units(heap.units, P) \cup RecordUnits(bb)
<1>15. Elsewhere(heap, h, W) /\ \E R : FreeBlocks(h, R) /\ Units(h.units, R) = W
  BY <1>13, <1>14 DEF Freed
<1>16. PICK R : FreeBlocks(h, R) /\ Units(h.units, R) = W
  BY <1>15
<1>17. l \in Seq(Record) /\ ToSet(l) = bigs \ {bb} /\ IsInjective(l)
  <2>1. h.bigblocks = heap.bigblocks
    BY <1>15 DEF Elsewhere
  <2>2. l \in Seq(Record) /\ Range(l) = bigs \ {bb} /\ IsInjective(l)
    BY <1>3, <1>6, <2>1, ListRemove
  <2>3. DOMAIN l = 1..Len(l)
    BY <2>2, LenProperties
  <2> QED
    BY <2>2, <2>3 DEF ToSet, Range
<1> HIDE DEF W, l
<1>18. /\ heap'.bigblocks = l /\ heap'.units = h.units /\ heap'.next = h.next /\ heap'.slobfree = h.slobfree
       /\ heap' \in Slobs
  <2>1. h \in Slobs
    BY <1>16 DEF FreeBlocks
  <2> QED
    BY <1>4, <1>17, <2>1 DEF Slobs
<1>19. FreeBlocks(heap', R) /\ Units(heap'.units, R) = W
  BY <1>16, <1>18 DEF FreeBlocks
<1>20. Shared(W, free', O, bigs \ {bb})
  BY <1>3, <1>5, <1>8, <1>12, FromLarge DEF W
<1>21. Large_at(heap, got[c].block)
  BY <1>3 DEF Large_at, bigs
<1>22. Others(heap, got, heap', c)
  <2>1. ASSUME NEW d \in Client \ {c} PROVE SameUnits(heap, heap', O[d])
    <3>1. O[d] \in SUBSET Addr /\ O[d] \cap W = {}
      BY <1>10 DEF W
    <3> QED
      BY <1>15, <1>18, <3>1 DEF Elsewhere, SameUnits, W
  <2>2. ASSUME NEW d \in Client \ {c}, got[d] # none
        PROVE  /\ Large_at(heap', got[d].block) => Large_at(heap, got[d].block)
               /\ \A b \in bigs : b.pages = got[d].block => b \in ToSet(heap'.bigblocks)
    <3>1. got[d].block # got[c].block
      BY <1>1, <1>3, <1>21, <2>2 DEF CallersInv
    <3> QED
      BY <1>3, <1>17, <1>18, <3>1 DEF Large_at, bigs
  <2> QED
    BY <2>1, <2>2 DEF Others, O, bigs
<1>23. CallersInv(heap', got') /\ Gives(O, c, ObjectUnits(heap', none), Objects(heap', got'))
  BY <1>1, <1>3, <1>22, CallersKept DEF O
<1>24. Objects(heap', got') = O
  <2>1. ObjectUnits(heap', none) = {}
    BY DEF ObjectUnits
  <2>2. O[c] = {} /\ O = [d \in Client |-> O[d]]
    BY <1>21 DEF O, Objects, ObjectUnits
  <2> QED
    BY <1>23, <2>1, <2>2 DEF Gives
<1>25. MemoryInv(heap', free', Objects(heap', got'))
  <2>1. free' \in SUBSET Page
    BY <1>1, <1>11, <1>12 DEF MemoryInv
  <2>2. \A b \in ToSet(heap'.bigblocks) : \E q \in Page : b.pages = q * perpage
    BY <1>1, <1>17, <1>18 DEF MemoryInv, bigs
  <2>3. Shared(Units(heap'.units, R), free', O, ToSet(heap'.bigblocks)) /\ IsInjective(heap'.bigblocks)
    BY <1>17, <1>18, <1>19, <1>20
  <2> QED
    BY <1>19, <1>24, <2>1, <2>2, <2>3 DEF MemoryInv
<1>26. InvOf(heap', free', got')
  BY <1>23, <1>25 DEF InvOf
<1> QED
  BY <1>26 DEF IInv

\* The memory the calls share is all there from the start.
LEMMA InitOwned ==
  ASSUME Init
  PROVE  FreeBlocks(heap, {arena}) /\ Units(heap.units, {arena}) = {arena}
         /\ Shared({arena}, free, Objects(heap, got), {})
<1>1. arena \in Addr /\ arena = 0 /\ 1 \in Nat /\ 0 \in Nat
  BY AddrFacts DEF arena
<1>2. unit_range(arena, 1) = {arena}
  BY <1>1 DEF unit_range
<1>3. /\ heap.units \in [Addr -> Nat] /\ heap.units[arena] = 1
      /\ heap.next \in [Addr -> Addr] /\ heap.next[arena] = arena
      /\ heap.slobfree = arena /\ heap.bigblocks = <<>>
      /\ heap = [units |-> heap.units, next |-> heap.next, slobfree |-> heap.slobfree, bigblocks |-> heap.bigblocks]
  BY <1>1 DEF Init
<1>4. heap \in Slobs
  BY <1>1, <1>3 DEF Slobs
<1>5. Circle(heap.next, {arena})
  BY <1>1, <1>3 DEF Circle, IsNext
<1>6. Blocks(heap.units, {arena})
  <2>1. \A a \in {arena} : heap.units[a] > 0 /\ unit_range(a, heap.units[a]) \subseteq Addr
    BY <1>1, <1>2, <1>3
  <2>2. \A a, b \in {arena} : a < b => a + heap.units[a] < b
    BY <1>1
  <2> QED
    BY <1>3, <2>1, <2>2 DEF Blocks
<1>7. Units(heap.units, {arena}) = {arena}
  BY <1>2, <1>3 DEF Units
<1>8. FreeBlocks(heap, {arena})
  BY <1>3, <1>4, <1>5, <1>6 DEF FreeBlocks
<1>9. \A c \in Client : Objects(heap, got)[c] = {}
  BY DEF Init, Objects, ObjectUnits
<1> DEFINE own == [a \in Addr |-> IF a = arena THEN ListTag ELSE FreeTag]
<1>10. FreeUnits(free) = Addr \ {arena}
  <2>1. FreeUnits(free) = UNION {on_page(p) : p \in Page}
    BY DEF Init, FreeUnits
  <2>2. arena \notin FreeUnits(free)
    <3>1. ASSUME NEW p \in Page PROVE arena \notin on_page(p)
      <4>1. perpage \in Nat /\ perpage >= 3 /\ p \in Nat /\ p >= 1
        BY AddrFacts DEF Page
      <4> HIDE DEF perpage
      <4>2. p * perpage >= perpage
        BY <4>1
      <4> QED
        BY <1>1, <4>1, <4>2 DEF on_page, unit_range
    <3> QED
      BY <2>1, <3>1
  <2> QED
    BY <2>1, <2>2 DEF Addr
<1>11. \A a \in Addr : own[a] = IF a = arena THEN ListTag ELSE FreeTag
  OBVIOUS
<1>12. own \in [Addr -> Tags({})]
  BY DEF Tags
<1> HIDE DEF own
<1>13. Has(own, ListTag, {arena}) /\ Has(own, FreeTag, FreeUnits(free))
  BY <1>1, <1>10, <1>11, TagFacts DEF Has
<1>14. \A c \in Client : Has(own, ObjectTag(c), Objects(heap, got)[c])
  <2>1. \A c \in Client : \A a \in Addr : own[a] # ObjectTag(c)
    BY <1>11, TagFacts
  <2> QED
    BY <1>9, <2>1 DEF Has
<1>15. Owned(own, {arena}, free, Objects(heap, got), {})
  BY <1>12, <1>13, <1>14 DEF Owned
<1> QED
  BY <1>7, <1>8, <1>15 DEF Shared

LEMMA InitInv == Init => IInv
<1> SUFFICES ASSUME Init PROVE IInv
  OBVIOUS
<1>1. heap.bigblocks = <<>> /\ free = Page /\ got = [c \in Client |-> none]
  BY DEF Init
<1>2. ToSet(heap.bigblocks) = {} /\ IsInjective(heap.bigblocks)
  BY <1>1 DEF ToSet, IsInjective
<1>3. MemoryInv(heap, free, Objects(heap, got))
  BY <1>1, <1>2, InitOwned DEF MemoryInv
<1>4. CallersInv(heap, got)
  BY <1>1 DEF CallersInv
<1> QED
  BY <1>3, <1>4 DEF IInv, InvOf

\* The invariant holds in every state of the allocator.
THEOREM Invariance == Spec => []IInv
<1>1. IInv /\ [Next]_vars => IInv'
  <2> SUFFICES ASSUME IInv, [Next]_vars PROVE IInv'
    OBVIOUS
  <2>1. ASSUME NEW c \in Client, NEW size \in Size, Small(c, size) PROVE IInv'
    BY <2>1, SmallKeeps
  <2>2. ASSUME NEW c \in Client, NEW size \in Size, Large(c, size) PROVE IInv'
    BY <2>2, LargeKeeps
  <2>3. ASSUME NEW c \in Client, NEW size \in Size, LargeFails(c, size) PROVE IInv'
    BY <2>3, LargeFailsKeeps
  <2>4. ASSUME NEW c \in Client, KfreeSmall(c) PROVE IInv'
    BY <2>4, KfreeSmallKeeps
  <2>5. ASSUME NEW c \in Client, KfreeLarge(c) PROVE IInv'
    BY <2>5, KfreeLargeKeeps
  <2>6. CASE UNCHANGED vars
    BY <2>6 DEF vars, IInv
  <2> QED
    BY <2>1, <2>2, <2>3, <2>4, <2>5, <2>6 DEF Next
<1> QED
  BY <1>1, InitInv, PTL DEF Spec

-----------------------------------------------------------------------------
(* What the invariant says of the list. *)

\* Only from the last block the list goes down, to the arena.
LEMMA CircleOnce ==
  ASSUME NEW s, NEW P, FreeBlocks(s, P)
  PROVE  LET c == circle(s)
         IN  Cardinality({i \in DOMAIN c : c[i] < s.next[c[i]]}) = Len(c) - 1
<1> DEFINE c == circle(s)
           up == {i \in DOMAIN c : c[i] < s.next[c[i]]}
<1>1. c \in Seq(P) /\ Walked(s, c) /\ ToSet(c) = P /\ s.next[Last(c)] = s.slobfree
  BY CircleWalks
<1>2. /\ P \in SUBSET Nat /\ arena \in P /\ arena = 0 /\ Circle(s.next, P)
      /\ \A a \in P : IsNext(P, a, s.next[a]) /\ s.next[a] \in P
  BY BlockFacts DEF FreeBlocks, arena
<1> HIDE DEF c
<1>3. /\ Len(c) \in Nat /\ Len(c) > 0 /\ DOMAIN c = 1..Len(c) /\ \A i \in 1..Len(c) : c[i] \in P
      /\ IsInjective(c) /\ c[1] = s.slobfree
      /\ \A i \in 2..Len(c) : c[i] = s.next[c[i - 1]]
  BY <1>1, LenProperties, ElementOfSeq DEF Walked
<1>4. \A a \in P : a < s.next[a] <=> s.next[a] # arena
  BY <1>2 DEF IsNext
<1>5. PICK k \in 1..Len(c) : s.next[c[k]] = arena
  <2>1. PICK i \in 1..Len(c) : c[i] = arena
    BY <1>1, <1>2, <1>3 DEF ToSet
  <2>2. CASE i = 1
    <3>1. Last(c) = c[Len(c)] /\ Len(c) \in 1..Len(c)
      BY <1>3 DEF Last
    <3> QED
      BY <1>1, <1>3, <2>1, <2>2, <3>1
  <2>3. CASE i # 1
    <3>1. i \in 2..Len(c) /\ i - 1 \in 1..Len(c)
      BY <1>3, <2>3
    <3> QED
      BY <1>3, <2>1, <3>1
  <2> QED
    BY <2>2, <2>3
<1>6. \A i \in 1..Len(c) : s.next[c[i]] = arena => i = k
  <2>1. ASSUME NEW i \in 1..Len(c), s.next[c[i]] = arena PROVE i = k
    <3>1. c[i] = c[k]
      BY <1>2, <1>3, <1>5, <2>1, NextInjective
    <3> QED
      BY <1>3, <3>1 DEF IsInjective
  <2> QED
    BY <2>1
<1>7. up = (1..Len(c)) \ {k}
  BY <1>3, <1>4, <1>5, <1>6
<1>8. IsFiniteSet(1..Len(c)) /\ Cardinality(1..Len(c)) = Len(c)
  BY <1>3, FS_Interval
<1>9. Cardinality(up) = Len(c) - 1
  BY <1>5, <1>7, <1>8, FS_RemoveElement
<1> QED
  BY <1>9 DEF c

LEMMA InvCircle == IInv => FreeCircle
<1> SUFFICES ASSUME IInv PROVE FreeCircle
  OBVIOUS
<1>1. PICK P : FreeBlocks(heap, P)
  BY DEF IInv, InvOf, MemoryInv
<1> DEFINE c == circle(heap)
<1>2. ToSet(c) = P /\ heap.next[Last(c)] = heap.slobfree
  BY <1>1, CircleWalks
<1>3. Cardinality({i \in DOMAIN c : c[i] < heap.next[c[i]]}) = Len(c) - 1
  BY <1>1, CircleOnce
<1> HIDE DEF c
<1>4. arena \in ToSet(c)
  BY <1>1, <1>2, BlockFacts
<1>5. ASSUME NEW a \in ToSet(c) PROVE heap.units[a] > 0 /\ a + heap.units[a] \notin ToSet(c)
  <2>1. /\ P \in SUBSET Nat /\ a \in P /\ heap.units[a] \in Nat /\ heap.units[a] > 0
        /\ \A b \in P : a < b => a + heap.units[a] < b
    BY <1>1, <1>2, BlockFacts
  <2>2. ASSUME a + heap.units[a] \in P PROVE FALSE
    <3> DEFINE b == a + heap.units[a]
    <3>1. b \in Nat /\ a < b
      BY <2>1
    <3>2. b < b
      BY <2>1, <2>2, <3>1
    <3> QED
      BY <3>1, <3>2
  <2> QED
    BY <1>2, <2>1, <2>2
<1> QED
  BY <1>2, <1>3, <1>4, <1>5 DEF FreeCircle, c

\* From slobfree the list always comes round, through the arena, upwards but for one step,
\* and blocks that touch are one: so slob_alloc's search ends, and slob_free finds the place.
THEOREM ListIsCircle == Spec => []FreeCircle
BY Invariance, InvCircle, PTL

-----------------------------------------------------------------------------
(* What it says of the memory. *)

ListPiece(s, a) == [of |-> <<"list">>, units |-> unit_range(a, s.units[a])]
ObjectPiece(s, gt, c) ==
  [of |-> <<"object", c>>, units |-> unit_range(gt[c].block - 1, s.units[gt[c].block - 1])]
RecordPiece(bb) == [of |-> <<"record">>, units |-> RecordUnits(bb)]
PagesPiece(bb) == [of |-> <<"pages", bb.at>>, units |-> LargeUnits(bb)]
FreePiece(p) == [of |-> <<"free">>, units |-> on_page(p)]

\* The units of who has a small object.
SmallOf(s, gt) == {c \in Client : gt[c] # none /\ ~Large_at(s, gt[c].block)}

Pieces(s, fr, gt, P) ==
  {ListPiece(s, a) : a \in P} \cup {ObjectPiece(s, gt, c) : c \in SmallOf(s, gt)}
    \cup {RecordPiece(bb) : bb \in ToSet(s.bigblocks)} \cup {PagesPiece(bb) : bb \in ToSet(s.bigblocks)}
    \cup {FreePiece(p) : p \in fr}

\* The piece x is of those whose units have the owner t.
PieceOf(s, fr, gt, P, x, t) ==
  \/ t = ListTag /\ \E a \in P : x = ListPiece(s, a)
  \/ t = FreeTag /\ \E p \in fr : x = FreePiece(p)
  \/ \E c \in SmallOf(s, gt) : t = ObjectTag(c) /\ x = ObjectPiece(s, gt, c)
  \/ \E bb \in ToSet(s.bigblocks) : \/ t = RecordTag(bb) /\ x = RecordPiece(bb)
                                    \/ t = PagesTag(bb) /\ x = PagesPiece(bb)

\* A unit is in one piece, that of its owner.
LEMMA OnePiece ==
  ASSUME IInv, NEW P, FreeBlocks(heap, P), NEW own,
         Owned(own, Units(heap.units, P), free, Objects(heap, got), ToSet(heap.bigblocks)),
         NEW a \in Addr
  PROVE  /\ \E x \in Pieces(heap, free, got, P) : a \in x.units
         /\ \A x, y \in Pieces(heap, free, got, P) : a \in x.units /\ a \in y.units => x = y
<1> DEFINE pieces == Pieces(heap, free, got, P)
           bigs == ToSet(heap.bigblocks)
           small == SmallOf(heap, got)
           O == Objects(heap, got)
           L == Units(heap.units, P)
<1>1. /\ own[a] \in Tags(bigs)
      /\ own[a] = ListTag <=> a \in L
      /\ own[a] = FreeTag <=> a \in FreeUnits(free)
      /\ \A c \in Client : own[a] = ObjectTag(c) <=> a \in O[c]
      /\ \A bb \in bigs : /\ own[a] = RecordTag(bb) <=> a \in RecordUnits(bb)
                          /\ own[a] = PagesTag(bb) <=> a \in LargeUnits(bb)
  BY DEF Owned, Has
<1>2. \A c \in small : O[c] = ObjectPiece(heap, got, c).units
  BY DEF SmallOf, Objects, ObjectUnits, ObjectPiece
<1>3. \A c \in Client : c \notin small => O[c] = {}
  BY DEF SmallOf, Objects, ObjectUnits
<1>4. L = UNION {ListPiece(heap, b).units : b \in P}
  BY DEF Units, ListPiece
<1>5. FreeUnits(free) = UNION {FreePiece(p).units : p \in free}
  BY DEF FreeUnits, FreePiece
<1>6. \A bb \in bigs : RecordPiece(bb).units = RecordUnits(bb) /\ PagesPiece(bb).units = LargeUnits(bb)
  BY DEF RecordPiece, PagesPiece
<1>7. small \in SUBSET Client
  BY DEF SmallOf
<1> HIDE DEF O, L
<1>8. ASSUME NEW x \in pieces, a \in x.units PROVE PieceOf(heap, free, got, P, x, own[a])
  <2>1. CASE \E b \in P : x = ListPiece(heap, b)
    BY <1>1, <1>4, <1>8, <2>1 DEF PieceOf
  <2>2. CASE \E c \in small : x = ObjectPiece(heap, got, c)
    BY <1>1, <1>2, <1>7, <1>8, <2>2 DEF PieceOf
  <2>3. CASE \E bb \in bigs : x = RecordPiece(bb)
    BY <1>1, <1>6, <1>8, <2>3 DEF PieceOf
  <2>4. CASE \E bb \in bigs : x = PagesPiece(bb)
    BY <1>1, <1>6, <1>8, <2>4 DEF PieceOf
  <2>5. CASE \E p \in free : x = FreePiece(p)
    BY <1>1, <1>5, <1>8, <2>5 DEF PieceOf
  <2> QED
    BY <2>1, <2>2, <2>3, <2>4, <2>5 DEF Pieces
<1>9. \E x \in pieces : a \in x.units
  <2>1. CASE own[a] = ListTag
    BY <1>1, <1>4, <2>1 DEF Pieces
  <2>2. CASE own[a] = FreeTag
    BY <1>1, <1>5, <2>2 DEF Pieces
  <2>3. CASE \E c \in Client : own[a] = ObjectTag(c)
    BY <1>1, <1>2, <1>3, <2>3 DEF Pieces
  <2>4. CASE \E bb \in bigs : own[a] = RecordTag(bb)
    BY <1>1, <1>6, <2>4 DEF Pieces
  <2>5. CASE \E bb \in bigs : own[a] = PagesTag(bb)
    BY <1>1, <1>6, <2>5 DEF Pieces
  <2> QED
    BY <1>1, <2>1, <2>2, <2>3, <2>4, <2>5 DEF Tags
<1>10. ASSUME NEW b \in P, NEW d \in P, a \in ListPiece(heap, b).units, a \in ListPiece(heap, d).units
       PROVE  b = d
  <2>1. /\ P \in SUBSET Nat /\ heap.units[b] \in Nat /\ heap.units[d] \in Nat
        /\ b < d => b + heap.units[b] < d
        /\ d < b => d + heap.units[d] < b
    BY BlockFacts
  <2>2. a \in b..(b + heap.units[b] - 1) /\ a \in d..(d + heap.units[d] - 1)
    BY <1>10 DEF ListPiece, unit_range
  <2> QED
    BY <2>1, <2>2
<1>11. ASSUME NEW p \in free, NEW q \in free, a \in FreePiece(p).units, a \in FreePiece(q).units
       PROVE  p = q
  <2>1. p \in Nat /\ q \in Nat
    BY DEF IInv, InvOf, MemoryInv, Page
  <2> QED
    BY <1>11, <2>1, PageFacts DEF FreePiece
<1>12. ASSUME NEW x \in pieces, NEW y \in pieces, a \in x.units, a \in y.units PROVE x = y
  <2>1. PieceOf(heap, free, got, P, x, own[a]) /\ PieceOf(heap, free, got, P, y, own[a])
    BY <1>8, <1>12
  <2>2. CASE own[a] = ListTag
    <3>1. (\E b \in P : x = ListPiece(heap, b)) /\ \E b \in P : y = ListPiece(heap, b)
      BY <2>1, <2>2, TagFacts DEF PieceOf
    <3> QED
      BY <1>10, <1>12, <3>1
  <2>3. CASE own[a] = FreeTag
    <3>1. (\E p \in free : x = FreePiece(p)) /\ \E p \in free : y = FreePiece(p)
      BY <2>1, <2>3, TagFacts DEF PieceOf
    <3> QED
      BY <1>11, <1>12, <3>1
  <2>4. ASSUME NEW c \in Client, own[a] = ObjectTag(c) PROVE x = y
    <3>1. x = ObjectPiece(heap, got, c) /\ y = ObjectPiece(heap, got, c)
      BY <2>1, <2>4, TagFacts DEF PieceOf
    <3> QED
      BY <3>1
  <2>5. ASSUME NEW bb \in bigs, own[a] = RecordTag(bb) PROVE x = y
    <3>1. x = RecordPiece(bb) /\ y = RecordPiece(bb)
      BY <2>1, <2>5, TagFacts DEF PieceOf
    <3> QED
      BY <3>1
  <2>6. ASSUME NEW bb \in bigs, own[a] = PagesTag(bb) PROVE x = y
    <3>1. x = PagesPiece(bb) /\ y = PagesPiece(bb)
      BY <2>1, <2>6, TagFacts DEF PieceOf
    <3> QED
      BY <3>1
  <2> QED
    BY <1>1, <2>2, <2>3, <2>4, <2>5, <2>6 DEF Tags
<1> QED
  BY <1>9, <1>12

LEMMA InvUnits == IInv => UnitsConserved
<1> SUFFICES ASSUME IInv PROVE UnitsConserved
  OBVIOUS
<1>1. MemoryInv(heap, free, Objects(heap, got))
  BY DEF IInv, InvOf
<1>2. PICK P, own : /\ FreeBlocks(heap, P)
                    /\ Owned(own, Units(heap.units, P), free, Objects(heap, got), ToSet(heap.bigblocks))
  BY <1>1 DEF MemoryInv, Shared
<1> DEFINE pieces == Pieces(heap, free, got, P)
<1>3. \A a \in Addr : Cardinality({x \in pieces : a \in x.units}) = 1
  <2>1. ASSUME NEW a \in Addr PROVE Cardinality({x \in pieces : a \in x.units}) = 1
    <3>1. PICK x \in pieces : a \in x.units
      BY <1>2, OnePiece
    <3>2. \A y \in pieces : a \in y.units => y = x
      BY <1>2, <3>1, OnePiece
    <3> HIDE DEF pieces
    <3>3. {y \in pieces : a \in y.units} = {x}
      BY <3>1, <3>2
    <3> QED
      BY <3>3, FS_Singleton
  <2> QED
    BY <2>1
<1>4. ToSet(circle(heap)) = P
  BY <1>2, CircleWalks
<1>5. {c \in Client : got[c] # none /\ records(got[c].block) = {}} = SmallOf(heap, got)
  BY <1>1, RecordsOf DEF SmallOf
<1> DEFINE piece(of, begin, n) == [of |-> of, units |-> unit_range(begin, n)]
           small == {c \in Client : got[c] # none /\ records(got[c].block) = {}}
           large == ToSet(heap.bigblocks)
<1>6. {piece(<<"list">>, a, heap.units[a]) : a \in ToSet(circle(heap))} = {ListPiece(heap, a) : a \in P}
  BY <1>4 DEF ListPiece
<1>7. {piece(<<"object", c>>, got[c].block - 1, heap.units[got[c].block - 1]) : c \in small}
        = {ObjectPiece(heap, got, c) : c \in SmallOf(heap, got)}
  BY <1>5 DEF ObjectPiece
<1>8. {piece(<<"record">>, bb.at, SLOB_UNITS(BIGBLOCK)) : bb \in large} = {RecordPiece(bb) : bb \in large}
  BY DEF RecordPiece, RecordUnits
<1>9. {piece(<<"pages", bb.at>>, bb.pages, 2 ^ bb.order * perpage) : bb \in large} = {PagesPiece(bb) : bb \in large}
  BY DEF PagesPiece, LargeUnits
<1>10. {piece(<<"free">>, p * perpage, perpage) : p \in free} = {FreePiece(p) : p \in free}
  BY DEF FreePiece, on_page
<1>11. pieces = {piece(<<"list">>, a, heap.units[a]) : a \in ToSet(circle(heap))}
          \cup {piece(<<"object", c>>, got[c].block - 1, heap.units[got[c].block - 1]) : c \in small}
          \cup {piece(<<"record">>, bb.at, SLOB_UNITS(BIGBLOCK)) : bb \in large}
          \cup {piece(<<"pages", bb.at>>, bb.pages, 2 ^ bb.order * perpage) : bb \in large}
          \cup {piece(<<"free">>, p * perpage, perpage) : p \in free}
  <2> HIDE DEF piece, small, large
  <2>1. pieces = {ListPiece(heap, a) : a \in P} \cup {ObjectPiece(heap, got, c) : c \in SmallOf(heap, got)}
                   \cup {RecordPiece(bb) : bb \in large} \cup {PagesPiece(bb) : bb \in large}
                   \cup {FreePiece(p) : p \in free}
    BY DEF Pieces, large
  <2> QED
    BY <1>6, <1>7, <1>8, <1>9, <1>10, <2>1
<1> HIDE DEF pieces
<1> QED
  BY <1>3, <1>11, Zenon DEF UnitsConserved

\* Every unit of memory is in exactly one block of the list, object, record or page, whatever
\* the callers ask for and give back, and whichever pages kmalloc is given.
THEOREM UnitsAccounted == Spec => []UnitsConserved
BY Invariance, InvUnits, PTL

-----------------------------------------------------------------------------
(* kmalloc is a heap. *)

\* The pages of a large object, as find_order counts them, have its bytes.  For some sizes
\* they have not: then alloc_pages gives less than the caller asked for.
OrderSuffices == \A size \in Size : size <= 2 ^ find_order(size) * PGSIZE

\* A byte of s bytes from the unit b on is in one of the m units they fill.
LEMMA ByteUnit ==
  ASSUME NEW b \in Nat, NEW m \in Nat, NEW s \in Nat, s <= m * SLOB_UNIT,
         NEW x \in (b * SLOB_UNIT)..(b * SLOB_UNIT + s - 1)
  PROVE  x \div SLOB_UNIT \in unit_range(b, m)
<1> DEFINE U == SLOB_UNIT
           q == x \div U
<1>1. U \in Nat /\ U > 0
  BY SlobAssumption
<1>2. b * U \in Nat /\ m * U \in Nat /\ x \in Nat /\ b * U <= x /\ x < b * U + m * U
  BY <1>1
<1>3. q \in Nat /\ U * q <= x /\ x < U * q + U
  BY <1>1, <1>2, Quotient
<1> HIDE DEF q, U
<1>4. q + 1 <= b => U * q + U <= b * U
  BY <1>1, <1>3
<1>5. q >= b + m => U * q >= b * U + m * U
  BY <1>1, <1>3
<1>6. q * U = U * q /\ U * q \in Nat
  BY <1>1, <1>3
<1>7. q >= b
  BY <1>1, <1>2, <1>3, <1>4, <1>6
<1>8. q < b + m
  BY <1>1, <1>2, <1>3, <1>5, <1>6
<1>9. q \in unit_range(b, m)
  BY <1>3, <1>7, <1>8 DEF unit_range
<1> QED
  BY <1>9 DEF q, U

\* The bytes of an object, in units, are in X.
BytesIn(g, X) == \A x \in HeapOf!bytes(g) : x \div SLOB_UNIT \in X

\* The bytes of a small object are in its units, those of a large one on its pages.
LEMMA BytesFacts ==
  ASSUME OrderSuffices, NEW hp, NEW fr, NEW gt, InvOf(hp, fr, gt), NEW c \in Client, gt[c] # none
  PROVE  /\ ~Large_at(hp, gt[c].block) => BytesIn(gt[c], Objects(hp, gt)[c])
         /\ Large_at(hp, gt[c].block) =>
              \E bb \in ToSet(hp.bigblocks) : bb.pages = gt[c].block /\ BytesIn(gt[c], LargeUnits(bb))
<1>1. gt[c] \in {none} \cup [block : Addr, size : Size] /\ Caller(hp, gt[c])
  BY DEF InvOf, CallersInv
<1>2. gt[c].block \in Nat /\ gt[c].size \in Nat /\ gt[c].size \in Size /\ gt[c].size > 0
  BY <1>1, NoneFacts
<1>3. SLOB_UNIT \in Nat /\ SLOB_UNIT > 0
  BY SlobAssumption
<1>4. HeapOf!bytes(gt[c]) \subseteq
         (gt[c].block * SLOB_UNIT)..(gt[c].block * SLOB_UNIT + gt[c].size - 1)
  BY DEF HeapOf!bytes, HeapOf!none, none
<1>5. ASSUME ~Large_at(hp, gt[c].block) PROVE BytesIn(gt[c], Objects(hp, gt)[c])
  <2> DEFINE b == gt[c].block - 1
             n == hp.units[b]
             s == gt[c].size
  <2>1. /\ b \in Nat /\ gt[c].block = b + 1 /\ Objects(hp, gt)[c] = unit_range(b, n)
        /\ n = SLOB_UNITS(s + SLOB_UNIT) /\ n \in Nat /\ n >= 2
        /\ s + SLOB_UNIT + SLOB_UNIT < PGSIZE
    <3>1. /\ b \in Nat /\ Objects(hp, gt)[c] = unit_range(b, n)
          /\ n = SLOB_UNITS(s + SLOB_UNIT) /\ n \in Nat /\ n >= 2
          /\ s + SLOB_UNIT + SLOB_UNIT < PGSIZE
      BY <1>5, SmallFacts
    <3> HIDE DEF n
    <3> QED
      BY <1>2, <3>1
  <2> HIDE DEF b, n
  <2>2. n * SLOB_UNIT >= s + SLOB_UNIT
    <3>1. s + SLOB_UNIT \in Nat /\ s + SLOB_UNIT > SLOB_UNIT /\ s + SLOB_UNIT + SLOB_UNIT <= PGSIZE
      BY <1>2, <1>3, <2>1, SlobAssumption
    <3> QED
      BY <2>1, <3>1, SizeUnits
  <2>3. n - 1 \in Nat /\ s <= (n - 1) * SLOB_UNIT
    BY <1>2, <1>3, <2>1, <2>2
  <2>4. unit_range(b + 1, n - 1) \subseteq unit_range(b, n)
    BY <2>1 DEF unit_range
  <2>5. \A x \in HeapOf!bytes(gt[c]) : x \div SLOB_UNIT \in unit_range(b + 1, n - 1)
    BY <1>2, <1>4, <2>1, <2>3, ByteUnit
  <2> QED
    BY <2>1, <2>4, <2>5 DEF BytesIn
<1>6. ASSUME Large_at(hp, gt[c].block)
      PROVE  \E bb \in ToSet(hp.bigblocks) : bb.pages = gt[c].block /\ BytesIn(gt[c], LargeUnits(bb))
  <2>1. PICK bb \in ToSet(hp.bigblocks) : bb.pages = gt[c].block /\ bb.order = find_order(gt[c].size)
    BY <1>1, <1>6 DEF Caller
  <2> DEFINE n == 2 ^ bb.order
  <2>2. n \in Nat
    <3>1. find_order(gt[c].size) \in Nat
      BY <1>2, OrderFound
    <3> QED
      BY <2>1, <3>1, Powers
  <2>3. gt[c].size <= n * PGSIZE
    BY <1>2, <2>1 DEF OrderSuffices
  <2> HIDE DEF n
  <2>4. n * perpage \in Nat /\ n * PGSIZE = (n * perpage) * SLOB_UNIT
    <3>1. perpage \in Nat /\ perpage * SLOB_UNIT = PGSIZE
      BY AddrFacts
    <3> HIDE DEF perpage
    <3> QED
      BY <1>3, <2>2, <3>1
  <2>5. \A x \in HeapOf!bytes(gt[c]) : x \div SLOB_UNIT \in unit_range(gt[c].block, n * perpage)
    BY <1>2, <1>4, <2>3, <2>4, ByteUnit
  <2>6. BytesIn(gt[c], LargeUnits(bb))
    BY <2>1, <2>5 DEF BytesIn, LargeUnits, n
  <2> QED
    BY <2>1, <2>6
<1> QED
  BY <1>5, <1>6

\* No byte is in the objects of two callers.
LEMMA BytesApart ==
  ASSUME OrderSuffices, NEW hp, NEW fr, NEW gt, InvOf(hp, fr, gt),
         NEW c \in Client, NEW d \in Client, c # d
  PROVE  HeapOf!bytes(gt[c]) \cap HeapOf!bytes(gt[d]) = {}
<1> DEFINE O == Objects(hp, gt)
           bigs == ToSet(hp.bigblocks)
<1>1. CASE gt[c] = none \/ gt[d] = none
  BY <1>1 DEF HeapOf!bytes, HeapOf!none, none
<1>2. CASE gt[c] # none /\ gt[d] # none
  <2>1. PICK L, own : Owned(own, L, fr, O, bigs)
    BY DEF InvOf, MemoryInv, Shared
  <2>2. Shared(L, fr, O, bigs)
    BY <2>1 DEF Shared
  <2>3. /\ ~Large_at(hp, gt[c].block) => BytesIn(gt[c], O[c])
        /\ Large_at(hp, gt[c].block) =>
              \E bb \in bigs : bb.pages = gt[c].block /\ BytesIn(gt[c], LargeUnits(bb))
    BY <1>2, BytesFacts
  <2>4. /\ ~Large_at(hp, gt[d].block) => BytesIn(gt[d], O[d])
        /\ Large_at(hp, gt[d].block) =>
              \E bb \in bigs : bb.pages = gt[d].block /\ BytesIn(gt[d], LargeUnits(bb))
    BY <1>2, BytesFacts
  <2> HIDE DEF O, bigs
  <2>5. /\ O[c] \cap O[d] = {}
        /\ \A bb \in bigs : /\ O[c] \cap LargeUnits(bb) = {} /\ O[d] \cap LargeUnits(bb) = {}
                            /\ \A cc \in bigs : bb # cc => LargeUnits(bb) \cap LargeUnits(cc) = {}
    BY <2>2, SharedApart
  <2>6. Large_at(hp, gt[c].block) => gt[c].block # gt[d].block
    BY <1>2 DEF InvOf, CallersInv
  <2>7. \E X, Y : BytesIn(gt[c], X) /\ BytesIn(gt[d], Y) /\ X \cap Y = {}
    <3>1. CASE ~Large_at(hp, gt[c].block) /\ ~Large_at(hp, gt[d].block)
      BY <2>3, <2>4, <2>5, <3>1
    <3>2. CASE ~Large_at(hp, gt[c].block) /\ Large_at(hp, gt[d].block)
      BY <2>3, <2>4, <2>5, <3>2
    <3>3. CASE Large_at(hp, gt[c].block) /\ ~Large_at(hp, gt[d].block)
      <4>1. PICK bb \in bigs : BytesIn(gt[c], LargeUnits(bb))
        BY <2>3, <3>3
      <4>2. LargeUnits(bb) \cap O[d] = {}
        BY <2>5
      <4> QED
        BY <2>4, <3>3, <4>1, <4>2
    <3>4. CASE Large_at(hp, gt[c].block) /\ Large_at(hp, gt[d].block)
      <4>1. PICK bb \in bigs : bb.pages = gt[c].block /\ BytesIn(gt[c], LargeUnits(bb))
        BY <2>3, <3>4
      <4>2. PICK cc \in bigs : cc.pages = gt[d].block /\ BytesIn(gt[d], LargeUnits(cc))
        BY <2>4, <3>4
      <4>3. LargeUnits(bb) \cap LargeUnits(cc) = {}
        BY <2>5, <2>6, <3>4, <4>1, <4>2
      <4> QED
        BY <4>1, <4>2, <4>3
    <3> QED
      BY <3>1, <3>2, <3>3, <3>4
  <2> QED
    BY <2>7 DEF BytesIn
<1> QED
  BY <1>1, <1>2

\* A block c is given, and nothing else changes for the callers.
LEMMA GivesBlock ==
  ASSUME OrderSuffices, IInv', NEW c \in Client, got[c] = none,
         NEW g \in [block : Addr, size : Size], got' = [got EXCEPT ![c] = g],
         g.size >= PGSIZE => (g.block * SLOB_UNIT) % PGSIZE = 0,
         got \in [Client -> {none} \cup [block : Addr, size : Size]]
  PROVE  HeapOf!Next
<1>1. got'[c] = g /\ \A d \in Client : d # c => got'[d] = got[d]
  OBVIOUS
<1>2. \A other \in Client : HeapOf!bytes(g) \cap HeapOf!bytes(got[other]) = {}
  <2>1. ASSUME NEW d \in Client PROVE HeapOf!bytes(g) \cap HeapOf!bytes(got[d]) = {}
    <3>1. CASE d = c
      BY <3>1 DEF HeapOf!bytes, HeapOf!none, none
    <3>2. CASE d # c
      <4>1. InvOf(heap', free', got')
        BY DEF IInv
      <4> HIDE DEF HeapOf!bytes
      <4>2. HeapOf!bytes(got'[c]) \cap HeapOf!bytes(got'[d]) = {}
        BY <3>2, <4>1, BytesApart
      <4> QED
        BY <1>1, <3>2, <4>2
    <3> QED
      BY <3>1, <3>2
  <2> QED
    BY <2>1
<1>3. HeapOf!Kmalloc(c, g)
  BY <1>2 DEF HeapOf!Kmalloc, HeapOf!none, none
<1> QED
  BY <1>3 DEF HeapOf!Next

\* To the callers kmalloc and kfree are a heap: the bytes of an object are nobody else's until
\* it is freed, and large objects begin on a page.
THEOREM ImplementsTheHeap == ASSUME OrderSuffices PROVE Spec => ImplementsHeap
<1>1. Init => HeapOf!Init
  BY DEF Init, HeapOf!Init, HeapOf!none, none
<1>2. IInv /\ IInv' /\ [Next]_vars => [HeapOf!Next]_got
  <2> SUFFICES ASSUME IInv, IInv', [Next]_vars PROVE HeapOf!Next \/ got' = got
    BY DEF HeapOf!Next
  <2>1. got \in [Client -> {none} \cup [block : Addr, size : Size]]
    BY DEF IInv, InvOf, CallersInv
  <2>2. \A d \in Client : got'[d] # none => got'[d] \in [block : Addr, size : Size]
    BY DEF IInv, InvOf, CallersInv
  <2>3. ASSUME NEW c \in Client, NEW size \in Size, Small(c, size) PROVE HeapOf!Next
    <3>1. PICK k : got' = [got EXCEPT ![c] = [block |-> k, size |-> size]]
      BY <2>3 DEF Small
    <3> DEFINE g == [block |-> k, size |-> size]
    <3>2. got'[c] = g /\ g.size = size /\ g # none
      BY <2>1, <3>1, SlobAssumption DEF none
    <3>3. g \in [block : Addr, size : Size]
      BY <2>2, <3>2
    <3>4. ~(size >= PGSIZE)
      BY <2>3, SlobAssumption DEF Small
    <3> QED
      BY <2>1, <2>3, <3>1, <3>2, <3>3, <3>4, GivesBlock DEF Small
  <2>4. ASSUME NEW c \in Client, NEW size \in Size, Large(c, size) PROVE HeapOf!Next
    <3>1. PICK page, p \in free : got' = [got EXCEPT ![c] = [block |-> p * perpage, size |-> size]]
      BY <2>4 DEF Large, runs
    <3> DEFINE g == [block |-> p * perpage, size |-> size]
    <3>2. got'[c] = g /\ g.size = size /\ g # none /\ g.block = p * perpage
      BY <2>1, <3>1, SlobAssumption DEF none
    <3>3. g \in [block : Addr, size : Size]
      BY <2>2, <3>2
    <3>4. ((p * perpage) * SLOB_UNIT) % PGSIZE = 0
      <4>1. p \in Nat /\ perpage \in Nat /\ perpage * SLOB_UNIT = PGSIZE /\ SLOB_UNIT \in Nat /\ PGSIZE \in Nat /\ PGSIZE > 0
        BY AddrFacts, SlobAssumption DEF IInv, InvOf, MemoryInv, Page
      <4> HIDE DEF perpage
      <4>2. (p * perpage) * SLOB_UNIT = p * PGSIZE
        BY <4>1
      <4>3. (p * PGSIZE) % PGSIZE = 0
        BY <4>1
      <4> QED
        BY <4>2, <4>3
    <3> QED
      BY <2>1, <2>4, <3>1, <3>2, <3>3, <3>4, GivesBlock DEF Large
  <2>5. ASSUME NEW c \in Client, NEW size \in Size, LargeFails(c, size) PROVE got' = got
    BY <2>5 DEF LargeFails
  <2>6. ASSUME NEW c \in Client, KfreeSmall(c) \/ KfreeLarge(c) PROVE HeapOf!Next
    <3>1. HeapOf!Kfree(c)
      BY <2>6 DEF KfreeSmall, KfreeLarge, HeapOf!Kfree, HeapOf!none, none
    <3> QED
      BY <3>1 DEF HeapOf!Next
  <2>7. CASE UNCHANGED vars
    BY <2>7 DEF vars
  <2> QED
    BY <2>3, <2>4, <2>5, <2>6, <2>7 DEF Next
<1> QED
  BY <1>1, <1>2, Invariance, PTL DEF Spec, ImplementsHeap, HeapOf!Spec
=============================================================================
