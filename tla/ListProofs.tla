----------------------------- MODULE ListProofs ----------------------------
(***************************************************************************)
(* What the proofs about several components need: induction in a form that *)
(* the provers can apply, about sets of numbers and not about formulas,    *)
(* and the operations of libs/list.h, list_del, list_add and the insertion *)
(* in the middle of a list, on the sequence of its entries.                *)
(***************************************************************************)
EXTENDS Integers, SequencesExt, SequenceTheorems, WellFoundedInduction, TLAPS

\* A set of natural numbers has a least one.
LEMMA LeastNat ==
  ASSUME NEW T \in SUBSET Nat, T # {}
  PROVE  \E m \in T : \A k \in T : m <= k
<1> DEFINE R == OpToRel(<, Nat)
<1>1. IsWellFoundedOn(R, Nat)
  BY NatLessThanWellFounded
<1>2. \A x, y \in Nat : x < y => <<x, y>> \in R
  BY DEF OpToRel
<1> HIDE DEF R
<1>3. PICK m \in T : \A y \in T : <<y, m>> \notin R
  BY <1>1, WFMin
<1>4. ASSUME NEW k \in T PROVE m <= k
  <2>1. m \in Nat /\ k \in Nat
    OBVIOUS
  <2>2. ~(k < m)
    BY <1>2, <1>3, <2>1
  <2> QED
    BY <2>1, <2>2
<1> QED
  BY <1>4

\* Induction: a set with first in it, and the successor of each number up to last of it,
\* has them all.
LEMMA Induction ==
  ASSUME NEW first \in Nat, NEW last \in Nat, NEW T,
         first \in T, \A n \in first..(last - 1) : n \in T => n + 1 \in T
  PROVE  \A n \in first..last : n \in T
<1> DEFINE Out == {n \in first..last : n \notin T}
<1> SUFFICES ASSUME Out # {} PROVE FALSE
  OBVIOUS
<1>1. Out \in SUBSET Nat
  OBVIOUS
<1>2. PICK m \in Out : \A k \in Out : m <= k
  <2> HIDE DEF Out
  <2> QED
    BY <1>1, LeastNat
<1>3. m \in first..last /\ m # first
  BY <1>2
<1>4. m - 1 \in first..(last - 1) /\ m - 1 \notin Out
  BY <1>2, <1>3
<1>5. m - 1 \in T
  BY <1>4
<1>6. (m - 1) + 1 \in T
  BY <1>4, <1>5
<1> QED
  BY <1>2, <1>3, <1>6

\* A set of integers with a lower bound has a least one.
LEMMA LeastInt ==
  ASSUME NEW T \in SUBSET Int, T # {}, NEW bound \in Int, \A k \in T : bound <= k
  PROVE  \E m \in T : \A k \in T : m <= k
<1> DEFINE D == {k - bound : k \in T}
<1>1. D \in SUBSET Nat /\ D # {}
  <2>1. \A k \in T : k - bound \in Nat
    OBVIOUS
  <2> QED
    BY <2>1
<1>2. PICK d \in D : \A k \in D : d <= k
  <2> HIDE DEF D
  <2> QED
    BY <1>1, LeastNat
<1>3. PICK m \in T : d = m - bound
  OBVIOUS
<1>4. \A k \in T : m - bound <= k - bound
  BY <1>2, <1>3
<1> QED
  BY <1>4

\* F[i] is turn i of a loop: what it does to an element of X is in X.
Keeps(F, X, a, b) == \A i \in (a + 1)..b : \A x \in X : F[i][x] \in X

\* g is what the loop has, from m in X before the first turn to the last turn b.
Computes(g, F, X, m, a, b) ==
  /\ g = [i \in a..b |-> g[i]]
  /\ g[a] = m
  /\ \A i \in (a + 1)..b : g[i] = F[i][g[i - 1]]
  /\ \A i \in a..b : g[i] \in X

\* A loop that leaves an element of X after each turn computes something.
LEMMA LoopExists ==
  ASSUME NEW X, NEW m \in X, NEW a \in Nat, NEW b \in Nat, a <= b,
         NEW F, Keeps(F, X, a, b)
  PROVE  \E g : Computes(g, F, X, m, a, b)
<1> DEFINE T == {n \in a..b : \E g : Computes(g, F, X, m, a, n)}
<1>1. a \in T
  <2> DEFINE g == [i \in a..a |-> m]
  <2>1. Computes(g, F, X, m, a, a)
    BY DEF Computes
  <2>2. a \in a..b
    OBVIOUS
  <2> HIDE DEF g
  <2> QED
    BY <2>1, <2>2
<1>2. ASSUME NEW n \in a..(b - 1), n \in T PROVE n + 1 \in T
  <2>1. PICK g : Computes(g, F, X, m, a, n)
    BY <1>2
  <2> DEFINE h == [i \in a..(n + 1) |-> IF i = n + 1 THEN F[i][g[n]] ELSE g[i]]
  <2>2. n \in a..n /\ n + 1 \in (a + 1)..b /\ n + 1 \in a..b
    OBVIOUS
  <2>3. g[n] \in X /\ F[n + 1][g[n]] \in X
    BY <2>1, <2>2 DEF Computes, Keeps
  <2>4. ASSUME NEW i \in a..(n + 1)
        PROVE  h[i] \in X /\ (i = a => h[i] = m) /\ (i # a => h[i] = F[i][h[i - 1]])
    <3>1. CASE i = n + 1
      <4>1. i - 1 \in a..(n + 1) /\ i - 1 = n /\ i # a /\ n # n + 1
        BY <3>1
      <4> QED
        BY <2>3, <3>1, <4>1
    <3>2. CASE i # n + 1
      <4>1. i \in a..n /\ h[i] = g[i]
        BY <3>2
      <4>2. i # a => i \in (a + 1)..n /\ i - 1 \in a..(n + 1) /\ i - 1 # n + 1 /\ h[i - 1] = g[i - 1]
        BY <4>1
      <4> QED
        BY <2>1, <4>1, <4>2 DEF Computes
    <3> QED
      BY <3>1, <3>2
  <2>6. h = [i \in a..(n + 1) |-> h[i]]
    OBVIOUS
  <2> HIDE DEF h
  <2>5. Computes(h, F, X, m, a, n + 1)
    <3>1. a \in a..(n + 1) /\ \A i \in (a + 1)..(n + 1) : i \in a..(n + 1) /\ i # a
      OBVIOUS
    <3> QED
      BY <2>4, <2>6, <3>1 DEF Computes
  <2> QED
    BY <2>2, <2>5
<1> HIDE DEF T
<1>3. \A n \in a..b : n \in T
  BY <1>1, <1>2, Induction
<1>4. b \in T
  BY <1>3
<1> QED
  BY <1>4 DEF T

\* What each turn leaves in X if it finds it in X, the loop leaves in X.
LEMMA LoopKeeps ==
  ASSUME NEW X, NEW a \in Nat, NEW b \in Nat, a <= b, NEW d, d[a] \in X,
         \A i \in (a + 1)..b : d[i - 1] \in X => d[i] \in X
  PROVE  \A i \in a..b : d[i] \in X
<1> DEFINE T == {i \in a..b : d[i] \in X}
<1>1. a \in T
  OBVIOUS
<1>2. ASSUME NEW n \in a..(b - 1), n \in T PROVE n + 1 \in T
  <2>1. n + 1 \in (a + 1)..b /\ n + 1 \in a..b /\ (n + 1) - 1 = n
    OBVIOUS
  <2> QED
    BY <1>2, <2>1
<1> HIDE DEF T
<1>3. \A n \in a..b : n \in T
  BY <1>1, <1>2, Induction
<1> QED
  BY <1>3 DEF T

\* list_del of the entry at k: the others keep their order, and stay distinct.
LEMMA ListDelete ==
  ASSUME NEW S, NEW s \in Seq(S), IsInjective(s), NEW k \in 1..Len(s)
  PROVE  LET d == RemoveAt(s, k)
         IN  /\ d \in Seq(S)
             /\ Len(d) = Len(s) - 1
             /\ Range(d) = Range(s) \ {s[k]}
             /\ IsInjective(d)
             /\ \A i \in 1..Len(d) : d[i] = IF i < k THEN s[i] ELSE s[i + 1]
<1> DEFINE n == Len(s)
           c == s[k]
           a == SubSeq(s, 1, k - 1)
           b == SubSeq(s, k + 1, n)
           l == a \o b
<1>1. n \in Nat /\ DOMAIN s = 1..n /\ \A i \in 1..n : s[i] \in S
  BY LenProperties, ElementOfSeq
<1>2. k \in 1..n /\ s[k] = c
  OBVIOUS
<1>3. a \in Seq(S) /\ Len(a) = k - 1 /\ \A i \in 1..(k - 1) : a[i] = s[i]
  <2>1. k - 1 \in Int /\ \A i \in 1..(k - 1) : s[i] \in S
    BY <1>1, <1>2
  <2>2. /\ SubSeq(s, 1, k - 1) \in Seq(S)
        /\ Len(SubSeq(s, 1, k - 1)) = IF 1 <= k - 1 THEN k - 1 - 1 + 1 ELSE 0
        /\ \A i \in 1..(k - 1 - 1 + 1) : SubSeq(s, 1, k - 1)[i] = s[1 + i - 1]
    BY <2>1, SubSeqProperties
  <2> QED
    BY <1>2, <2>2
<1>4. b \in Seq(S) /\ Len(b) = n - k /\ \A i \in 1..(n - k) : b[i] = s[k + i]
  <2>1. k + 1 \in Int /\ n \in Int /\ \A i \in (k + 1)..n : s[i] \in S
    BY <1>1, <1>2
  <2> HIDE DEF n
  <2>2. /\ SubSeq(s, k + 1, n) \in Seq(S)
        /\ Len(SubSeq(s, k + 1, n)) = IF k + 1 <= n THEN n - (k + 1) + 1 ELSE 0
        /\ \A i \in 1..(n - (k + 1) + 1) : SubSeq(s, k + 1, n)[i] = s[k + 1 + i - 1]
    BY <2>1, SubSeqProperties
  <2> QED
    BY <1>1, <1>2, <2>2
<1> HIDE DEF a, b, n, c
<1>5. /\ l \in Seq(S)
      /\ Len(l) = n - 1
      /\ \A i \in 1..(n - 1) : l[i] = IF i < k THEN s[i] ELSE s[i + 1]
  <2>1. /\ l \in Seq(S)
        /\ Len(l) = Len(a) + Len(b)
        /\ \A i \in 1..(Len(a) + Len(b)) : l[i] = IF i <= Len(a) THEN a[i] ELSE b[i - Len(a)]
    BY <1>3, <1>4, ConcatProperties
  <2> HIDE DEF l
  <2> QED
    BY <1>1, <1>2, <1>3, <1>4, <2>1
<1> HIDE DEF l
<1>6. DOMAIN l = 1..(n - 1)
  BY <1>5, LenProperties
<1>7. \A i, j \in 1..n : s[i] = s[j] => i = j
  BY <1>1 DEF IsInjective
<1>8. Range(l) = Range(s) \ {c}
  <2>1. ASSUME NEW i \in 1..(n - 1) PROVE l[i] \in Range(s) \ {c}
    <3>1. \E m \in 1..n : m # k /\ l[i] = s[m]
      <4>1. CASE i < k
        BY <1>1, <1>2, <1>5, <4>1
      <4>2. CASE ~(i < k)
        <5>1. i + 1 \in 1..n /\ i + 1 # k /\ l[i] = s[i + 1]
          BY <1>1, <1>2, <1>5, <4>2
        <5> QED
          BY <5>1
      <4> QED
        BY <4>1, <4>2
    <3>2. \A m \in 1..n : m # k => s[m] # c
      BY <1>2, <1>7
    <3> QED
      BY <1>1, <3>1, <3>2 DEF Range
  <2>2. ASSUME NEW i \in 1..n, s[i] # c PROVE \E j \in 1..(n - 1) : l[j] = s[i]
    <3>1. CASE i < k
      BY <1>1, <1>2, <1>5, <3>1
    <3>2. CASE i > k
      <4>1. i - 1 \in 1..(n - 1) /\ l[i - 1] = s[i]
        BY <1>1, <1>2, <1>5, <3>2
      <4> QED
        BY <4>1
    <3> QED
      BY <1>1, <1>2, <2>2, <3>1, <3>2
  <2>3. Range(s) = {s[i] : i \in 1..n} /\ Range(l) = {l[i] : i \in 1..(n - 1)}
    BY <1>1, <1>6 DEF Range
  <2>4. \A x \in Range(l) : x \in Range(s) \ {c}
    BY <2>1, <2>3
  <2>5. \A x \in Range(s) \ {c} : x \in Range(l)
    BY <2>2, <2>3
  <2> QED
    BY <2>4, <2>5
<1>9. IsInjective(l)
  BY <1>1, <1>2, <1>5, <1>6, <1>7 DEF IsInjective
<1> QED
  BY <1>5, <1>8, <1>9 DEF RemoveAt, l, a, b, n, c

\* A sequence without one of its members.
LEMMA ListRemove ==
  ASSUME NEW S, NEW s \in Seq(S), IsInjective(s), NEW e \in Range(s)
  PROVE  LET d == RemoveFirst(s, e)
         IN  /\ d \in Seq(S) /\ Range(d) = Range(s) \ {e} /\ IsInjective(d)
             /\ \A k \in 1..Len(s) : s[k] = e => d = RemoveAt(s, k)
<1>1. DOMAIN s = 1..Len(s)
  BY LenProperties
<1>2. PICK k \in 1..Len(s) : s[k] = e
  BY <1>1 DEF Range
<1>3. \A i \in 1..Len(s) : s[i] = e => i = k
  BY <1>1, <1>2 DEF IsInjective
<1>4. {i \in 1..Len(s) : s[i] = e} = {k}
  BY <1>2, <1>3
<1>5. Min({k}) = k
  <2>1. k \in Nat
    OBVIOUS
  <2> QED
    BY <2>1 DEF Min
<1>6. SelectInSeq(s, LAMBDA v : v = e) = k
  BY <1>4, <1>5 DEF SelectInSeq
<1>7. RemoveFirst(s, e) = RemoveAt(s, k)
  BY <1>2, <1>6 DEF RemoveFirst
<1> QED
  BY <1>2, <1>3, <1>7, ListDelete

\* list_add of the new entry c at the head.
LEMMA ListAddHead ==
  ASSUME NEW S, NEW s \in Seq(S), IsInjective(s), NEW c \in S, c \notin Range(s)
  PROVE  LET l == <<c>> \o s
         IN  /\ l \in Seq(S)
             /\ Len(l) = Len(s) + 1
             /\ Range(l) = Range(s) \cup {c}
             /\ IsInjective(l)
             /\ \A i \in 1..Len(l) : l[i] = IF i = 1 THEN c ELSE s[i - 1]
<1> DEFINE n == Len(s)
           l == <<c>> \o s
<1>1. n \in Nat /\ DOMAIN s = 1..n
  BY LenProperties
<1>2. /\ l \in Seq(S)
      /\ Len(l) = n + 1
      /\ \A i \in 1..(n + 1) : l[i] = IF i = 1 THEN c ELSE s[i - 1]
  <2>1. <<c>> \in Seq(S) /\ Len(<<c>>) = 1 /\ <<c>>[1] = c
    OBVIOUS
  <2>2. /\ l \in Seq(S)
        /\ Len(l) = Len(<<c>>) + Len(s)
        /\ \A i \in 1..(Len(<<c>>) + Len(s)) :
              l[i] = IF i <= Len(<<c>>) THEN <<c>>[i] ELSE s[i - Len(<<c>>)]
    BY <1>1, <2>1, ConcatProperties
  <2> HIDE DEF l
  <2> QED
    BY <1>1, <2>1, <2>2
<1> HIDE DEF l
<1>3. DOMAIN l = 1..(n + 1)
  BY <1>2, LenProperties
<1>4. c \notin Range(s) /\ \A i, j \in 1..n : s[i] = s[j] => i = j
  BY <1>1 DEF IsInjective
<1> HIDE DEF n
<1>5. Range(l) = Range(s) \cup {c}
  <2>1. ASSUME NEW i \in 1..n PROVE \E j \in 1..(n + 1) : l[j] = s[i]
    <3>1. i + 1 \in 1..(n + 1) /\ l[i + 1] = s[i]
      BY <1>1, <1>2
    <3> QED
      BY <3>1
  <2>2. 1 \in 1..(n + 1) /\ l[1] = c
    BY <1>1, <1>2
  <2>3. ASSUME NEW j \in 1..(n + 1) PROVE l[j] = c \/ \E i \in 1..n : l[j] = s[i]
    BY <1>1, <1>2
  <2>4. Range(s) = {s[i] : i \in 1..n} /\ Range(l) = {l[i] : i \in 1..(n + 1)}
    BY <1>1, <1>3 DEF Range
  <2>5. \A x \in Range(l) : x \in Range(s) \cup {c}
    BY <2>3, <2>4
  <2>6. \A x \in Range(s) \cup {c} : x \in Range(l)
    BY <2>1, <2>2, <2>4
  <2> QED
    BY <2>5, <2>6
<1>6. IsInjective(l)
  <2>1. \A i \in 1..n : s[i] # c
    BY <1>1, <1>4 DEF Range
  <2> QED
    BY <1>1, <1>2, <1>3, <1>4, <2>1 DEF IsInjective
<1> QED
  BY <1>2, <1>5, <1>6 DEF l, n

\* list_add of c before the entry at k, or at the end: the others keep their order.
LEMMA ListInsert ==
  ASSUME NEW S, NEW s \in Seq(S), NEW k \in 1..(Len(s) + 1), NEW c \in S
  PROVE  LET l == InsertAt(s, k, c)
         IN  /\ l \in Seq(S)
             /\ Len(l) = Len(s) + 1
             /\ \A i \in 1..Len(l) :
                   l[i] = IF i < k THEN s[i] ELSE IF i = k THEN c ELSE s[i - 1]
<1> DEFINE n == Len(s)
           a == SubSeq(s, 1, k - 1)
           b == SubSeq(s, k, n)
           ac == a \o <<c>>
           l == ac \o b
<1>1. n \in Nat /\ k \in Nat /\ 1 <= k /\ k <= n + 1 /\ \A i \in 1..n : s[i] \in S
  BY LenProperties, ElementOfSeq
<1>2. a \in Seq(S) /\ Len(a) = k - 1 /\ \A i \in 1..(k - 1) : a[i] = s[i]
  <2>1. k - 1 \in Int /\ \A i \in 1..(k - 1) : s[i] \in S
    BY <1>1
  <2>2. /\ SubSeq(s, 1, k - 1) \in Seq(S)
        /\ Len(SubSeq(s, 1, k - 1)) = IF 1 <= k - 1 THEN k - 1 - 1 + 1 ELSE 0
        /\ \A i \in 1..(k - 1 - 1 + 1) : SubSeq(s, 1, k - 1)[i] = s[1 + i - 1]
    BY <2>1, SubSeqProperties
  <2> QED
    BY <1>1, <2>2
<1>3. b \in Seq(S) /\ Len(b) = n - k + 1 /\ \A i \in 1..(n - k + 1) : b[i] = s[k + i - 1]
  <2>1. k \in Int /\ n \in Int /\ \A i \in k..n : s[i] \in S
    BY <1>1
  <2> HIDE DEF n
  <2>2. /\ SubSeq(s, k, n) \in Seq(S)
        /\ Len(SubSeq(s, k, n)) = IF k <= n THEN n - k + 1 ELSE 0
        /\ \A i \in 1..(n - k + 1) : SubSeq(s, k, n)[i] = s[k + i - 1]
    BY <2>1, SubSeqProperties
  <2> QED
    BY <1>1, <2>2
<1> HIDE DEF a, b, n
<1>4. ac \in Seq(S) /\ Len(ac) = k /\ \A i \in 1..k : ac[i] = IF i < k THEN s[i] ELSE c
  <2>1. <<c>> \in Seq(S) /\ Len(<<c>>) = 1 /\ <<c>>[1] = c
    OBVIOUS
  <2>2. /\ ac \in Seq(S)
        /\ Len(ac) = Len(a) + Len(<<c>>)
        /\ \A i \in 1..(Len(a) + Len(<<c>>)) :
              ac[i] = IF i <= Len(a) THEN a[i] ELSE <<c>>[i - Len(a)]
    BY <1>2, <2>1, ConcatProperties
  <2> HIDE DEF ac
  <2>3. Len(a) = k - 1 /\ Len(ac) = k
    BY <1>1, <1>2, <2>1, <2>2
  <2>4. ASSUME NEW i \in 1..k PROVE ac[i] = IF i < k THEN s[i] ELSE c
    <3>1. ac[i] = IF i <= k - 1 THEN a[i] ELSE <<c>>[i - (k - 1)]
      BY <1>1, <2>1, <2>2, <2>3
    <3>2. CASE i < k
      BY <1>1, <1>2, <3>1, <3>2
    <3>3. CASE i = k
      <4>1. ~(i <= k - 1) /\ i - (k - 1) = 1
        BY <1>1, <3>3
      <4> QED
        BY <1>1, <2>1, <3>1, <3>3, <4>1
    <3> QED
      BY <1>1, <3>2, <3>3
  <2> QED
    BY <2>2, <2>3, <2>4
<1> HIDE DEF ac
<1>5. /\ l \in Seq(S)
      /\ Len(l) = n + 1
      /\ \A i \in 1..(n + 1) : l[i] = IF i < k THEN s[i] ELSE IF i = k THEN c ELSE s[i - 1]
  <2>1. /\ l \in Seq(S)
        /\ Len(l) = Len(ac) + Len(b)
        /\ \A i \in 1..(Len(ac) + Len(b)) : l[i] = IF i <= Len(ac) THEN ac[i] ELSE b[i - Len(ac)]
    BY <1>3, <1>4, ConcatProperties
  <2> HIDE DEF l
  <2>2. Len(l) = n + 1
    BY <1>1, <1>3, <1>4, <2>1
  <2>3. ASSUME NEW i \in 1..(n + 1)
        PROVE  l[i] = IF i < k THEN s[i] ELSE IF i = k THEN c ELSE s[i - 1]
    <3>1. l[i] = IF i <= k THEN ac[i] ELSE b[i - k]
      BY <1>1, <1>3, <1>4, <2>1
    <3>2. CASE i <= k
      BY <1>1, <1>4, <3>1, <3>2
    <3>3. CASE i > k
      <4>1. i - k \in 1..(n - k + 1) /\ k + (i - k) - 1 = i - 1
        BY <1>1, <3>3
      <4>2. b[i - k] = s[i - 1]
        BY <1>3, <4>1
      <4> QED
        BY <1>1, <3>1, <3>3, <4>2
    <3> QED
      BY <1>1, <3>2, <3>3
  <2> QED
    BY <2>1, <2>2, <2>3
<1> QED
  BY <1>5 DEF InsertAt, l, ac, a, b, n
=============================================================================
