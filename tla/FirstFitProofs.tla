--------------------------- MODULE FirstFitProofs ---------------------------
(***************************************************************************)
(* Theorems about module FirstFit: the list of free blocks is in order and *)
(* has every one, no page is lost or given out twice, neighbouring free    *)
(* blocks are merged, and the manager finds the best area there is, for    *)
(* any number of pages and callers, as long as the highest page is never   *)
(* given out (Reserve > 0): without that it is not so (FirstFitFull.cfg).  *)
(*                                                                         *)
(* As the list is kept in the order of the addresses, it is described by   *)
(* the set of its blocks: what a pointer says is the next block of the set *)
(* above or below.                                                         *)
(***************************************************************************)
EXTENDS FirstFit, ListProofs, FiniteSetTheorems

\* b comes before d on the list; free_list itself before and after all.
Precedes(b, d) == b = HEAD \/ d = HEAD \/ b < d

\* x is what comes after the node b of a list of the blocks P, and before it.
IsNext(P, b, x) ==
  /\ x \in P \cup {HEAD} /\ Precedes(b, x)
  /\ \A d \in P : Precedes(b, d) => x # HEAD /\ x <= d
IsPrev(P, b, x) ==
  /\ x \in P \cup {HEAD} /\ Precedes(x, b)
  /\ \A d \in P : Precedes(d, b) => x # HEAD /\ d <= x

Links == [nxt : [Node -> Node], prv : [Node -> Node]]

\* The list l has the blocks P in order.
Linked(l, P) ==
  /\ l \in Links
  /\ \A b \in P \cup {HEAD} : IsNext(P, b, l.nxt[b]) /\ IsPrev(P, b, l.prv[b])

-----------------------------------------------------------------------------
(* The list. *)

LEMMA NodeFacts ==
  /\ Page \subseteq Nat /\ Page \subseteq Node /\ HEAD \in Node /\ HEAD \notin Page /\ NULL \notin Page
  /\ Node = Page \cup {HEAD} /\ npage \in Nat \ {0} /\ \A p \in Page : p < npage
BY FirstFitAssumption DEF Page, Node

\* The links lead to blocks, in both directions.
LEMMA LinkFacts ==
  ASSUME NEW P \in SUBSET Page, NEW l, Linked(l, P), NEW b \in P \cup {HEAD}
  PROVE  /\ l.nxt[b] \in P \cup {HEAD} /\ l.prv[b] \in P \cup {HEAD}
         /\ l.prv[l.nxt[b]] = b /\ l.nxt[l.prv[b]] = b
         /\ (b # HEAD /\ l.nxt[b] # HEAD) => b < l.nxt[b]
         /\ (b # HEAD /\ l.prv[b] # HEAD) => l.prv[b] < b
         /\ \A d \in P : (b = HEAD \/ b < d) => l.nxt[b] # HEAD /\ l.nxt[b] <= d
         /\ \A d \in P : (b = HEAD \/ d < b) => l.prv[b] # HEAD /\ d <= l.prv[b]
<1>1. P \subseteq Nat /\ HEAD \notin P
  BY NodeFacts
<1>2. \A x \in P \cup {HEAD} : IsNext(P, x, l.nxt[x]) /\ IsPrev(P, x, l.prv[x])
  BY DEF Linked
<1>3. \A x \in P \cup {HEAD} :
         /\ l.nxt[x] \in P \cup {HEAD} /\ l.prv[x] \in P \cup {HEAD}
         /\ (x # HEAD /\ l.nxt[x] # HEAD) => x < l.nxt[x]
         /\ (x # HEAD /\ l.prv[x] # HEAD) => l.prv[x] < x
         /\ \A d \in P : (x = HEAD \/ x < d) => l.nxt[x] # HEAD /\ l.nxt[x] <= d
         /\ \A d \in P : (x = HEAD \/ d < x) => l.prv[x] # HEAD /\ d <= l.prv[x]
  BY <1>1, <1>2 DEF IsNext, IsPrev, Precedes
<1>4. l.prv[l.nxt[b]] = b
  <2> DEFINE x == l.nxt[b]
             y == l.prv[x]
  <2>1. x \in P \cup {HEAD} /\ y \in P \cup {HEAD}
    BY <1>3
  <2> HIDE DEF x, y
  <2>2. (b # HEAD /\ x # HEAD) => b < x
    BY <1>3 DEF x
  <2>3. (x # HEAD /\ y # HEAD) => y < x
    BY <1>3, <2>1 DEF y
  <2>4. \A d \in P : (b = HEAD \/ b < d) => x # HEAD /\ x <= d
    BY <1>3 DEF x
  <2>5. \A d \in P : (x = HEAD \/ d < x) => y # HEAD /\ d <= y
    BY <1>3, <2>1 DEF y
  <2>6. y = b
    BY <1>1, <2>1, <2>2, <2>3, <2>4, <2>5
  <2> QED
    BY <2>6 DEF x, y
<1>5. l.nxt[l.prv[b]] = b
  <2> DEFINE x == l.prv[b]
             y == l.nxt[x]
  <2>1. x \in P \cup {HEAD} /\ y \in P \cup {HEAD}
    BY <1>3
  <2> HIDE DEF x, y
  <2>2. (b # HEAD /\ x # HEAD) => x < b
    BY <1>3 DEF x
  <2>3. (x # HEAD /\ y # HEAD) => x < y
    BY <1>3, <2>1 DEF y
  <2>4. \A d \in P : (b = HEAD \/ d < b) => x # HEAD /\ d <= x
    BY <1>3 DEF x
  <2>5. \A d \in P : (x = HEAD \/ x < d) => y # HEAD /\ y <= d
    BY <1>3, <2>1 DEF y
  <2>6. y = b
    BY <1>1, <2>1, <2>2, <2>3, <2>4, <2>5
  <2> QED
    BY <2>6 DEF x, y
<1> QED
  BY <1>3, <1>4, <1>5

\* A block comes between two that are neighbours on the list.
LEMMA InsertLinked ==
  ASSUME NEW P \in SUBSET Page, NEW l, Linked(l, P), NEW base \in Page, base \notin P,
         NEW p \in P \cup {HEAD}, NEW q, q = l.nxt[p],
         p = HEAD \/ p < base, q = HEAD \/ base < q
  PROVE  Linked(list_insert(l, base, p, q), P \cup {base})
<1> DEFINE l1 == list_insert(l, base, p, q)
           P1 == P \cup {base}
<1>0. \A b \in P \cup {HEAD} :
         /\ l.nxt[b] \in P \cup {HEAD} /\ l.prv[b] \in P \cup {HEAD}
         /\ l.prv[l.nxt[b]] = b /\ l.nxt[l.prv[b]] = b
         /\ (b # HEAD /\ l.nxt[b] # HEAD) => b < l.nxt[b]
         /\ (b # HEAD /\ l.prv[b] # HEAD) => l.prv[b] < b
         /\ \A d \in P : (b = HEAD \/ b < d) => l.nxt[b] # HEAD /\ l.nxt[b] <= d
         /\ \A d \in P : (b = HEAD \/ d < b) => l.prv[b] # HEAD /\ d <= l.prv[b]
  BY LinkFacts
<1>1. P \subseteq Nat /\ base \in Nat /\ HEAD \notin P /\ base # HEAD /\ P \subseteq Node /\ base \in Node /\ HEAD \in Node
  BY NodeFacts
<1>2. q \in P \cup {HEAD} /\ l.prv[q] = p
  BY <1>0
<1>3. l.nxt \in [Node -> Node] /\ l.prv \in [Node -> Node]
  BY DEF Linked, Links
<1>4. /\ l1.nxt = [l.nxt EXCEPT ![p] = base, ![base] = q]
      /\ l1.prv = [l.prv EXCEPT ![q] = base, ![base] = p]
      /\ l1 = [nxt |-> l1.nxt, prv |-> l1.prv]
  BY DEF list_insert
<1> HIDE DEF l1
<1>5. l1 \in Links
  BY <1>1, <1>2, <1>3, <1>4 DEF Links
<1>6. /\ l1.nxt[base] = q /\ l1.nxt[p] = base /\ \A b \in P \cup {HEAD} : b # p => l1.nxt[b] = l.nxt[b]
      /\ l1.prv[base] = p /\ l1.prv[q] = base /\ \A b \in P \cup {HEAD} : b # q => l1.prv[b] = l.prv[b]
  BY <1>1, <1>2, <1>3, <1>4
<1>7. \A b \in P \cup {HEAD} : IsNext(P, b, l.nxt[b]) /\ IsPrev(P, b, l.prv[b])
  BY DEF Linked
<1>8. (\A d \in P : d <= base => p # HEAD /\ d <= p) /\ (\A d \in P : base <= d => q # HEAD /\ q <= d)
  <2>1. \A d \in P : (p = HEAD \/ p < d) => q # HEAD /\ q <= d
    BY <1>0
  <2>2. ASSUME NEW d \in P, d <= base PROVE p # HEAD /\ d <= p
    <3>1. d \in Nat /\ (p # HEAD => p \in Nat) /\ (q # HEAD => q \in Nat)
      BY <1>1, <1>2
    <3> QED
      BY <1>1, <2>1, <2>2, <3>1
  <2>3. ASSUME NEW d \in P, base <= d PROVE q # HEAD /\ q <= d
    <3>1. d \in Nat /\ (p # HEAD => p \in Nat) /\ (q # HEAD => q \in Nat)
      BY <1>1, <1>2
    <3> QED
      BY <1>1, <2>1, <2>3, <3>1
  <2> QED
    BY <2>2, <2>3
<1>9. IsNext(P1, base, q) /\ IsPrev(P1, base, p)
  <2>1. ASSUME NEW d \in P1, Precedes(base, d) PROVE q # HEAD /\ q <= d
    <3>1. d \in P /\ base <= d
      BY <1>1, <2>1 DEF Precedes
    <3> QED
      BY <1>8, <3>1
  <2>2. ASSUME NEW d \in P1, Precedes(d, base) PROVE p # HEAD /\ d <= p
    <3>1. d \in P /\ d <= base
      BY <1>1, <2>2 DEF Precedes
    <3> QED
      BY <1>8, <3>1
  <2>3. q \in P1 \cup {HEAD} /\ p \in P1 \cup {HEAD} /\ Precedes(base, q) /\ Precedes(p, base)
    BY <1>2 DEF Precedes
  <2> QED
    BY <2>1, <2>2, <2>3 DEF IsNext, IsPrev
<1>10. ASSUME NEW b \in P \cup {HEAD} PROVE IsNext(P1, b, l1.nxt[b])
  <2>1. CASE b = p
    <3>1. ASSUME NEW d \in P1, Precedes(p, d) PROVE base <= d
      <4>1. d \in Nat /\ d # HEAD /\ (p # HEAD => p \in Nat)
        BY <1>1
      <4> QED
        BY <1>1, <1>8, <3>1, <4>1 DEF Precedes
    <3>2. Precedes(p, base)
      BY DEF Precedes
    <3> QED
      BY <1>1, <1>6, <2>1, <3>1, <3>2 DEF IsNext
  <2>2. CASE b # p
    <3> DEFINE x == l.nxt[b]
    <3>1. IsNext(P, b, x) /\ l1.nxt[b] = x
      BY <1>6, <1>7, <2>2
    <3>2. b # HEAD /\ b < base => x # HEAD /\ x <= p /\ p # HEAD
      <4>1. b # HEAD /\ b < base => p # HEAD /\ b < p
        BY <1>1, <1>8, <2>2
      <4>2. \A d \in P : b < d => x # HEAD /\ x <= d
        BY <1>0
      <4> QED
        BY <4>1, <4>2
    <3>3. b = HEAD => p # HEAD /\ x # HEAD /\ x <= p
      <4>1. b = HEAD => \A d \in P : x # HEAD /\ x <= d
        BY <1>0
      <4> QED
        BY <2>2, <4>1
    <3>4. x \in P \cup {HEAD}
      BY <1>0
    <3>5. (p # HEAD => p \in Nat /\ p < base) /\ (x # HEAD => x \in Nat)
      BY <1>1, <3>4
    <3> HIDE DEF x
    <3>6. Precedes(b, base) => x # HEAD /\ x <= base
      BY <1>1, <3>2, <3>3, <3>5 DEF Precedes
    <3> QED
      BY <3>1, <3>4, <3>6 DEF IsNext
  <2> QED
    BY <2>1, <2>2
<1>11. ASSUME NEW b \in P \cup {HEAD} PROVE IsPrev(P1, b, l1.prv[b])
  <2>1. CASE b = q
    <3>1. ASSUME NEW d \in P1, Precedes(d, q) PROVE d <= base
      <4>1. d \in Nat /\ d # HEAD /\ (q # HEAD => q \in Nat)
        BY <1>1, <1>2
      <4> QED
        BY <1>1, <1>8, <3>1, <4>1 DEF Precedes
    <3>2. Precedes(base, q)
      BY DEF Precedes
    <3> QED
      BY <1>1, <1>6, <2>1, <3>1, <3>2 DEF IsPrev
  <2>2. CASE b # q
    <3> DEFINE x == l.prv[b]
    <3>1. IsPrev(P, b, x) /\ l1.prv[b] = x
      BY <1>6, <1>7, <2>2
    <3>2. b # HEAD /\ base < b => x # HEAD /\ q <= x /\ q # HEAD
      <4>1. b # HEAD /\ base < b => q # HEAD /\ q < b
        <5>1. b # HEAD => b \in P /\ b \in Nat
          BY <1>1
        <5>2. q # HEAD => q \in Nat
          BY <1>1, <1>2
        <5> QED
          BY <1>1, <1>8, <2>2, <5>1, <5>2
      <4>2. \A d \in P : d < b => x # HEAD /\ d <= x
        BY <1>0
      <4> QED
        BY <1>2, <4>1, <4>2
    <3>3. b = HEAD => q # HEAD /\ x # HEAD /\ q <= x
      <4>1. b = HEAD => \A d \in P : x # HEAD /\ d <= x
        BY <1>0
      <4> QED
        BY <1>2, <2>2, <4>1
    <3>4. x \in P \cup {HEAD}
      BY <1>0
    <3>5. (q # HEAD => q \in Nat /\ base < q) /\ (x # HEAD => x \in Nat)
      BY <1>1, <1>2, <3>4
    <3> HIDE DEF x
    <3>6. Precedes(base, b) => x # HEAD /\ base <= x
      BY <1>1, <3>2, <3>3, <3>5 DEF Precedes
    <3> QED
      BY <3>1, <3>4, <3>6 DEF IsPrev
  <2> QED
    BY <2>1, <2>2
<1>12. \A b \in P1 \cup {HEAD} : IsNext(P1, b, l1.nxt[b]) /\ IsPrev(P1, b, l1.prv[b])
  <2>1. IsNext(P1, base, l1.nxt[base]) /\ IsPrev(P1, base, l1.prv[base])
    BY <1>6, <1>9
  <2> QED
    BY <1>10, <1>11, <2>1
<1>13. Linked(l1, P1)
  BY <1>5, <1>12 DEF Linked
<1> QED
  BY <1>13 DEF l1

\* list_del.
LEMMA DeleteLinked ==
  ASSUME NEW P \in SUBSET Page, NEW l, Linked(l, P), NEW x \in P
  PROVE  /\ Linked(list_del(l, x), P \ {x})
         /\ list_del(l, x).nxt[l.prv[x]] = l.nxt[x]
<1> DEFINE l1 == list_del(l, x)
           P1 == P \ {x}
           p == l.prv[x]
           q == l.nxt[x]
<1>0. \A b \in P \cup {HEAD} :
         /\ l.nxt[b] \in P \cup {HEAD} /\ l.prv[b] \in P \cup {HEAD}
         /\ l.prv[l.nxt[b]] = b /\ l.nxt[l.prv[b]] = b
         /\ (b # HEAD /\ l.nxt[b] # HEAD) => b < l.nxt[b]
         /\ (b # HEAD /\ l.prv[b] # HEAD) => l.prv[b] < b
         /\ \A d \in P : (b = HEAD \/ b < d) => l.nxt[b] # HEAD /\ l.nxt[b] <= d
         /\ \A d \in P : (b = HEAD \/ d < b) => l.prv[b] # HEAD /\ d <= l.prv[b]
  BY LinkFacts
<1>1. P \subseteq Nat /\ HEAD \notin P /\ P \subseteq Node /\ HEAD \in Node
  BY NodeFacts
<1>2. /\ p \in P \cup {HEAD} /\ q \in P \cup {HEAD} /\ l.nxt[p] = x /\ l.prv[q] = x
      /\ (p # HEAD => p < x) /\ (q # HEAD => x < q)
  BY <1>1, <1>0
<1>3. l.nxt \in [Node -> Node] /\ l.prv \in [Node -> Node]
  BY DEF Linked, Links
<1>4. /\ l1.nxt = [l.nxt EXCEPT ![p] = q] /\ l1.prv = [l.prv EXCEPT ![q] = p]
      /\ l1 = [nxt |-> l1.nxt, prv |-> l1.prv]
  BY DEF list_del
<1>5. \A b \in P \cup {HEAD} : IsNext(P, b, l.nxt[b]) /\ IsPrev(P, b, l.prv[b])
  BY DEF Linked
<1> HIDE DEF l1, p, q
<1>6. l1 \in Links
  BY <1>1, <1>2, <1>3, <1>4 DEF Links
<1>7. /\ l1.nxt[p] = q /\ \A b \in P \cup {HEAD} : b # p => l1.nxt[b] = l.nxt[b]
      /\ l1.prv[q] = p /\ \A b \in P \cup {HEAD} : b # q => l1.prv[b] = l.prv[b]
  BY <1>1, <1>2, <1>3, <1>4
<1>8. IsNext(P, x, q) /\ IsPrev(P, x, p)
  BY <1>5 DEF p, q
<1>9. IsNext(P, p, x) /\ IsPrev(P, q, x)
  BY <1>2, <1>5
<1>10. ASSUME NEW b \in P1 \cup {HEAD} PROVE IsNext(P1, b, l1.nxt[b])
  <2>1. CASE b = p
    <3>1. IsNext(P1, p, q)
      BY <1>1, <1>2, <1>8, <1>9 DEF IsNext, Precedes
    <3> QED
      BY <1>7, <2>1, <3>1
  <2>2. CASE b # p
    <3>1. l1.nxt[b] = l.nxt[b] /\ IsNext(P, b, l.nxt[b])
      BY <1>5, <1>7, <2>2
    <3>2. l.nxt[b] # x
      <4>1. l.nxt[b] = x => l.prv[x] = b
        BY <1>0
      <4> QED
        BY <2>2, <4>1 DEF p
    <3>3. l.nxt[b] \in P \cup {HEAD}
      BY <1>0
    <3> QED
      BY <1>1, <3>1, <3>2, <3>3 DEF IsNext, Precedes
  <2> QED
    BY <2>1, <2>2
<1>11. ASSUME NEW b \in P1 \cup {HEAD} PROVE IsPrev(P1, b, l1.prv[b])
  <2>1. CASE b = q
    <3>1. IsPrev(P1, q, p)
      BY <1>1, <1>2, <1>8, <1>9 DEF IsPrev, Precedes
    <3> QED
      BY <1>7, <2>1, <3>1
  <2>2. CASE b # q
    <3>1. l1.prv[b] = l.prv[b] /\ IsPrev(P, b, l.prv[b])
      BY <1>5, <1>7, <2>2
    <3>2. l.prv[b] # x
      <4>1. l.prv[b] = x => l.nxt[x] = b
        BY <1>0
      <4> QED
        BY <2>2, <4>1 DEF q
    <3>3. l.prv[b] \in P \cup {HEAD}
      BY <1>0
    <3> QED
      BY <1>1, <3>1, <3>2, <3>3 DEF IsPrev, Precedes
  <2> QED
    BY <2>1, <2>2
<1>12. Linked(l1, P1)
  BY <1>6, <1>10, <1>11 DEF Linked
<1> QED
  BY <1>7, <1>12 DEF l1, p, q

\* A loop along the list takes one link after the other.
LEMMA WalkSteps ==
  ASSUME NEW P \in SUBSET Page, NEW l, Linked(l, P)
  PROVE  /\ walk(l)[0] = l.nxt[HEAD]
         /\ \A i \in 1..npage : walk(l)[i] = IF walk(l)[i - 1] = HEAD THEN HEAD ELSE l.nxt[walk(l)[i - 1]]
         /\ \A i \in 0..npage : walk(l)[i] \in Node
<1> DEFINE next == [l.nxt EXCEPT ![HEAD] = HEAD]
           F == [i \in (0 + 1)..npage |-> next]
           Does(g) == g = [i \in 0..npage |-> IF i = 0 THEN l.nxt[HEAD] ELSE next[g[i - 1]]]
           w == CHOOSE g : Does(g)
<1>1. l.nxt \in [Node -> Node] /\ HEAD \in Node /\ npage \in Nat /\ 0 <= npage
  BY NodeFacts DEF Linked, Links
<1>2. next \in [Node -> Node] /\ l.nxt[HEAD] \in Node /\ \A x \in Node : next[x] = IF x = HEAD THEN HEAD ELSE l.nxt[x]
  BY <1>1
<1>3. walk(l) = w
  BY DEF walk
<1> HIDE DEF next
<1>4. Keeps(F, Node, 0, npage)
  BY <1>2 DEF Keeps
<1>5. PICK g : Computes(g, F, Node, l.nxt[HEAD], 0, npage)
  <2> HIDE DEF F
  <2> QED
    BY <1>1, <1>2, <1>4, LoopExists
<1>6. Does(g)
  <2>1. \A i \in 0..npage : i # 0 => i \in (0 + 1)..npage
    BY <1>1
  <2>2. \A i \in 0..npage : i # 0 => g[i] = F[i][g[i - 1]] /\ F[i] = next
    BY <1>5, <2>1 DEF Computes
  <2>3. g = [i \in 0..npage |-> g[i]] /\ g[0] = l.nxt[HEAD]
    BY <1>5 DEF Computes
  <2> HIDE DEF F
  <2>4. \A i \in 0..npage : g[i] = IF i = 0 THEN l.nxt[HEAD] ELSE next[g[i - 1]]
    BY <2>2, <2>3
  <2> QED
    BY <2>3, <2>4
<1>7. Does(w)
  <2> HIDE DEF Does
  <2> QED
    BY <1>6
<1> HIDE DEF w
<1>8. w[0] = l.nxt[HEAD] /\ \A i \in 1..npage : w[i] = next[w[i - 1]] /\ i - 1 \in 0..npage
  BY <1>1, <1>7
<1> HIDE DEF Does
<1>9. \A i \in 0..npage : w[i] \in Node
  <2>1. \A i \in (0 + 1)..npage : w[i - 1] \in Node => w[i] \in Node
    BY <1>2, <1>8
  <2>2. w[0] \in Node
    BY <1>2, <1>8
  <2> QED
    BY <1>1, <2>1, <2>2, LoopKeeps
<1>10. \A i \in 1..npage : w[i] = IF w[i - 1] = HEAD THEN HEAD ELSE l.nxt[w[i - 1]]
  BY <1>2, <1>8, <1>9
<1> QED
  BY <1>3, <1>8, <1>9, <1>10

\* It comes by the blocks of the list in the order of their addresses, by all of them
\* within npage turns, and then to free_list.
LEMMA WalkFacts ==
  ASSUME NEW P \in SUBSET Page, NEW l, Linked(l, P)
  PROVE  /\ \A i \in 0..npage : walk(l)[i] \in P \cup {HEAD}
         /\ \A i, j \in 0..npage :
               i < j /\ walk(l)[j] # HEAD => walk(l)[i] # HEAD /\ walk(l)[i] < walk(l)[j]
         /\ \A b \in P : \E i \in 0..npage : walk(l)[i] = b
<1>1. P \subseteq Nat /\ HEAD \notin P /\ npage \in Nat /\ \A b \in P : b < npage
  BY NodeFacts
<1>3. \A b \in P \cup {HEAD} :
         /\ l.nxt[b] \in P \cup {HEAD} /\ l.prv[b] \in P \cup {HEAD}
         /\ l.prv[l.nxt[b]] = b /\ l.nxt[l.prv[b]] = b
         /\ (b # HEAD /\ l.nxt[b] # HEAD) => b < l.nxt[b]
         /\ (b # HEAD /\ l.prv[b] # HEAD) => l.prv[b] < b
         /\ \A d \in P : (b = HEAD \/ b < d) => l.nxt[b] # HEAD /\ l.nxt[b] <= d
         /\ \A d \in P : (b = HEAD \/ d < b) => l.prv[b] # HEAD /\ d <= l.prv[b]
  BY LinkFacts
<1> DEFINE w == walk(l)
           Upto(i) ==
             /\ w[i] \in P \cup {HEAD}
             /\ w[i] # HEAD => i <= w[i]
             /\ \A j \in 0..(i - 1) : w[i] # HEAD => w[j] # HEAD /\ w[j] < w[i]
             /\ \A b \in P : (\E j \in 0..i : w[j] = b) \/ (w[i] # HEAD /\ w[i] < b)
           T == {i \in 0..npage : Upto(i)}
<1>2. w[0] = l.nxt[HEAD] /\ \A i \in 1..npage : w[i] = IF w[i - 1] = HEAD THEN HEAD ELSE l.nxt[w[i - 1]]
  BY WalkSteps
<1>0. \A i \in 0..npage : w[i] # HEAD => w[i] \in Nat
  <2>1. \A i \in 0..npage : w[i] \in Node
    BY WalkSteps
  <2> HIDE DEF w
  <2> QED
    BY <2>1, NodeFacts
<1> HIDE DEF w
<1>4. 0 \in T
  <2>1. w[0] \in P \cup {HEAD} /\ (w[0] # HEAD => 0 <= w[0])
    <3>1. l.nxt[HEAD] \in P \cup {HEAD}
      BY <1>3
    <3>2. w[0] = l.nxt[HEAD]
      BY <1>2
    <3>3. w[0] \in P \cup {HEAD} /\ (w[0] # HEAD => w[0] \in Nat)
      BY <1>1, <3>1, <3>2
    <3> QED
      BY <3>3
  <2>2. ASSUME NEW b \in P PROVE (\E j \in 0..0 : w[j] = b) \/ (w[0] # HEAD /\ w[0] < b)
    <3>1. w[0] # HEAD /\ w[0] <= b /\ w[0] \in Nat /\ b \in Nat
      BY <1>1, <1>2, <1>3, <2>1
    <3> QED
      BY <3>1
  <2> QED
    BY <1>1, <2>1, <2>2
<1>5. ASSUME NEW i \in 0..(npage - 1), i \in T PROVE i + 1 \in T
  <2>1. i + 1 \in 1..npage /\ (i + 1) - 1 = i /\ Upto(i) /\ i + 1 \in 0..npage
    BY <1>1, <1>5
  <2>2. w[i + 1] = IF w[i] = HEAD THEN HEAD ELSE l.nxt[w[i]]
    BY <1>2, <2>1
  <2>3. CASE w[i] = HEAD
    <3>1. w[i + 1] = HEAD
      BY <2>2, <2>3
    <3>2. \A b \in P : \E j \in 0..(i + 1) : w[j] = b
      <4>1. \A b \in P : \E j \in 0..i : w[j] = b
        BY <2>1, <2>3
      <4> QED
        BY <4>1
    <3> QED
      BY <2>1, <3>1, <3>2
  <2>4. CASE w[i] # HEAD
    <3>1. w[i] \in P /\ w[i] \in Nat /\ i <= w[i] /\ w[i + 1] = l.nxt[w[i]]
      BY <1>1, <2>1, <2>2, <2>4
    <3>2. w[i + 1] \in P \cup {HEAD} /\ (w[i + 1] # HEAD => w[i] < w[i + 1] /\ w[i + 1] \in Nat)
      BY <1>1, <1>3, <3>1, <2>4
    <3>3. w[i + 1] # HEAD => i + 1 <= w[i + 1]
      BY <3>1, <3>2
    <3>4. ASSUME NEW j \in 0..((i + 1) - 1), w[i + 1] # HEAD PROVE w[j] # HEAD /\ w[j] < w[i + 1]
      <4>1. CASE j = i
        BY <2>4, <3>2, <3>4, <4>1
      <4>2. CASE j # i
        <5>1. j \in 0..(i - 1)
          <6>1. i \in Int /\ j \in Int /\ 0 <= j /\ j <= (i + 1) - 1
            OBVIOUS
          <6> QED
            BY <4>2, <6>1
        <5>2. w[j] # HEAD /\ w[j] < w[i]
          BY <2>1, <2>4, <5>1
        <5>4. j \in 0..npage
          BY <1>1, <5>1
        <5>3. w[j] \in Nat
          BY <1>0, <5>2, <5>4
        <5> QED
          BY <3>1, <3>2, <3>4, <5>2, <5>3
      <4> QED
        BY <4>1, <4>2
    <3>5. ASSUME NEW b \in P PROVE (\E j \in 0..(i + 1) : w[j] = b) \/ (w[i + 1] # HEAD /\ w[i + 1] < b)
      <4>1. CASE \E j \in 0..i : w[j] = b
        BY <4>1
      <4>2. CASE w[i] < b
        <5>1. w[i + 1] # HEAD /\ w[i + 1] <= b /\ b \in Nat
          BY <1>1, <1>3, <3>1, <4>2
        <5>2. i + 1 \in 0..(i + 1)
          OBVIOUS
        <5> QED
          BY <3>2, <5>1, <5>2
      <4> QED
        BY <2>1, <4>1, <4>2
    <3> QED
      BY <2>1, <3>2, <3>3, <3>4, <3>5
  <2> QED
    BY <2>3, <2>4
<1> HIDE DEF T
<1>6. \A i \in 0..npage : i \in T
  BY <1>1, <1>4, <1>5, Induction
<1>7. \A i \in 0..npage : Upto(i)
  BY <1>6 DEF T
<1>8. \A i, j \in 0..npage : i < j /\ w[j] # HEAD => w[i] # HEAD /\ w[i] < w[j]
  <2>1. \A i, j \in 0..npage : i < j => i \in 0..(j - 1)
    OBVIOUS
  <2> QED
    BY <1>7, <2>1
<1>9. w[npage] = HEAD
  <2>1. Upto(npage)
    BY <1>1, <1>7
  <2>2. w[npage] # HEAD => npage <= w[npage] /\ w[npage] < npage /\ w[npage] \in Nat
    BY <1>1, <2>1
  <2> QED
    BY <1>1, <2>2
<1>10. \A b \in P : \E i \in 0..npage : w[i] = b
  BY <1>1, <1>7, <1>9
<1> QED
  BY <1>7, <1>8, <1>10 DEF w

\* The first block of S that the loop comes by is the lowest one.
LEMMA FirstFacts ==
  ASSUME NEW P \in SUBSET Page, NEW l, Linked(l, P), NEW S \in SUBSET Page
  PROVE  /\ P \cap S = {} => first(l, S) = NULL
         /\ P \cap S # {} => first(l, S) \in P \cap S /\ \A d \in P \cap S : first(l, S) <= d
<1> DEFINE w == walk(l)
           Hit(i) == w[i] \in S /\ \A j \in 0..(i - 1) : w[j] \notin S
           h == CHOOSE i \in 0..npage : Hit(i)
<1>1. P \subseteq Nat /\ HEAD \notin S /\ npage \in Nat
  BY NodeFacts
<1>2. /\ \A i \in 0..npage : w[i] \in P \cup {HEAD}
      /\ \A i, j \in 0..npage : i < j /\ w[j] # HEAD => w[i] # HEAD /\ w[i] < w[j]
      /\ \A b \in P : \E i \in 0..npage : w[i] = b
  BY WalkFacts
<1>3. first(l, S) = IF \E i \in 0..npage : Hit(i) THEN w[h] ELSE NULL
  BY DEF first
<1> HIDE DEF w
<1>4. P \cap S = {} => \A i \in 0..npage : ~Hit(i)
  BY <1>1, <1>2
<1>5. ASSUME P \cap S # {} PROVE \E i \in 0..npage : Hit(i)
  <2> DEFINE T == {i \in 0..npage : w[i] \in S}
  <2>1. T \in SUBSET Nat /\ T # {}
    <3>1. PICK b \in P \cap S : TRUE
      BY <1>5
    <3>2. PICK i \in 0..npage : w[i] = b
      BY <1>2
    <3> QED
      BY <3>1, <3>2
  <2>2. PICK m \in T : \A k \in T : m <= k
    <3> HIDE DEF T
    <3> QED
      BY <2>1, LeastNat
  <2>3. m \in 0..npage /\ w[m] \in S
    BY <2>2
  <2>4. ASSUME NEW j \in 0..(m - 1) PROVE w[j] \notin S
    <3>1. j \in 0..npage /\ j < m
      BY <1>1, <2>3
    <3> QED
      BY <2>2, <2>3, <3>1
  <2> QED
    BY <2>3, <2>4
<1>6. ASSUME P \cap S # {} PROVE w[h] \in P \cap S /\ \A d \in P \cap S : w[h] <= d
  <2>1. h \in 0..npage /\ Hit(h)
    <3> HIDE DEF Hit
    <3> QED
      BY <1>5, <1>6
  <2> HIDE DEF h
  <2>2. w[h] \in P \cap S
    BY <1>1, <1>2, <2>1
  <2>3. ASSUME NEW d \in P \cap S PROVE w[h] <= d
    <3>1. PICK k \in 0..npage : w[k] = d
      BY <1>2
    <3>2. ~(k < h)
      <4>1. k < h => k \in 0..(h - 1)
        BY <2>1
      <4> QED
        BY <2>1, <3>1, <4>1
    <3>3. k = h \/ h < k
      BY <2>1, <3>2
    <3>4. d # HEAD /\ d \in Nat /\ w[h] \in Nat
      BY <1>1, <2>2
    <3>5. h < k => w[h] < w[k]
      BY <1>2, <2>1, <3>1, <3>4
    <3> QED
      BY <3>1, <3>3, <3>4, <3>5
  <2> QED
    BY <2>2, <2>3
<1> QED
  BY <1>3, <1>4, <1>5, <1>6

\* What is on the list.
LEMMA OnList ==
  ASSUME NEW P \in SUBSET Page, NEW l, Linked(l, P)
  PROVE  on_list(l) = P \cup {HEAD}
<1> DEFINE w == walk(l)
           W == {w[i] : i \in 0..npage}
<1>1. \A b \in P \cup {HEAD} : l.prv[b] \in P \cup {HEAD}
  BY LinkFacts
<1>2. (\A i \in 0..npage : w[i] \in P \cup {HEAD}) /\ (\A b \in P : \E i \in 0..npage : w[i] = b)
  BY WalkFacts
<1>3. on_list(l) = W \cup {l.prv[b] : b \in W} \cup {HEAD}
  BY DEF on_list
<1> HIDE DEF w
<1>4. W \subseteq P \cup {HEAD} /\ P \subseteq W
  BY <1>2
<1> HIDE DEF W
<1> QED
  BY <1>1, <1>3, <1>4

\* What store keeps.
LEMMA StoreFacts ==
  ASSUME NEW m, NEW P \in SUBSET Page, Linked(m.list, P), m.flags = P, m.property \in [Page -> 0..npage], store(m)
  PROVE  /\ Linked(list, P)' /\ PG_property' = P
         /\ property' \in [Page -> 0..npage] /\ \A b \in P : property'[b] = m.property[b]
         /\ \A b \in Page \ P : property'[b] = 0
<1>1. on_list(m.list) = P \cup {HEAD}
  BY OnList
<1>2. /\ list' = [nxt |-> [b \in Node |-> IF b \in P \cup {HEAD} THEN m.list.nxt[b] ELSE HEAD],
                  prv |-> [b \in Node |-> IF b \in P \cup {HEAD} THEN m.list.prv[b] ELSE HEAD]]
      /\ property' = [p \in Page |-> IF p \in P \cup {HEAD} THEN m.property[p] ELSE 0]
      /\ PG_property' = P
  BY <1>1 DEF store
<1>3. P \subseteq Node /\ HEAD \in Node /\ HEAD \notin Page /\ npage \in Nat
  BY NodeFacts
<1>4. m.list.nxt \in [Node -> Node] /\ m.list.prv \in [Node -> Node]
  BY DEF Linked, Links
<1>5. \A b \in P \cup {HEAD} : list'.nxt[b] = m.list.nxt[b] /\ list'.prv[b] = m.list.prv[b]
  BY <1>2, <1>3
<1>6. list' \in Links
  BY <1>2, <1>3, <1>4 DEF Links
<1>7. Linked(list', P)
  BY <1>5, <1>6 DEF Linked
<1>8. property' \in [Page -> 0..npage] /\ (\A b \in P : property'[b] = m.property[b]) /\ \A b \in Page \ P : property'[b] = 0
  BY <1>2, <1>3
<1> QED
  BY <1>2, <1>7, <1>8

-----------------------------------------------------------------------------
(* Free blocks. *)

\* P are the first pages of free blocks as long as prop says, that do not overlap.
Parts(P, prop) ==
  /\ \A b \in P : prop[b] \in 1..npage /\ b + prop[b] <= npage
  /\ \A b, d \in P : b < d => b + prop[b] <= d

\* None of them touches the next one.
Gaps(P, prop) == \A b, d \in P : b < d => b + prop[b] < d

\* The pages in them.
Covered(P, prop) == {p \in Page : \E b \in P : b <= p /\ p < b + prop[b]}

\* n pages from page on.
run(page, n) == page .. (page + n - 1)

\* Q and new are P and prop without the first n pages of the block page.
Cut(P, prop, page, n, Q, new) ==
  /\ page \in P /\ n <= prop[page]
  /\ Q = (P \ {page}) \cup {q \in {page + n} : prop[page] > n}
  /\ \A b \in Q : new[b] = IF b = page + n THEN prop[page] - n ELSE prop[b]

\* n pages cut from the beginning of a block leave the rest of it, if there is one.
LEMMA CutParts ==
  ASSUME NEW P \in SUBSET Page, NEW prop, Parts(P, prop), Gaps(P, prop), NEW page, NEW n \in 1..npage,
         NEW Q, NEW new, Cut(P, prop, page, n, Q, new)
  PROVE  /\ Q \in SUBSET Page /\ Parts(Q, new) /\ Gaps(Q, new)
         /\ Covered(Q, new) = Covered(P, prop) \ run(page, n)
         /\ run(page, n) \subseteq Covered(P, prop)
<1>0. /\ page \in P /\ n <= prop[page] /\ run(page, n) = page .. (page + n - 1)
      /\ Q = (P \ {page}) \cup {q \in {page + n} : prop[page] > n}
      /\ \A b \in Q : new[b] = IF b = page + n THEN prop[page] - n ELSE prop[b]
  BY DEF Cut, run
<1> DEFINE rest == prop[page] > n
           r == page + n
<1>1. /\ P \subseteq Nat /\ npage \in Nat /\ n \in Nat /\ n >= 1 /\ page \in Nat /\ prop[page] \in Nat
      /\ \A b \in P : prop[b] \in Nat /\ prop[b] >= 1 /\ prop[b] <= npage /\ b + prop[b] <= npage
      /\ \A b, d \in P : b < d => b + prop[b] < d
  BY <1>0, NodeFacts DEF Parts, Gaps
<1>2. \A d \in P : d # page => d + prop[d] < page \/ page + prop[page] < d
  BY <1>0, <1>1
<1>3. Q \in SUBSET Page
  <2>1. rest => r \in Page
    BY <1>0, <1>1 DEF Page
  <2> QED
    BY <1>0, <2>1
<1>4. ASSUME NEW d \in Q PROVE
        \/ d = r /\ rest /\ new[d] = prop[page] - n
        \/ d \in P /\ d # page /\ d # r /\ new[d] = prop[d]
  <2>1. d = r => rest
    BY <1>0, <1>1, <1>2
  <2> QED
    BY <1>0, <2>1
<1> HIDE DEF r, rest
<1>5. r = page + n /\ (rest <=> prop[page] > n)
  BY DEF r, rest
<1>6. ASSUME NEW d \in Q PROVE new[d] \in 1..npage /\ d + new[d] <= npage
  BY <1>0, <1>1, <1>4, <1>5
<1>7. ASSUME NEW b \in Q, NEW d \in Q, b < d PROVE b + new[b] < d
  BY <1>0, <1>1, <1>2, <1>4, <1>5, <1>7
<1>8. Parts(Q, new) /\ Gaps(Q, new)
  <2>1. ASSUME NEW b \in Q, NEW d \in Q, b < d PROVE b + new[b] <= d
    <3>1. b \in Nat /\ d \in Nat /\ new[b] \in Nat
      BY <1>3, <1>6, NodeFacts
    <3>2. b + new[b] < d
      BY <1>7, <2>1
    <3> QED
      BY <3>1, <3>2
  <2> QED
    BY <1>6, <1>7, <2>1 DEF Parts, Gaps
<1>9. ASSUME NEW p \in Page PROVE
        p \in Covered(Q, new) <=> p \in Covered(P, prop) /\ p \notin page .. (page + n - 1)
  <2>0. p \in Nat
    BY NodeFacts
  <2>1. ASSUME NEW b \in Q, b <= p, p < b + new[b]
        PROVE  p \in Covered(P, prop) /\ p \notin page .. (page + n - 1)
    <3>1. CASE b = r /\ rest /\ new[b] = prop[page] - n
      <4>1. page <= p /\ p < page + prop[page] /\ page + n <= p
        BY <1>0, <1>1, <1>5, <2>0, <2>1, <3>1
      <4> QED
        BY <1>0, <1>1, <2>0, <4>1 DEF Covered
    <3>2. CASE b \in P /\ b # page /\ b # r /\ new[b] = prop[b]
      <4>1. p < page \/ page + prop[page] < p
        BY <1>0, <1>1, <1>2, <2>0, <2>1, <3>2
      <4>2. p \notin page .. (page + n - 1)
        BY <1>0, <1>1, <2>0, <4>1
      <4> QED
        BY <2>1, <3>2, <4>2 DEF Covered
    <3> QED
      BY <1>4, <3>1, <3>2
  <2>2. ASSUME NEW b \in P, b <= p, p < b + prop[b], p \notin page .. (page + n - 1)
        PROVE  p \in Covered(Q, new)
    <3>1. CASE b = page
      <4>1. r <= p /\ prop[page] > n /\ p < r + (prop[page] - n)
        BY <1>0, <1>1, <1>5, <2>0, <2>2, <3>1
      <4>2. r \in Q /\ new[r] = prop[page] - n
        BY <1>0, <1>5, <4>1
      <4> QED
        BY <4>1, <4>2 DEF Covered
    <3>2. CASE b # page
      <4>1. b \in Q /\ new[b] = prop[b]
        BY <1>0, <1>1, <1>2, <1>5, <3>2
      <4> QED
        BY <2>2, <4>1 DEF Covered
    <3> QED
      BY <3>1, <3>2
  <2> QED
    BY <2>1, <2>2 DEF Covered
<1>10. ASSUME NEW p \in page .. (page + n - 1) PROVE p \in Covered(P, prop)
  <2>1. p \in Page /\ page <= p /\ p < page + prop[page]
    BY <1>0, <1>1 DEF Page
  <2> QED
    BY <1>0, <2>1 DEF Covered
<1>11. Covered(Q, new) = Covered(P, prop) \ (page .. (page + n - 1))
  <2>1. Covered(Q, new) \subseteq Page /\ Covered(P, prop) \subseteq Page
    BY DEF Covered
  <2> QED
    BY <1>9, <2>1
<1> QED
  BY <1>0, <1>3, <1>8, <1>10, <1>11

\* new has one more block of n pages, at base, that overlaps none of P.
Added(P, prop, base, n, new) ==
  /\ base \in Page /\ n \in 1..npage
  /\ base + n <= npage /\ Covered(P, prop) \cap run(base, n) = {}
  /\ (\A b \in P : new[b] = prop[b]) /\ new[base] = n

\* A block that overlaps none comes to them.
LEMMA AddParts ==
  ASSUME NEW P \in SUBSET Page, NEW prop, Parts(P, prop), NEW base, NEW n,
         NEW new, Added(P, prop, base, n, new)
  PROVE  /\ base \notin P /\ Parts(P \cup {base}, new)
         /\ Covered(P \cup {base}, new) = Covered(P, prop) \cup run(base, n)
<1>0. /\ base \in Page /\ n \in 1..npage
      /\ base + n <= npage /\ Covered(P, prop) \cap (base .. (base + n - 1)) = {}
      /\ (\A b \in P : new[b] = prop[b]) /\ new[base] = n
      /\ run(base, n) = base .. (base + n - 1)
  BY DEF Added, run
<1> DEFINE Q == P \cup {base}
<1>1. /\ P \subseteq Nat /\ npage \in Nat /\ n \in Nat /\ n >= 1 /\ base \in Nat
      /\ \A b \in P : prop[b] \in Nat /\ prop[b] >= 1 /\ prop[b] <= npage /\ b + prop[b] <= npage
      /\ \A b, d \in P : b < d => b + prop[b] <= d
  BY <1>0, NodeFacts DEF Parts
<1>2. ASSUME NEW d \in P PROVE d # base /\ (d + prop[d] <= base \/ base + n <= d)
  <2>1. d \in Nat /\ d \in Page /\ base \in Page
    BY <1>0, <1>1
  <2>2. base \notin Covered(P, prop) /\ (d \in Covered(P, prop))
    <3>1. base \in base .. (base + n - 1)
      BY <1>0, <1>1
    <3>2. d <= d /\ d < d + prop[d]
      BY <1>0, <1>1, <2>1
    <3> QED
      BY <1>0, <2>1, <3>1, <3>2 DEF Covered
  <2>3. ~(d <= base /\ base < d + prop[d]) /\ d \notin base .. (base + n - 1)
    BY <1>0, <2>1, <2>2 DEF Covered
  <2> QED
    BY <1>0, <1>1, <2>1, <2>3
<1>3. base \notin P
  BY <1>2
<1>4. Parts(Q, new)
  BY <1>0, <1>1, <1>2, <1>3 DEF Parts
<1>5. ASSUME NEW p \in Page PROVE p \in Covered(Q, new) <=> p \in Covered(P, prop) \cup (base .. (base + n - 1))
  <2>1. p \in Nat
    BY NodeFacts
  <2>2. p \in base .. (base + n - 1) <=> base <= p /\ p < base + new[base]
    BY <1>0, <1>1, <2>1
  <2>3. p \in Covered(P, prop) <=> \E b \in P : b <= p /\ p < b + new[b]
    BY <1>0 DEF Covered
  <2> QED
    BY <1>0, <2>2, <2>3 DEF Covered
<1>6. base .. (base + n - 1) \subseteq Page
  BY <1>0, <1>1 DEF Page
<1>7. Covered(Q, new) = Covered(P, prop) \cup (base .. (base + n - 1))
  <2>1. Covered(Q, new) \subseteq Page /\ Covered(P, prop) \subseteq Page
    BY <1>0 DEF Covered
  <2> QED
    BY <1>5, <1>6, <2>1
<1> QED
  BY <1>0, <1>3, <1>4, <1>7

\* Two blocks of P that touch.
Touch(P, prop, b, d) == b \in P /\ d \in P /\ b < d /\ b + prop[b] = d

\* new has p and q as one.
Joined(P, prop, new, p, q) ==
  /\ new[p] = prop[p] + prop[q]
  /\ \A b \in P \ {q} : b # p => new[b] = prop[b]

\* Two that touch are merged: q comes right after p.
LEMMA MergeParts ==
  ASSUME NEW P \in SUBSET Page, NEW prop, Parts(P, prop), NEW p, NEW q, Touch(P, prop, p, q),
         NEW new, Joined(P, prop, new, p, q)
  PROVE  Parts(P \ {q}, new) /\ Covered(P \ {q}, new) = Covered(P, prop)
<1> DEFINE Q == P \ {q}
<1>0. /\ p \in P /\ q \in P /\ p < q /\ p + prop[p] = q /\ new[p] = prop[p] + prop[q]
      /\ \A b \in Q : b # p => new[b] = prop[b]
  BY DEF Touch, Joined
<1>1. /\ P \subseteq Nat /\ npage \in Nat /\ p \in Nat /\ q \in Nat
      /\ \A b \in P : prop[b] \in Nat /\ prop[b] >= 1 /\ prop[b] <= npage /\ b + prop[b] <= npage
      /\ \A b, d \in P : b < d => b + prop[b] <= d
  BY <1>0, NodeFacts DEF Parts
<1>2. p < q /\ p \in Q /\ new[p] = prop[p] + prop[q] /\ p + new[p] = q + prop[q] /\ new[p] <= npage
  <2>1. p < q /\ p # q /\ new[p] = prop[p] + prop[q] /\ prop[p] \in Nat /\ prop[q] \in Nat /\ q + prop[q] <= npage
    BY <1>0, <1>1
  <2> QED
    BY <1>0, <1>1, <2>1
<1>3. Parts(Q, new)
  <2>1. ASSUME NEW b \in Q PROVE new[b] \in 1..npage /\ b + new[b] <= npage
    BY <1>0, <1>1, <1>2
  <2>2. ASSUME NEW b \in Q, NEW d \in Q, b < d PROVE b + new[b] <= d
    <3>1. CASE b = p
      <4>0. d \in P /\ d # q /\ d \in Nat /\ p + prop[p] <= d
        BY <1>0, <1>1, <2>2, <3>1
      <4>1. q < d
        BY <1>0, <1>1, <4>0
      <4>2. q + prop[q] <= d
        BY <1>0, <1>1, <4>0, <4>1
      <4> QED
        BY <1>2, <3>1, <4>2
    <3>2. CASE b # p
      BY <1>0, <1>1, <2>2, <3>2
    <3> QED
      BY <3>1, <3>2
  <2> QED
    BY <2>1, <2>2 DEF Parts
<1>4. ASSUME NEW x \in Page PROVE x \in Covered(Q, new) <=> x \in Covered(P, prop)
  <2>0. x \in Nat
    BY NodeFacts
  <2>1. ASSUME NEW b \in Q, b <= x, x < b + new[b] PROVE x \in Covered(P, prop)
    <3>1. CASE b = p
      <4>1. (p <= x /\ x < p + prop[p]) \/ (q <= x /\ x < q + prop[q])
        BY <1>0, <1>1, <1>2, <2>0, <2>1, <3>1
      <4> QED
        BY <1>0, <4>1 DEF Covered
    <3>2. CASE b # p
      BY <1>0, <2>1, <3>2 DEF Covered
    <3> QED
      BY <3>1, <3>2
  <2>2. ASSUME NEW b \in P, b <= x, x < b + prop[b] PROVE x \in Covered(Q, new)
    <3>1. CASE b = p \/ b = q
      <4>1. p <= x /\ x < p + new[p]
        BY <1>0, <1>1, <1>2, <2>0, <2>2, <3>1
      <4> QED
        BY <1>2, <4>1 DEF Covered
    <3>2. CASE b # p /\ b # q
      BY <1>0, <2>2, <3>2 DEF Covered
    <3> QED
      BY <3>1, <3>2
  <2> QED
    BY <2>1, <2>2 DEF Covered
<1>5. Covered(Q, new) = Covered(P, prop)
  <2>1. Covered(Q, new) \subseteq Page /\ Covered(P, prop) \subseteq Page
    BY DEF Covered
  <2> QED
    BY <1>4, <2>1
<1> QED
  BY <1>2, <1>3, <1>5

-----------------------------------------------------------------------------
(* The functions of the managers. *)

\* put finds the place of a block, as long as there is one above it.
LEMMA PutLinked ==
  ASSUME NEW P \in SUBSET Page, NEW l, Linked(l, P), NEW base \in Page, base \notin P,
         \E d \in P : base < d
  PROVE  Linked(put(l, base), P \cup {base})
<1> DEFINE S == {b \in Page : base < b}
           above == first(l, S)
           p == l.prv[above]
<1>1. P \subseteq Nat /\ HEAD \notin P /\ base \in Nat /\ NULL \notin P /\ HEAD \in P \cup {HEAD}
  BY NodeFacts
<1>2. P \cap S # {} /\ S \in SUBSET Page
  OBVIOUS
<1>3. above \in P \cap S /\ \A d \in P \cap S : above <= d
  <2> HIDE DEF S
  <2> QED
    BY <1>2, FirstFacts
<1>4. above \in P /\ above # NULL /\ above # HEAD /\ base < above /\ \A d \in P : base < d => above <= d
  BY <1>1, <1>3
<1>5. l.nxt[HEAD] # HEAD
  <2>1. \A d \in P : l.nxt[HEAD] # HEAD
    BY LinkFacts
  <2> QED
    BY <1>4, <2>1
<1>6. put(l, base) = list_insert(l, base, p, above)
  BY <1>4, <1>5 DEF put, list_add_before
<1> HIDE DEF above
<1>7. p \in P \cup {HEAD} /\ l.nxt[p] = above /\ (p # HEAD => p < above)
  BY <1>4, LinkFacts
<1> HIDE DEF p
<1>8. p = HEAD \/ p < base
  <2>1. p # HEAD => p \in P /\ p \in Nat /\ above \in Nat /\ p # base
    BY <1>1, <1>4, <1>7
  <2> QED
    BY <1>1, <1>4, <1>7, <2>1
<1>9. Linked(list_insert(l, base, p, above), P \cup {base})
  BY <1>4, <1>7, <1>8, InsertLinked
<1> QED
  BY <1>6, <1>9

\* The free area m, with the blocks P, one of them at m.base.
Area(m, P) ==
  /\ P \subseteq Page /\ m.flags = P /\ Linked(m.list, P)
  /\ m.property \in [Page -> 0..npage] /\ Parts(P, m.property)
  /\ m.base \in P

\* Merging takes one block out of the area; no page is lost.
LEMMA MergeArea ==
  ASSUME NEW P, NEW m, Area(m, P), NEW p, NEW q, Touch(P, m.property, p, q),
         NEW new, new = [base |-> p, list |-> list_del(m.list, q),
                         property |-> [m.property EXCEPT ![p] = m.property[p] + m.property[q]],
                         flags |-> m.flags \ {q}]
  PROVE  /\ Area(new, P \ {q}) /\ Covered(P \ {q}, new.property) = Covered(P, m.property)
         /\ Joined(P, m.property, new.property, p, q)
<1>1. /\ P \in SUBSET Page /\ m.flags = P /\ Linked(m.list, P) /\ Parts(P, m.property)
      /\ m.property \in [Page -> 0..npage]
  BY DEF Area
<1>2. /\ new.base = p /\ new.list = list_del(m.list, q) /\ new.flags = P \ {q}
      /\ new.property = [m.property EXCEPT ![p] = m.property[p] + m.property[q]]
  BY <1>1
<1>3. \A b \in P : b \in Nat /\ b \in Page
  BY <1>1, NodeFacts
<1>4. p \in P /\ q \in P /\ p \in P \ {q} /\ p \in Page
  <2>1. p \in P /\ q \in P /\ p < q
    BY DEF Touch
  <2>2. p # q
    BY <1>3, <2>1
  <2> QED
    BY <1>1, <2>1, <2>2
<1>5. Joined(P, m.property, new.property, p, q)
  BY <1>1, <1>2, <1>3, <1>4 DEF Joined
<1>6. Parts(P \ {q}, new.property) /\ Covered(P \ {q}, new.property) = Covered(P, m.property)
  BY <1>1, <1>5, MergeParts
<1>7. new.property \in [Page -> 0..npage]
  <2>1. new.property[p] \in 1..npage
    BY <1>4, <1>6 DEF Parts
  <2>2. new.property[p] = m.property[p] + m.property[q]
    BY <1>5 DEF Joined
  <2>3. m.property[p] + m.property[q] \in 0..npage
    <3>1. \A x \in 1..npage : x \in 0..npage
      BY NodeFacts
    <3> QED
      BY <2>1, <2>2, <3>1
  <2> QED
    BY <1>1, <1>2, <2>3
<1>8. Linked(new.list, P \ {q})
  BY <1>1, <1>2, <1>4, DeleteLinked
<1> QED
  BY <1>1, <1>2, <1>4, <1>5, <1>6, <1>7, <1>8 DEF Area

\* If only the block m.base touches others, after merge_low none touches it from below.
LEMMA MergeLowFacts ==
  ASSUME NEW P, NEW m, Area(m, P),
         \A b, d : Touch(P, m.property, b, d) => b = m.base \/ d = m.base
  PROVE  \E Q : /\ Area(merge_low(m), Q)
                /\ Covered(Q, merge_low(m).property) = Covered(P, m.property)
                /\ \A b, d : Touch(Q, merge_low(m).property, b, d) => b = merge_low(m).base
<1> DEFINE p == m.list.prv[m.base]
           q == m.base
<1>1. /\ P \in SUBSET Page /\ Linked(m.list, P) /\ q \in P /\ P \subseteq Nat
      /\ (\A b \in P : m.property[b] \in Nat) /\ \A b, d \in P : b < d => b + m.property[b] <= d
  <2>1. P \subseteq Page /\ Linked(m.list, P) /\ Parts(P, m.property) /\ m.base \in P /\ P \subseteq Nat
    BY NodeFacts DEF Area
  <2>2. (\A b \in P : m.property[b] \in Nat) /\ \A b, d \in P : b < d => b + m.property[b] <= d
    BY <2>1, NodeFacts DEF Parts
  <2> QED
    BY <2>1, <2>2
<1>2. /\ p \in P \cup {HEAD} /\ (p # HEAD => p < q)
      /\ \A d \in P : d < q => p # HEAD /\ d <= p
  <2>1. HEAD \notin P
    BY <1>1, NodeFacts
  <2>2. q \in P \cup {HEAD} /\ q # HEAD
    BY <1>1, <2>1
  <2> HIDE DEF q
  <2>3. \A b \in P \cup {HEAD} :
         /\ m.list.nxt[b] \in P \cup {HEAD} /\ m.list.prv[b] \in P \cup {HEAD}
         /\ m.list.prv[m.list.nxt[b]] = b /\ m.list.nxt[m.list.prv[b]] = b
         /\ (b # HEAD /\ m.list.nxt[b] # HEAD) => b < m.list.nxt[b]
         /\ (b # HEAD /\ m.list.prv[b] # HEAD) => m.list.prv[b] < b
         /\ \A d \in P : (b = HEAD \/ b < d) => m.list.nxt[b] # HEAD /\ m.list.nxt[b] <= d
         /\ \A d \in P : (b = HEAD \/ d < b) => m.list.prv[b] # HEAD /\ d <= m.list.prv[b]
    BY <1>1, LinkFacts
  <2> QED
    BY <2>2, <2>3 DEF q
<1>3. CASE p # HEAD /\ p + m.property[p] = q
  <2> DEFINE new == [base |-> p, list |-> list_del(m.list, q),
                     property |-> [m.property EXCEPT ![p] = m.property[p] + m.property[q]],
                     flags |-> m.flags \ {q}]
  <2>1. merge_low(m) = new /\ p \in P
    BY <1>2, <1>3 DEF merge_low
  <2>2. new.base = p
    OBVIOUS
  <2> HIDE DEF p, q
  <2>3. new = [base |-> p, list |-> list_del(m.list, q),
               property |-> [m.property EXCEPT ![p] = m.property[p] + m.property[q]],
               flags |-> m.flags \ {q}]
    OBVIOUS
  <2> HIDE DEF new
  <2>4. /\ Area(new, P \ {q}) /\ Covered(P \ {q}, new.property) = Covered(P, m.property)
        /\ Joined(P, m.property, new.property, p, q)
    <3>1. Touch(P, m.property, p, q)
      BY <1>1, <1>2, <1>3, <2>1 DEF Touch
    <3> QED
      BY <2>3, <3>1, MergeArea
  <2>6. /\ new.property[p] = m.property[p] + m.property[q] /\ p < q /\ p + m.property[p] = q
        /\ \A b \in P \ {q} : b # p => new.property[b] = m.property[b]
    BY <1>2, <1>3, <2>4 DEF Joined
  <2>5. ASSUME NEW b, NEW d, Touch(P \ {q}, new.property, b, d) PROVE b = p
    <3>1. b # p => Touch(P, m.property, b, d) /\ b # q /\ d # q
      BY <2>6, <2>5 DEF Touch
    <3> QED
      BY <3>1 DEF q
  <2> QED
    BY <2>1, <2>2, <2>4, <2>5
<1>4. CASE ~(p # HEAD /\ p + m.property[p] = q)
  <2>1. merge_low(m) = m
    BY <1>4 DEF merge_low
  <2>2. ASSUME NEW b, NEW d, Touch(P, m.property, b, d) PROVE b = q
    <3>1. CASE d = q
      <4>1. b \in P /\ b < q /\ p # HEAD /\ b <= p /\ p \in P /\ p < q /\ b + m.property[b] = q
        BY <1>2, <2>2, <3>1 DEF Touch
      <4>2. b < p => b + m.property[b] <= p
        BY <1>1, <4>1
      <4>3. b \in Nat /\ p \in Nat /\ q \in Nat /\ m.property[b] \in Nat
        BY <1>1, <4>1
      <4> HIDE DEF p, q
      <4>4. b = p
        BY <4>1, <4>2, <4>3
      <4> QED
        BY <1>4, <4>1, <4>4
    <3>2. CASE d # q
      BY <2>2, <3>2
    <3> QED
      BY <3>1, <3>2
  <2> QED
    BY <2>1, <2>2
<1> QED
  BY <1>3, <1>4

\* After merge_high none touches it from above, either.
LEMMA MergeHighFacts ==
  ASSUME NEW P, NEW m, Area(m, P), \A b, d : Touch(P, m.property, b, d) => b = m.base
  PROVE  \E Q : /\ Area(merge_high(m), Q) /\ Gaps(Q, merge_high(m).property)
                /\ Covered(Q, merge_high(m).property) = Covered(P, m.property)
<1> DEFINE q == m.list.nxt[m.base]
           p == m.base
<1>1. /\ P \in SUBSET Page /\ Linked(m.list, P) /\ p \in P /\ P \subseteq Nat
      /\ (\A b \in P : m.property[b] \in Nat) /\ \A b, d \in P : b < d => b + m.property[b] <= d
  <2>1. P \subseteq Page /\ Linked(m.list, P) /\ Parts(P, m.property) /\ m.base \in P /\ P \subseteq Nat
    BY NodeFacts DEF Area
  <2>2. (\A b \in P : m.property[b] \in Nat) /\ \A b, d \in P : b < d => b + m.property[b] <= d
    BY <2>1, NodeFacts DEF Parts
  <2> QED
    BY <2>1, <2>2
<1>2. /\ q \in P \cup {HEAD} /\ (q # HEAD => p < q)
      /\ \A d \in P : p < d => q # HEAD /\ q <= d
  <2>1. HEAD \notin P
    BY <1>1, NodeFacts
  <2>2. p \in P \cup {HEAD} /\ p # HEAD
    BY <1>1, <2>1
  <2> HIDE DEF p
  <2>3. \A b \in P \cup {HEAD} :
         /\ m.list.nxt[b] \in P \cup {HEAD} /\ m.list.prv[b] \in P \cup {HEAD}
         /\ m.list.prv[m.list.nxt[b]] = b /\ m.list.nxt[m.list.prv[b]] = b
         /\ (b # HEAD /\ m.list.nxt[b] # HEAD) => b < m.list.nxt[b]
         /\ (b # HEAD /\ m.list.prv[b] # HEAD) => m.list.prv[b] < b
         /\ \A d \in P : (b = HEAD \/ b < d) => m.list.nxt[b] # HEAD /\ m.list.nxt[b] <= d
         /\ \A d \in P : (b = HEAD \/ d < b) => m.list.prv[b] # HEAD /\ d <= m.list.prv[b]
    BY <1>1, LinkFacts
  <2> QED
    BY <2>2, <2>3 DEF p
<1>3. CASE q # HEAD /\ p + m.property[p] = q
  <2> DEFINE new == [base |-> p, list |-> list_del(m.list, q),
                     property |-> [m.property EXCEPT ![p] = m.property[p] + m.property[q]],
                     flags |-> m.flags \ {q}]
  <2>1. merge_high(m) = new /\ q \in P
    BY <1>2, <1>3 DEF merge_high
  <2> HIDE DEF p, q
  <2>3. new = [base |-> p, list |-> list_del(m.list, q),
               property |-> [m.property EXCEPT ![p] = m.property[p] + m.property[q]],
               flags |-> m.flags \ {q}]
    OBVIOUS
  <2> HIDE DEF new
  <2>4. /\ Area(new, P \ {q}) /\ Covered(P \ {q}, new.property) = Covered(P, m.property)
        /\ Joined(P, m.property, new.property, p, q)
    <3>1. Touch(P, m.property, p, q)
      BY <1>1, <1>2, <1>3, <2>1 DEF Touch
    <3> QED
      BY <2>3, <3>1, MergeArea
  <2>6. /\ new.property[p] = m.property[p] + m.property[q] /\ p < q /\ p + m.property[p] = q
        /\ \A b \in P \ {q} : b # p => new.property[b] = m.property[b]
    BY <1>2, <1>3, <2>4 DEF Joined
  <2>5. ASSUME NEW b \in P \ {q}, NEW d \in P \ {q}, b < d PROVE b + new.property[b] < d
    <3>0. /\ b \in Nat /\ d \in Nat /\ q \in Nat /\ m.property[b] \in Nat /\ m.property[q] \in Nat
          /\ b + m.property[b] <= d /\ q # d
      BY <1>1, <2>1, <2>5
    <3>1. CASE b = p
      <4>1. q < d
        <5>1. q <= d
          BY <1>2, <2>5, <3>1 DEF p, q
        <5> QED
          BY <3>0, <5>1
      <4>2. q + m.property[q] <= d
        BY <1>1, <2>1, <4>1
      <4>3. q + m.property[q] # d
        <5>1. q + m.property[q] = d => Touch(P, m.property, q, d)
          BY <2>1, <4>1 DEF Touch
        <5>2. q # p
          BY <2>6, <3>0, <1>1
        <5> QED
          BY <5>1, <5>2 DEF p
      <4> QED
        BY <1>1, <2>6, <3>0, <3>1, <4>2, <4>3
    <3>2. CASE b # p
      <4>1. b + m.property[b] # d
        <5>1. b + m.property[b] = d => Touch(P, m.property, b, d)
          BY <2>5 DEF Touch
        <5> QED
          BY <3>2, <5>1 DEF p
      <4>2. new.property[b] = m.property[b]
        BY <2>6, <2>5, <3>2
      <4> QED
        BY <3>0, <4>1, <4>2
    <3> QED
      BY <3>1, <3>2
  <2>7. Gaps(P \ {q}, new.property)
    BY <2>5 DEF Gaps
  <2> QED
    BY <2>1, <2>4, <2>7
<1>4. CASE ~(q # HEAD /\ p + m.property[p] = q)
  <2>1. merge_high(m) = m
    BY <1>4 DEF merge_high
  <2>2. ASSUME NEW b \in P, NEW d \in P, b < d PROVE b + m.property[b] < d
    <3>0. b \in Nat /\ d \in Nat /\ m.property[b] \in Nat /\ b + m.property[b] <= d
      BY <1>1, <2>2
    <3>1. b + m.property[b] # d
      <4>1. ASSUME b + m.property[b] = d PROVE FALSE
        <5>1. b = p
          BY <2>2, <4>1 DEF Touch
        <5>2. q # HEAD /\ q <= d /\ q \in P /\ p < q
          BY <1>2, <2>2, <5>1
        <5>3. p + m.property[p] <= q /\ q \in Nat
          BY <1>1, <5>2
        <5> HIDE DEF p, q
        <5>4. q = d
          BY <3>0, <4>1, <5>1, <5>2, <5>3
        <5> QED
          BY <1>4, <4>1, <5>1, <5>2, <5>4
      <4> QED
        BY <4>1
    <3> QED
      BY <3>0, <3>1
  <2>3. Gaps(P, m.property)
    BY <2>2 DEF Gaps
  <2> QED
    BY <2>1, <2>3
<1> QED
  BY <1>3, <1>4

\* The blocks P as long as prop says, with room between any two.
FreeBlocks(l, prop, P) ==
  /\ P \subseteq Page /\ Linked(l, P) /\ prop \in [Page -> 0..npage]
  /\ Parts(P, prop) /\ Gaps(P, prop)

\* store keeps the blocks and the pages in them.
LEMMA StoreBlocks ==
  ASSUME NEW m, NEW P, m.flags = P, FreeBlocks(m.list, m.property, P), store(m)
  PROVE  /\ FreeBlocks(list', property', P) /\ PG_property' = P
         /\ Covered(P, property') = Covered(P, m.property)
         /\ \A b \in Page \ P : property'[b] = 0
<1>1. P \in SUBSET Page /\ Linked(m.list, P) /\ m.property \in [Page -> 0..npage] /\ Parts(P, m.property) /\ Gaps(P, m.property)
  BY DEF FreeBlocks
<1>2. /\ Linked(list', P) /\ PG_property' = P
      /\ property' \in [Page -> 0..npage] /\ (\A b \in P : property'[b] = m.property[b])
      /\ \A b \in Page \ P : property'[b] = 0
  BY <1>1, StoreFacts
<1> DEFINE new == property'
           old == m.property
<1>3. (\A b \in P : new[b] = old[b]) /\ Parts(P, old) /\ Gaps(P, old)
  BY <1>1, <1>2
<1>4. Parts(P, new) /\ Gaps(P, new) /\ Covered(P, new) = Covered(P, old)
  <2> HIDE DEF new, old
  <2> QED
    BY <1>3 DEF Parts, Gaps, Covered
<1> QED
  BY <1>1, <1>2, <1>4 DEF FreeBlocks

\* The block that is taken is free and long enough.
LEMMA FitFacts ==
  ASSUME FreeBlocks(list, property, PG_property), pmm_manager \in {"default", "best_fit"},
         nr_free \in Int, NEW n \in 1..npage, fit(n) # NULL
  PROVE  fit(n) \in PG_property /\ property[fit(n)] >= n /\ n <= nr_free
<1> DEFINE enough == {b \in Page : property[b] >= n}
<1>1. PG_property \in SUBSET Page /\ Linked(list, PG_property)
  BY DEF FreeBlocks
<1>2. n \in Int
  OBVIOUS
<1>3. n <= nr_free
  BY <1>2 DEF fit
<1>4. tightest(enough) \subseteq enough
  BY DEF tightest
<1>5. \A S \in SUBSET enough : first(list, S) = NULL \/ first(list, S) \in PG_property \cap S
  <2>1. SUBSET enough \subseteq SUBSET Page
    OBVIOUS
  <2> HIDE DEF enough
  <2>2. ASSUME NEW S \in SUBSET enough PROVE first(list, S) = NULL \/ first(list, S) \in PG_property \cap S
    BY <1>1, <2>1, FirstFacts
  <2> QED
    BY <2>2
<1>6. fit(n) = first(list, enough) \/ fit(n) = first(list, tightest(enough))
  BY <1>2, <1>3 DEF fit
<1>7. fit(n) \in PG_property \cap enough
  <2> HIDE DEF enough
  <2> QED
    BY <1>4, <1>5, <1>6
<1> QED
  BY <1>3, <1>7

\* Deleting a block and putting the rest of it after the one before it is putting it
\* between its neighbours.
LEMMA SplitLinked ==
  ASSUME NEW P \in SUBSET Page, NEW l, Linked(l, P), NEW page \in P, NEW r \in Page,
         page < r, \A d \in P : page < d => r < d
  PROVE  Linked(list_add(list_del(l, page), l.prv[page], r), (P \ {page}) \cup {r})
<1> DEFINE p == l.prv[page]
           q == l.nxt[page]
           l1 == list_del(l, page)
           P1 == P \ {page}
<1>1. P \subseteq Nat /\ HEAD \notin P /\ page \in Nat /\ r \in Nat /\ P1 \subseteq Page
  BY NodeFacts
<1>2. \A b \in P \cup {HEAD} :
       /\ l.nxt[b] \in P \cup {HEAD} /\ l.prv[b] \in P \cup {HEAD}
       /\ l.prv[l.nxt[b]] = b /\ l.nxt[l.prv[b]] = b
       /\ (b # HEAD /\ l.nxt[b] # HEAD) => b < l.nxt[b]
       /\ (b # HEAD /\ l.prv[b] # HEAD) => l.prv[b] < b
       /\ \A d \in P : (b = HEAD \/ b < d) => l.nxt[b] # HEAD /\ l.nxt[b] <= d
       /\ \A d \in P : (b = HEAD \/ d < b) => l.prv[b] # HEAD /\ d <= l.prv[b]
  BY LinkFacts
<1>3. /\ p \in P \cup {HEAD} /\ q \in P \cup {HEAD}
      /\ (p # HEAD => p < page) /\ (q # HEAD => page < q)
  BY <1>1, <1>2
<1>4. p # page /\ q # page /\ p \in P1 \cup {HEAD} /\ r \notin P1
  <2>1. p # page
    <3>1. p # HEAD => p \in Nat /\ p < page
      BY <1>1, <1>3
    <3> HIDE DEF p
    <3> QED
      BY <1>1, <3>1
  <2>2. q # page
    <3>1. q # HEAD => q \in Nat /\ page < q
      BY <1>1, <1>3
    <3> HIDE DEF q
    <3> QED
      BY <1>1, <3>1
  <2>3. r \notin P
    BY <1>1
  <2> HIDE DEF p, q
  <2> QED
    BY <1>3, <2>1, <2>2, <2>3
<1>5. Linked(l1, P1)
  BY DeleteLinked
<1>6. l1.nxt[p] = q
  <2>1. l.nxt \in [Node -> Node] /\ p \in Node
    BY <1>3, NodeFacts DEF Linked, Links
  <2>2. l1.nxt = [l.nxt EXCEPT ![p] = q]
    BY DEF list_del
  <2> HIDE DEF p, q, l1
  <2> QED
    BY <2>1, <2>2
<1>7. list_add(l1, p, r) = list_insert(l1, r, p, l1.nxt[p])
  BY DEF list_add
<1>8. (p = HEAD \/ p < r) /\ (q = HEAD \/ r < q)
  <2>1. q # HEAD => q \in P /\ page < q
    BY <1>3
  <2>2. p # HEAD => p \in Nat /\ p < page
    BY <1>1, <1>3
  <2> HIDE DEF p, q
  <2>3. q # HEAD => r < q
    BY <2>1
  <2>4. p # HEAD => p < r
    BY <1>1, <2>2
  <2> QED
    BY <2>3, <2>4
<1> HIDE DEF p, q, l1, P1
<1>9. Linked(list_insert(l1, r, p, l1.nxt[p]), P1 \cup {r})
  BY <1>1, <1>4, <1>5, <1>6, <1>8, InsertLinked
<1> QED
  BY <1>7, <1>9 DEF p, l1, P1

\* split takes n pages from a block, and leaves the rest of it on the list.
LEMMA SplitBlocks ==
  ASSUME FreeBlocks(list, property, PG_property), NEW page \in PG_property,
         NEW n \in 1..npage, n <= property[page],
         NEW m, m = split(page, n)
  PROVE  /\ FreeBlocks(m.list, m.property, m.flags)
         /\ Covered(m.flags, m.property) = Covered(PG_property, property) \ run(page, n)
         /\ run(page, n) \subseteq Covered(PG_property, property)
<1> DEFINE P == PG_property
           old == property
           rest == old[page] > n
           r == page + n
           Q == m.flags
           new == m.property
<1>1. /\ P \in SUBSET Page /\ Linked(list, P) /\ old \in [Page -> 0..npage]
      /\ Parts(P, old) /\ Gaps(P, old)
  BY DEF FreeBlocks
<1>2. P \subseteq Nat /\ npage \in Nat /\ n \in Nat /\ n >= 1 /\ page \in Nat /\ page \in Page
  BY <1>1, NodeFacts
<1>3. /\ old[page] \in Nat /\ page + old[page] <= npage /\ old[page] <= npage
      /\ \A d \in P : page < d => page + old[page] < d
  BY <1>1, <1>2 DEF Parts, Gaps
<1>4. /\ m.list = IF rest THEN list_add(list_del(list, page), list.prv[page], r) ELSE list_del(list, page)
      /\ new = [p \in Page |-> IF rest /\ p = r THEN old[page] - n ELSE old[p]]
      /\ Q = (P \cup {p \in {r} : rest}) \ {page}
  BY DEF split
<1>5. r # page /\ r \in Nat
  BY <1>2
<1>6. Q = (P \ {page}) \cup {p \in {r} : rest}
  BY <1>4, <1>5
<1>7. rest => r \in Page /\ page < r /\ \A d \in P : page < d => r < d
  <2>1. rest => r < page + old[page]
    BY <1>2, <1>3
  <2>2. rest => r \in Page
    BY <1>2, <1>3, <2>1 DEF Page
  <2>3. page < r
    BY <1>2
  <2>4. ASSUME rest, NEW d \in P, page < d PROVE r < d
    <3>1. page + old[page] < d /\ d \in Nat
      BY <1>2, <1>3, <2>4
    <3> QED
      BY <1>2, <1>3, <2>1, <2>4, <3>1
  <2> QED
    BY <2>2, <2>3, <2>4
<1>8. \A b \in Q : new[b] = IF b = r THEN old[page] - n ELSE old[b]
  <2>1. \A b \in Q : b \in Page /\ (b = r => rest)
    <3>1. r \in P => rest
      <4>1. r \in P => page + old[page] < r
        BY <1>2, <1>3
      <4> QED
        BY <1>2, <1>3, <4>1
    <3> QED
      BY <1>1, <1>6, <1>7, <3>1
  <2> QED
    BY <1>4, <2>1
<1>9. Linked(m.list, Q)
  <2>1. CASE rest
    <3>1. Linked(list_add(list_del(list, page), list.prv[page], r), (P \ {page}) \cup {r})
      BY <1>1, <1>7, <2>1, SplitLinked
    <3>2. Q = (P \ {page}) \cup {r}
      BY <1>6, <2>1
    <3> QED
      BY <1>4, <2>1, <3>1, <3>2
  <2>2. CASE ~rest
    <3>1. Linked(list_del(list, page), P \ {page})
      BY <1>1, DeleteLinked
    <3>2. Q = P \ {page}
      BY <1>6, <2>2
    <3> QED
      BY <1>4, <2>2, <3>1, <3>2
  <2> QED
    BY <2>1, <2>2
<1>10. new \in [Page -> 0..npage]
  <2>1. rest => old[page] - n \in 0..npage
    BY <1>2, <1>3
  <2> QED
    BY <1>1, <1>4, <2>1
<1>11. /\ Q \in SUBSET Page /\ Parts(Q, new) /\ Gaps(Q, new)
       /\ Covered(Q, new) = Covered(P, old) \ run(page, n)
       /\ run(page, n) \subseteq Covered(P, old)
  <2> HIDE DEF P, old, Q, new
  <2>1. Q = (P \ {page}) \cup {p \in {page + n} : old[page] > n}
    BY <1>6
  <2>2. \A b \in Q : new[b] = IF b = page + n THEN old[page] - n ELSE old[b]
    BY <1>8
  <2>3. page \in P /\ n <= old[page]
    BY DEF P, old
  <2>4. Cut(P, old, page, n, Q, new)
    BY <2>1, <2>2, <2>3 DEF Cut
  <2> QED
    BY <1>1, <2>4, CutParts
<1> QED
  BY <1>9, <1>10, <1>11 DEF FreeBlocks

\* A block that overlaps no free one comes on the list, and its neighbours are merged
\* with it: the pages of it become free and the others stay as they are.
LEMMA FreeFacts ==
  ASSUME FreeBlocks(list, property, PG_property), NEW base \in Page, NEW n \in 1..npage,
         base + n < npage, (npage - 1) \in Covered(PG_property, property),
         Covered(PG_property, property) \cap run(base, n) = {},
         NEW m, m = merge_high(merge_low([base |-> base,
                                          list |-> put(list, base),
                                          property |-> [property EXCEPT ![base] = n],
                                          flags |-> PG_property \cup {base}]))
  PROVE  /\ FreeBlocks(m.list, m.property, m.flags)
         /\ Covered(m.flags, m.property) = Covered(PG_property, property) \cup run(base, n)
<1> DEFINE P == PG_property
           old == property
           new == [property EXCEPT ![base] = n]
           R == P \cup {base}
           m0 == [base |-> base, list |-> put(list, base), property |-> new, flags |-> R]
<1>1. /\ P \in SUBSET Page /\ Linked(list, P) /\ old \in [Page -> 0..npage]
      /\ Parts(P, old) /\ Gaps(P, old)
  BY DEF FreeBlocks
<1>2. P \subseteq Nat /\ npage \in Nat /\ n \in Nat /\ n >= 1 /\ base \in Nat
  BY <1>1, NodeFacts
<1>3. base \notin P
  <2>1. \A b \in P : b \in Covered(P, old)
    <3>1. \A b \in P : b \in Page /\ b <= b /\ b < b + old[b]
      BY <1>1, <1>2 DEF Parts
    <3> QED
      BY <3>1 DEF Covered
  <2>2. base \in run(base, n)
    BY <1>2 DEF run
  <2> QED
    BY <2>1, <2>2
<1>4. (\A b \in P : new[b] = old[b]) /\ new[base] = n /\ new \in [Page -> 0..npage]
  <2>1. n \in 0..npage
    BY <1>2
  <2> QED
    BY <1>1, <1>3, <2>1
<1>5. Parts(R, new) /\ Covered(R, new) = Covered(P, old) \cup run(base, n)
  <2> HIDE DEF P, old, new
  <2>1. base + n <= npage
    BY <1>2
  <2>2. Covered(P, old) \cap run(base, n) = {}
    BY DEF P, old
  <2>3. Added(P, old, base, n, new)
    BY <1>4, <2>1, <2>2 DEF Added
  <2> HIDE DEF R
  <2>4. P \in SUBSET Page /\ Parts(P, old)
    BY <1>1
  <2>5. Parts(P \cup {base}, new) /\ Covered(P \cup {base}, new) = Covered(P, old) \cup run(base, n)
    BY <2>3, <2>4, AddParts
  <2> QED
    BY <2>5 DEF R
<1>6. \E d \in P : base < d
  <2>1. PICK d \in P : d <= npage - 1 /\ npage - 1 < d + old[d]
    BY DEF Covered
  <2>2. d \in Nat /\ old[d] \in Nat /\ d # base
    BY <1>1, <1>2, <1>3, <2>1 DEF Parts
  <2>3. d < base => base \in Covered(P, old)
    <3>1. d < base => d <= base /\ base < d + old[d]
      BY <1>2, <2>1, <2>2
    <3> QED
      BY <3>1 DEF Covered
  <2>4. base \in run(base, n)
    BY <1>2 DEF run
  <2>5. ~(d < base)
    BY <2>3, <2>4
  <2> QED
    BY <1>2, <2>2, <2>5
<1>7. Linked(put(list, base), R)
  BY <1>1, <1>3, <1>6, PutLinked
<1>8. Area(m0, R)
  BY <1>1, <1>4, <1>5, <1>7 DEF Area
<1>9. \A b, d : Touch(R, m0.property, b, d) => b = m0.base \/ d = m0.base
  <2>1. ASSUME NEW b \in P, NEW d \in P, b < d, b + new[b] = d PROVE FALSE
    <3>1. b + old[b] < d /\ b + old[b] = d
      BY <1>1, <1>4, <2>1 DEF Gaps
    <3>2. d \in Nat
      BY <1>2
    <3> HIDE DEF old, P
    <3> QED
      BY <3>1, <3>2
  <2>2. m0.property = new /\ m0.base = base
    OBVIOUS
  <2> HIDE DEF m0, new
  <2> QED
    BY <2>1, <2>2 DEF Touch
<1> DEFINE m1 == merge_low(m0)
<1>10. m = merge_high(m1) /\ m0.property = new
  OBVIOUS
<1> HIDE DEF m0
<1>11. PICK Q \in {Q \in SUBSET Page : TRUE} :
              /\ Area(m1, Q) /\ Covered(Q, m1.property) = Covered(R, m0.property)
              /\ \A b, d : Touch(Q, m1.property, b, d) => b = m1.base
  <2>1. PICK Q : /\ Area(m1, Q) /\ Covered(Q, m1.property) = Covered(R, m0.property)
                 /\ \A b, d : Touch(Q, m1.property, b, d) => b = m1.base
    BY <1>8, <1>9, MergeLowFacts
  <2>2. Q \in SUBSET Page
    BY <2>1 DEF Area
  <2> QED
    BY <2>1, <2>2
<1> HIDE DEF m1
<1>12. PICK S : /\ Area(m, S) /\ Gaps(S, m.property)
                /\ Covered(S, m.property) = Covered(Q, m1.property)
  BY <1>10, <1>11, MergeHighFacts
<1>13. S = m.flags /\ FreeBlocks(m.list, m.property, S)
  BY <1>12 DEF Area, FreeBlocks
<1> QED
  BY <1>5, <1>10, <1>11, <1>12, <1>13

-----------------------------------------------------------------------------
(* The invariant. *)

\* The pages the callers hold.
Held == {p \in Page : \E c \in Client : p \in block(c)}

Types ==
  /\ pmm_manager \in {"default", "best_fit"}
  /\ got \in [Client -> Call]
  /\ \A b \in Page \ PG_property : property[b] = 0

\* A block that is held has a page at least, and is below the reserve.
Blocks == \A c \in Client : got[c].page # NULL => got[c].n >= 1 /\ got[c].page + got[c].n <= npage - Reserve

\* No page is in two blocks.
Apart == \A c, e \in Client : c # e => block(c) \cap block(e) = {}

\* What is not in a free block is held.
Shared ==
  /\ Covered(PG_property, property) = Page \ Held
  /\ nr_free = npage - Cardinality(Held)

IInv == Types /\ FreeBlocks(list, property, PG_property) /\ Blocks /\ Apart /\ Shared

LEMMA BlockFacts ==
  ASSUME Types, Blocks, NEW c \in Client
  PROVE  /\ got[c] = none => block(c) = {}
         /\ got[c].page = NULL => block(c) = {}
         /\ got[c].page # NULL => /\ got[c].page \in Page /\ got[c].n \in 1..npage
                                  /\ got[c].page + got[c].n <= npage - Reserve
                                  /\ block(c) = run(got[c].page, got[c].n)
                                  /\ got[c].page \in block(c)
         /\ block(c) \subseteq Page
<1>1. got[c] \in Call /\ npage \in Nat /\ Reserve \in Nat
  BY FirstFitAssumption DEF Types
<1>2. got[c] = none => got[c].page = NULL
  BY DEF none
<1>3. ASSUME got[c].page # NULL PROVE
        /\ got[c].page \in Page /\ got[c].n \in 1..npage
        /\ got[c].page + got[c].n <= npage - Reserve
        /\ block(c) = run(got[c].page, got[c].n)
        /\ got[c].page \in block(c)
        /\ block(c) \subseteq Page
  <2>1. got[c].page \in Page /\ got[c].n \in 0..npage
    BY <1>1, <1>3 DEF Call
  <2>2. got[c].n >= 1 /\ got[c].page + got[c].n <= npage - Reserve
    BY <1>3 DEF Blocks
  <2> DEFINE p == got[c].page
             n == got[c].n
  <2>3. block(c) = p .. (p + n - 1)
    BY <1>3 DEF block
  <2> HIDE DEF p, n
  <2>4. p \in Nat /\ n \in Nat /\ n >= 1 /\ p + n <= npage
    <3>1. p \in Page /\ n \in 0..npage /\ n >= 1 /\ p + n <= npage - Reserve
      BY <2>1, <2>2 DEF p, n
    <3>2. p \in Nat /\ n \in Nat
      BY <3>1, NodeFacts
    <3> QED
      BY <1>1, <3>1, <3>2
  <2>5. p \in p .. (p + n - 1) /\ p .. (p + n - 1) \subseteq Page /\ n \in 1..npage
    BY <1>1, <2>4 DEF Page
  <2> QED
    BY <2>1, <2>2, <2>3, <2>5 DEF p, n, run
<1>4. got[c].page = NULL => block(c) = {}
  BY DEF block
<1> QED
  BY <1>2, <1>3, <1>4

\* The pages of a block, counted.
LEMMA RunSize ==
  ASSUME NEW page \in Page, NEW n \in 1..npage, NEW S \in SUBSET Page, S \cap run(page, n) = {}, page + n <= npage
  PROVE  /\ IsFiniteSet(S) /\ Cardinality(S) \in 0..npage
         /\ Cardinality(S \cup run(page, n)) = Cardinality(S) + n
         /\ S \cup run(page, n) \subseteq Page /\ Cardinality(S \cup run(page, n)) <= npage
<1>1. page \in Nat /\ n \in Nat /\ n >= 1 /\ npage \in Nat /\ npage >= 1
  BY NodeFacts
<1>2. IsFiniteSet(Page) /\ Cardinality(Page) = npage
  <2>1. 0 \in Int /\ npage - 1 \in Int /\ ~(0 > npage - 1) /\ (npage - 1) - 0 + 1 = npage
    BY <1>1
  <2> QED
    BY <2>1, FS_Interval DEF Page
<1>3. IsFiniteSet(run(page, n)) /\ Cardinality(run(page, n)) = n
  <2>1. page \in Int /\ page + n - 1 \in Int /\ ~(page > page + n - 1) /\ (page + n - 1) - page + 1 = n
    BY <1>1
  <2> QED
    BY <2>1, FS_Interval DEF run
<1>4. \A T \in SUBSET Page : IsFiniteSet(T) /\ Cardinality(T) <= npage
  BY <1>2, FS_Subset
<1>5. run(page, n) \subseteq Page
  BY <1>1 DEF run, Page
<1>6. Cardinality(S \cup run(page, n)) = Cardinality(S) + n
  <2> DEFINE R == run(page, n)
  <2>1. IsFiniteSet(S) /\ IsFiniteSet(R) /\ S \cap R = {} /\ Cardinality(R) = n
    BY <1>3, <1>4
  <2> HIDE DEF R
  <2>2. Cardinality(S \cup R) = Cardinality(S) + Cardinality(R) - Cardinality(S \cap R)
    BY <2>1, FS_Union
  <2>3. Cardinality(S \cap R) = 0
    BY <2>1, FS_EmptySet
  <2>4. Cardinality(S) \in Nat
    BY <2>1, FS_CardinalityType
  <2> QED
    BY <1>1, <2>1, <2>2, <2>3, <2>4 DEF R
<1>7. Cardinality(S) \in Nat
  BY <1>4, FS_CardinalityType
<1>8. Cardinality(S) <= npage /\ IsFiniteSet(S)
  BY <1>4
<1>9. Cardinality(S) \in 0..npage
  BY <1>1, <1>7, <1>8
<1>10. S \cup run(page, n) \subseteq Page
  BY <1>5
<1>11. Cardinality(S \cup run(page, n)) <= npage
  BY <1>4, <1>10
<1> QED
  BY <1>6, <1>8, <1>9, <1>10, <1>11

\* The pages of a caller that gets a block, or gives one up; the others keep theirs.
LEMMA HeldFacts ==
  ASSUME NEW c \in Client, \A e \in Client : e # c => block(e)' = block(e), Apart,
         block(c) = {} \/ block(c)' = {},
         \A e \in Client : e # c => block(e) \cap block(c)' = {},
         \A e \in Client : block(e) \subseteq Page /\ block(e)' \subseteq Page
  PROVE  Apart' /\ Held' = (Held \ block(c)) \cup block(c)' /\ Held \subseteq Page
<1>1. Held \subseteq Page /\ block(c) \subseteq Held
  BY DEF Held
<1>2. \A e \in Client : e # c => block(e) \cap block(c) = {}
  BY DEF Apart
<1>3. Apart'
  BY DEF Apart
<1>4. Held' = {p \in Page : \E e \in Client : p \in block(e)'}
  BY DEF Held
<1>5. ASSUME NEW p \in Page PROVE p \in Held' <=> p \in (Held \ block(c)) \cup block(c)'
  <2>1. p \in Held <=> \E e \in Client : p \in block(e)
    BY DEF Held
  <2>2. p \in Held' <=> \E e \in Client : p \in block(e)'
    BY <1>4
  <2> QED
    BY <1>2, <2>1, <2>2
<1>6. Held' \subseteq Page /\ block(c)' \subseteq Page
  BY <1>4
<1> QED
  BY <1>1, <1>3, <1>5, <1>6

LEMMA InitInv ==
  ASSUME Init
  PROVE  IInv
<1>1. /\ 0 \in Page /\ npage \in Nat /\ npage >= 1 /\ HEAD \in Node /\ 0 \in Node /\ 0 # HEAD /\ NULL \notin Page
      /\ Page \subseteq Nat /\ Node = Page \cup {HEAD} /\ HEAD \notin Page
  <2>1. npage \in Nat /\ npage >= 1
    BY NodeFacts
  <2>2. 0 \in Page
    BY <2>1 DEF Page
  <2> QED
    BY <2>1, <2>2, NodeFacts
<1> DEFINE l0 == [nxt |-> [p \in Node |-> HEAD], prv |-> [p \in Node |-> HEAD]]
           l1 == list_insert(l0, 0, HEAD, HEAD)
<1>2. l0.nxt[HEAD] = HEAD /\ list = put(l0, 0)
  BY <1>1 DEF Init
<1>3. list = l1
  <2> HIDE DEF l0
  <2> QED
    BY <1>2 DEF put, list_add
<1>4. Linked(l0, {})
  BY <1>1 DEF Linked, Links, IsNext, IsPrev, Precedes
<1>5. Linked(l1, {} \cup {0})
  <2>1. {} \in SUBSET Page /\ HEAD \in {} \cup {HEAD} /\ 0 \notin {}
    OBVIOUS
  <2> HIDE DEF l0
  <2> QED
    BY <1>1, <1>2, <1>4, <2>1, InsertLinked
<1>6. {} \cup {0} = {0} /\ PG_property = {0}
  BY DEF Init
<1>7. property = [p \in Page |-> IF p = 0 THEN npage ELSE 0] /\ pmm_manager \in {"default", "best_fit"}
      /\ nr_free = npage /\ got = [c \in Client |-> none]
  BY DEF Init
<1>8. Linked(list, PG_property) /\ PG_property \subseteq Page
  BY <1>1, <1>3, <1>5, <1>6
<1>9. property \in [Page -> 0..npage] /\ property[0] = npage /\ \A b \in Page \ PG_property : property[b] = 0
  BY <1>1, <1>6, <1>7
<1>10. Parts(PG_property, property) /\ Gaps(PG_property, property)
  <2>1. npage \in 1..npage /\ 0 + npage <= npage /\ ~(0 < 0)
    BY <1>1
  <2> QED
    BY <1>6, <1>9, <2>1 DEF Parts, Gaps
<1>11. \A c \in Client : got[c] = none /\ got[c].page = NULL /\ block(c) = {}
  BY <1>7 DEF none, block
<1>12. got \in [Client -> Call]
  <2>1. none \in Call
    BY <1>1 DEF none, Call
  <2> QED
    BY <1>7, <2>1
<1>13. Held = {} /\ Cardinality(Held) = 0
  <2>1. Held = {}
    BY <1>11 DEF Held
  <2> QED
    BY <2>1, FS_EmptySet
<1>14. Covered(PG_property, property) = Page
  <2>1. \A p \in Page : 0 <= p /\ p < 0 + npage
    BY <1>1, NodeFacts
  <2> QED
    BY <1>6, <1>9, <2>1 DEF Covered
<1>15. Types
  BY <1>7, <1>9, <1>12 DEF Types
<1>16. Blocks /\ Apart
  BY <1>11 DEF Blocks, Apart
<1>17. Shared
  BY <1>1, <1>7, <1>13, <1>14 DEF Shared
<1> QED
  BY <1>8, <1>9, <1>10, <1>15, <1>16, <1>17 DEF IInv, FreeBlocks

\* What the calls of c leave alone: the other calls and their blocks.
LEMMA OtherBlocks ==
  ASSUME Types, Blocks, NEW c \in Client, NEW call \in Call, got' = [got EXCEPT ![c] = call],
         call.page # NULL => call.n >= 1 /\ call.page + call.n <= npage - Reserve
  PROVE  /\ got' \in [Client -> Call] /\ got'[c] = call /\ Blocks'
         /\ \A e \in Client : e # c => block(e)' = block(e) /\ got'[e] = got[e]
<1>1. got \in [Client -> Call]
  BY DEF Types
<1>2. got' \in [Client -> Call] /\ got'[c] = call /\ \A e \in Client : e # c => got'[e] = got[e]
  BY <1>1
<1>3. \A e \in Client : e # c => block(e)' = block(e)
  BY <1>2 DEF block
<1>4. Blocks'
  BY <1>2 DEF Blocks
<1> QED
  BY <1>2, <1>3, <1>4

LEMMA AllocInv ==
  ASSUME IInv, NEW c \in Client, NEW n \in 1..npage, Alloc(c, n)
  PROVE  IInv'
<1> DEFINE page == fit(n)
           m == split(page, n)
           call == [page |-> page, n |-> n]
<1>1. /\ Types /\ FreeBlocks(list, property, PG_property) /\ Blocks /\ Apart /\ Shared
  BY DEF IInv
<1>2. /\ got[c] = none /\ page # NULL /\ page + n <= npage - Reserve
      /\ store(m) /\ nr_free' = nr_free - n
      /\ pmm_manager' = pmm_manager /\ got' = [got EXCEPT ![c] = call]
  BY DEF Alloc
<1>3. Held \in SUBSET Page /\ nr_free = npage - Cardinality(Held)
  BY <1>1 DEF Shared, Held
<1>4. npage \in Nat /\ n \in Nat /\ n >= 1 /\ n \in 1..npage
  BY NodeFacts
<1>5. nr_free \in Int /\ Cardinality(Held) \in Nat
  <2>1. IsFiniteSet(Page)
    <3>1. 0 \in Int /\ npage - 1 \in Int
      BY <1>4
    <3> QED
      BY <3>1, FS_Interval DEF Page
  <2>2. IsFiniteSet(Held)
    BY <1>3, <2>1, FS_Subset
  <2>3. Cardinality(Held) \in Nat
    BY <2>2, FS_CardinalityType
  <2> QED
    BY <1>3, <1>4, <2>3
<1>6. page \in PG_property /\ property[page] >= n
  BY <1>1, <1>2, <1>5, FitFacts DEF Types
<1>7. page \in Page /\ page \in Nat /\ n <= property[page]
  <2>1. page \in Page
    BY <1>1, <1>6 DEF FreeBlocks
  <2>2. property[page] \in 0..npage
    BY <1>1, <2>1 DEF FreeBlocks
  <2>3. page \in Nat
    BY <2>1, NodeFacts
  <2> HIDE DEF page
  <2> QED
    BY <1>4, <1>6, <2>1, <2>2, <2>3
<1> HIDE DEF page
<1>8. /\ FreeBlocks(m.list, m.property, m.flags)
      /\ Covered(m.flags, m.property) = Covered(PG_property, property) \ run(page, n)
      /\ run(page, n) \subseteq Covered(PG_property, property)
  BY <1>1, <1>4, <1>6, <1>7, SplitBlocks
<1> HIDE DEF m
<1>9. /\ FreeBlocks(list', property', PG_property')
      /\ Covered(PG_property', property') = Covered(PG_property, property) \ run(page, n)
      /\ \A b \in Page \ PG_property' : property'[b] = 0
  <2>1. /\ FreeBlocks(list', property', m.flags) /\ PG_property' = m.flags
        /\ Covered(m.flags, property') = Covered(m.flags, m.property)
        /\ \A b \in Page \ m.flags : property'[b] = 0
    BY <1>2, <1>8, StoreBlocks
  <2> QED
    BY <1>8, <2>1
<1>10. call \in Call
  <2>1. n \in 0..npage
    BY <1>4
  <2> QED
    BY <1>7, <2>1 DEF Call
<1>11. /\ got' \in [Client -> Call] /\ got'[c] = call /\ Blocks'
       /\ \A e \in Client : e # c => block(e)' = block(e)
  <2>1. call.page # NULL => call.n >= 1 /\ call.page + call.n <= npage - Reserve
    BY <1>2, <1>4
  <2> HIDE DEF call
  <2> QED
    BY <1>1, <1>2, <1>10, <2>1, OtherBlocks
<1>12. Types'
  BY <1>1, <1>2, <1>9, <1>11 DEF Types
<1>13. block(c) = {} /\ block(c)' = run(page, n)
  <2>1. block(c) = {}
    BY <1>1, <1>2, BlockFacts
  <2>2. got'[c].page = page /\ got'[c].n = n
    BY <1>11
  <2> QED
    BY <1>2, <2>1, <2>2 DEF block, run
<1>14. run(page, n) \cap Held = {} /\ run(page, n) \subseteq Page
  BY <1>1, <1>8 DEF Shared, Covered
<1>15. Apart' /\ Held' = (Held \ block(c)) \cup block(c)'
  <2>1. \A e \in Client : block(e) \subseteq Page
    BY <1>1, BlockFacts
  <2>2. \A e \in Client : block(e)' \subseteq Page
    BY <1>11, <1>13, <1>14, <2>1
  <2>3. \A e \in Client : block(e) \subseteq Held
    BY <2>1 DEF Held
  <2>4. \A e \in Client : e # c => block(e) \cap block(c)' = {}
    BY <1>13, <1>14, <2>3
  <2> QED
    BY <1>1, <1>11, <1>13, <2>1, <2>2, <2>4, HeldFacts
<1>16. Held' = Held \cup run(page, n)
  BY <1>13, <1>15
<1>17. Shared'
  <2>1. Covered(PG_property, property)' = Page \ Held'
    BY <1>1, <1>9, <1>16 DEF Shared
  <2>2. Cardinality(Held') = Cardinality(Held) + n
    <3>1. Held \cap run(page, n) = {} /\ page + n <= npage
      <4>1. page + n <= npage
        BY <1>2, <1>4, <1>7, FirstFitAssumption
      <4> QED
        BY <1>14, <4>1
    <3> QED
      BY <1>3, <1>4, <1>7, <1>16, <3>1, RunSize
  <2>3. nr_free' = npage - Cardinality(Held')
    BY <1>2, <1>3, <1>4, <1>5, <2>2
  <2> QED
    BY <2>1, <2>3 DEF Shared
<1> QED
  BY <1>9, <1>11, <1>12, <1>15, <1>17 DEF IInv

\* A call that is refused, and a client that goes on without the memory.
LEMMA EmptyCallInv ==
  ASSUME IInv, NEW c \in Client, NEW call \in Call, block(c) = {}, call.page = NULL,
         got' = [got EXCEPT ![c] = call],
         UNCHANGED <<pmm_manager, list, property, PG_property, nr_free>>
  PROVE  IInv'
<1>1. /\ Types /\ FreeBlocks(list, property, PG_property) /\ Blocks /\ Apart /\ Shared
  BY DEF IInv
<1>2. /\ got' \in [Client -> Call] /\ got'[c] = call /\ Blocks'
      /\ \A e \in Client : e # c => block(e)' = block(e)
  BY <1>1, OtherBlocks
<1>3. block(c)' = {}
  BY <1>2 DEF block
<1>4. \A e \in Client : block(e) \subseteq Page /\ block(e)' \subseteq Page
  BY <1>1, <1>2, <1>3, BlockFacts
<1>5. Apart' /\ Held' = Held
  BY <1>1, <1>2, <1>3, <1>4, HeldFacts
<1>6. Types'
  BY <1>1, <1>2 DEF Types
<1>7. Shared' /\ FreeBlocks(list, property, PG_property)'
  BY <1>1, <1>5 DEF Shared
<1> QED
  BY <1>2, <1>5, <1>6, <1>7 DEF IInv

LEMMA FreeInv ==
  ASSUME IInv, Reserve > 0, NEW c \in Client, Free(c)
  PROVE  IInv'
<1> DEFINE base == got[c].page
           n == got[c].n
           m == merge_high(merge_low([base |-> base,
                                      list |-> put(list, base),
                                      property |-> [property EXCEPT ![base] = n],
                                      flags |-> PG_property \cup {base}]))
<1>1. /\ Types /\ FreeBlocks(list, property, PG_property) /\ Blocks /\ Apart /\ Shared
  BY DEF IInv
<1>2. /\ base # NULL /\ store(m) /\ nr_free' = nr_free + n
      /\ pmm_manager' = pmm_manager /\ got' = [got EXCEPT ![c] = none]
  BY DEF Free
<1>3. /\ base \in Page /\ n \in 1..npage /\ base + n <= npage - Reserve /\ block(c) = run(base, n)
  BY <1>1, <1>2, BlockFacts
<1> HIDE DEF base, n
<1>4. npage \in Nat /\ npage >= 1 /\ n \in Nat /\ n >= 1 /\ base \in Nat /\ Reserve \in Nat
  BY <1>3, NodeFacts, FirstFitAssumption
<1>5. base + n < npage /\ base + n <= npage
  BY <1>3, <1>4
<1>6. \A e \in Client : block(e) \subseteq Page
  BY <1>1, BlockFacts
<1>7. (npage - 1) \in Covered(PG_property, property)
  <2>1. ASSUME NEW e \in Client PROVE (npage - 1) \notin block(e)
    <3> DEFINE x == got[e].page
               k == got[e].n
    <3>1. x = NULL => block(e) = {}
      BY <1>1, BlockFacts
    <3>2. x # NULL => x \in Page /\ k \in 1..npage /\ x + k <= npage - Reserve /\ block(e) = run(x, k)
      BY <1>1, BlockFacts
    <3> HIDE DEF x, k
    <3>3. ASSUME x \in Page, k \in 1..npage, x + k <= npage - Reserve PROVE (npage - 1) \notin run(x, k)
      <4>1. x \in Nat /\ k \in Nat
        BY <1>4, <3>3, NodeFacts
      <4>2. x + k - 1 < npage - 1
        BY <1>4, <3>3, <4>1
      <4> QED
        BY <1>4, <4>1, <4>2 DEF run
    <3> QED
      BY <3>1, <3>2, <3>3
  <2>2. (npage - 1) \in Page
    BY <1>4 DEF Page
  <2>3. (npage - 1) \notin Held
    BY <2>1 DEF Held
  <2> QED
    BY <1>1, <2>2, <2>3 DEF Shared
<1>8. run(base, n) \subseteq Held /\ run(base, n) \subseteq Page
  BY <1>3, <1>6 DEF Held
<1>9. Covered(PG_property, property) \cap run(base, n) = {}
  BY <1>1, <1>8 DEF Shared
<1>10. m = merge_high(merge_low([base |-> base,
                                 list |-> put(list, base),
                                 property |-> [property EXCEPT ![base] = n],
                                 flags |-> PG_property \cup {base}]))
  OBVIOUS
<1> HIDE DEF m
<1>11. /\ FreeBlocks(m.list, m.property, m.flags)
       /\ Covered(m.flags, m.property) = Covered(PG_property, property) \cup run(base, n)
  BY <1>1, <1>3, <1>5, <1>7, <1>9, <1>10, FreeFacts
<1>12. /\ FreeBlocks(list', property', PG_property')
       /\ Covered(PG_property', property') = Covered(PG_property, property) \cup run(base, n)
       /\ \A b \in Page \ PG_property' : property'[b] = 0
  <2>1. /\ FreeBlocks(list', property', m.flags) /\ PG_property' = m.flags
        /\ Covered(m.flags, property') = Covered(m.flags, m.property)
        /\ \A b \in Page \ m.flags : property'[b] = 0
    BY <1>2, <1>11, StoreBlocks
  <2> QED
    BY <1>11, <2>1
<1>13. none \in Call /\ none.page = NULL
  BY <1>4 DEF none, Call
<1>14. /\ got' \in [Client -> Call] /\ got'[c] = none /\ Blocks'
       /\ \A e \in Client : e # c => block(e)' = block(e)
  BY <1>1, <1>2, <1>13, OtherBlocks
<1>15. Types'
  BY <1>1, <1>2, <1>12, <1>14 DEF Types
<1>16. block(c)' = {}
  BY <1>13, <1>14 DEF block
<1>17. Apart' /\ Held' = (Held \ block(c)) \cup block(c)'
  <2>1. \A e \in Client : block(e) \subseteq Page /\ block(e)' \subseteq Page
    BY <1>6, <1>14, <1>16
  <2> QED
    BY <1>1, <1>14, <1>16, <2>1, HeldFacts
<1>18. Held' = Held \ run(base, n)
  BY <1>3, <1>16, <1>17
<1>19. Shared'
  <2>1. Covered(PG_property, property)' = Page \ Held'
    <3>1. Covered(PG_property', property') = (Page \ Held) \cup run(base, n)
      BY <1>1, <1>12 DEF Shared
    <3> QED
      BY <1>8, <1>18, <3>1
  <2> DEFINE S == Held'
  <2>2. Held = S \cup run(base, n) /\ S \cap run(base, n) = {} /\ S \in SUBSET Page
    BY <1>8, <1>18 DEF Held
  <2> HIDE DEF S
  <2>3. Cardinality(Held) = Cardinality(S) + n /\ Cardinality(S) \in 0..npage
    BY <1>3, <1>5, <2>2, RunSize
  <2>4. nr_free = npage - Cardinality(Held)
    BY <1>1 DEF Shared
  <2>5. nr_free' = npage - Cardinality(S)
    BY <1>2, <1>4, <2>3, <2>4
  <2> QED
    BY <2>1, <2>5 DEF S, Shared
<1> QED
  BY <1>12, <1>14, <1>15, <1>17, <1>19 DEF IInv

\* One action at a time.
LEMMA NextInv ==
  ASSUME IInv, Reserve > 0, [Next]_vars
  PROVE  IInv'
<1>1. ASSUME NEW c \in Client, NEW n \in 1..npage, Alloc(c, n) PROVE IInv'
  BY <1>1, AllocInv
<1>2. ASSUME NEW c \in Client, NEW n \in 1..npage, AllocFails(c, n) PROVE IInv'
  <2> DEFINE call == [page |-> NULL, n |-> n]
  <2>1. got[c] = none /\ got' = [got EXCEPT ![c] = call] /\ UNCHANGED <<pmm_manager, list, property, PG_property, nr_free>>
    BY <1>2 DEF AllocFails
  <2>2. block(c) = {}
    BY <2>1, BlockFacts DEF IInv
  <2>3. call \in Call /\ call.page = NULL
    <3>1. n \in 0..npage
      BY NodeFacts
    <3> QED
      BY <3>1 DEF Call
  <2> HIDE DEF call
  <2> QED
    BY <2>1, <2>2, <2>3, EmptyCallInv
<1>3. ASSUME NEW c \in Client, GiveUp(c) PROVE IInv'
  <2>1. /\ got[c].page = NULL /\ got' = [got EXCEPT ![c] = none]
        /\ UNCHANGED <<pmm_manager, list, property, PG_property, nr_free>>
    BY <1>3 DEF GiveUp
  <2>2. block(c) = {}
    BY <2>1 DEF block
  <2>3. none \in Call /\ none.page = NULL
    <3>1. 0 \in 0..npage
      BY NodeFacts
    <3> QED
      BY <3>1 DEF none, Call
  <2> QED
    BY <2>1, <2>2, <2>3, EmptyCallInv
<1>4. ASSUME NEW c \in Client, Free(c) PROVE IInv'
  BY <1>4, FreeInv
<1>5. CASE UNCHANGED vars
  <2>1. /\ pmm_manager' = pmm_manager /\ list' = list /\ property' = property /\ PG_property' = PG_property
        /\ nr_free' = nr_free /\ got' = got
    BY <1>5 DEF vars
  <2>2. \A c \in Client : block(c)' = block(c)
    BY <2>1 DEF block
  <2>3. Held' = Held
    BY <2>2 DEF Held
  <2> QED
    BY <2>1, <2>2, <2>3 DEF IInv, Types, Blocks, Apart, Shared
<1> QED
  BY <1>1, <1>2, <1>3, <1>4, <1>5 DEF Next

\* Every page is where the invariant says, as long as the highest page is not given out.
THEOREM Invariance ==
  ASSUME Reserve > 0
  PROVE  Spec => []IInv
<1>1. Init => IInv
  BY InitInv
<1>2. IInv /\ [Next]_vars => IInv'
  BY NextInv
<1> QED
  BY <1>1, <1>2, PTL DEF Spec

-----------------------------------------------------------------------------
(* What it shows. *)

\* Every page is in one free block or in one caller's, and is not in a second one.
LEMMA OneOwner ==
  ASSUME IInv, NEW p \in Page
  PROVE  Cardinality({b \in PG_property : p \in free_block(b)}) + Cardinality({c \in Client : p \in block(c)}) = 1
<1> DEFINE B == {b \in PG_property : p \in free_block(b)}
           C == {c \in Client : p \in block(c)}
<1>1. /\ PG_property \subseteq Page /\ Parts(PG_property, property) /\ Apart
      /\ Covered(PG_property, property) = Page \ Held /\ property \in [Page -> 0..npage]
  BY DEF IInv, FreeBlocks, Shared
<1>2. Page \subseteq Nat /\ npage \in Nat
  BY NodeFacts
<1>3. \A b \in PG_property : p \in free_block(b) <=> b <= p /\ p < b + property[b]
  <2>1. ASSUME NEW b \in PG_property PROVE p \in b .. (b + property[b] - 1) <=> b <= p /\ p < b + property[b]
    <3>1. b \in Nat /\ p \in Nat /\ property[b] \in Nat
      BY <1>1, <1>2
    <3> QED
      BY <3>1
  <2> QED
    BY <2>1 DEF free_block
<1>4. \A b, d \in B : b = d
  <2>1. ASSUME NEW b \in B, NEW d \in B, b < d PROVE FALSE
    <3>1. b \in Nat /\ d \in Nat /\ p \in Nat /\ property[b] \in Nat
      BY <1>1, <1>2
    <3>2. b + property[b] <= d /\ p < b + property[b] /\ d <= p
      BY <1>1, <1>3, <2>1 DEF Parts
    <3> QED
      BY <3>1, <3>2
  <2>2. \A b, d \in B : b \in Nat /\ d \in Nat /\ ~(b < d) /\ ~(d < b)
    BY <1>1, <1>2, <2>1
  <2> HIDE DEF B
  <2> QED
    BY <2>2
<1>5. \A c, e \in C : c = e
  BY <1>1 DEF Apart
<1>6. B # {} <=> p \in Covered(PG_property, property)
  BY <1>3 DEF Covered
<1>7. C # {} <=> p \in Held
  BY DEF Held
<1>8. (B = {} /\ C # {}) \/ (B # {} /\ C = {})
  BY <1>1, <1>6, <1>7
<1> HIDE DEF B, C
<1>9. \A S : (S # {} /\ \A x, y \in S : x = y) => Cardinality(S) = 1
  <2>1. ASSUME NEW S, NEW x \in S, \A y, z \in S : y = z PROVE S = {x}
    BY <2>1
  <2> QED
    BY <2>1, FS_Singleton
<1>10. Cardinality({}) = 0
  BY FS_EmptySet
<1>11. CASE B = {} /\ C # {}
  <2>1. Cardinality(B) = 0 /\ Cardinality(C) = 1
    BY <1>5, <1>9, <1>10, <1>11
  <2> QED
    BY <2>1 DEF B, C
<1>12. CASE B # {} /\ C = {}
  <2>1. Cardinality(B) = 1 /\ Cardinality(C) = 0
    BY <1>4, <1>9, <1>10, <1>12
  <2> QED
    BY <2>1 DEF B, C
<1> QED
  BY <1>8, <1>11, <1>12

LEMMA HeldCount ==
  ASSUME IInv
  PROVE  /\ Held = UNION {block(c) : c \in Client} /\ nr_free = npage - Cardinality(Held)
         /\ nr_free \in 0..npage
<1>1. Types /\ Blocks /\ Shared
  BY DEF IInv
<1>2. \A c \in Client : block(c) \subseteq Page
  BY <1>1, BlockFacts
<1>3. Held = UNION {block(c) : c \in Client}
  BY <1>2 DEF Held
<1>4. npage \in Nat /\ npage >= 1
  BY NodeFacts
<1>5. IsFiniteSet(Page) /\ Cardinality(Page) = npage
  <2>1. 0 \in Int /\ npage - 1 \in Int /\ ~(0 > npage - 1) /\ (npage - 1) - 0 + 1 = npage
    BY <1>4
  <2> QED
    BY <2>1, FS_Interval DEF Page
<1>6. Held \in SUBSET Page
  BY DEF Held
<1>7. IsFiniteSet(Held) /\ Cardinality(Held) <= npage
  BY <1>5, <1>6, FS_Subset
<1>8. Cardinality(Held) \in Nat
  BY <1>7, FS_CardinalityType
<1>9. nr_free = npage - Cardinality(Held)
  BY <1>1 DEF Shared
<1>10. nr_free \in 0..npage
  BY <1>4, <1>7, <1>8, <1>9
<1> QED
  BY <1>3, <1>9, <1>10

\* The variables have the types they are declared with.
THEOREM TypeCorrect ==
  ASSUME Reserve > 0
  PROVE  Spec => []TypeOK
<1>1. IInv => TypeOK
  <2> SUFFICES ASSUME IInv PROVE TypeOK
    OBVIOUS
  <2>1. Types /\ FreeBlocks(list, property, PG_property) /\ nr_free \in 0..npage
    BY HeldCount DEF IInv
  <2> QED
    BY <2>1 DEF TypeOK, Types, FreeBlocks, Linked, Links
<1> QED
  BY <1>1, Invariance, PTL

\* The list has exactly the free blocks, in the order of their addresses, and its pointers
\* agree: the order in which put, list_del and the merges assign them is right.
THEOREM ListCorrect ==
  ASSUME Reserve > 0
  PROVE  Spec => []FreeList
<1>1. IInv => FreeList
  <2> SUFFICES ASSUME IInv PROVE FreeList
    OBVIOUS
  <2> DEFINE w == walk(list)
             at == {i \in 0..npage : w[i] # HEAD}
             P == PG_property
  <2>1. P \in SUBSET Page /\ Linked(list, P) /\ HEAD \notin P
    BY NodeFacts DEF IInv, FreeBlocks
  <2>2. /\ \A i \in 0..npage : w[i] \in P \cup {HEAD}
        /\ \A i, j \in 0..npage : i < j /\ w[j] # HEAD => w[i] # HEAD /\ w[i] < w[j]
        /\ \A b \in P : \E i \in 0..npage : w[i] = b
    BY <2>1, WalkFacts
  <2>3. \A b \in P \cup {HEAD} :
         /\ list.nxt[b] \in P \cup {HEAD} /\ list.prv[b] \in P \cup {HEAD}
         /\ list.prv[list.nxt[b]] = b /\ list.nxt[list.prv[b]] = b
         /\ (b # HEAD /\ list.nxt[b] # HEAD) => b < list.nxt[b]
         /\ (b # HEAD /\ list.prv[b] # HEAD) => list.prv[b] < b
         /\ \A d \in P : (b = HEAD \/ b < d) => list.nxt[b] # HEAD /\ list.nxt[b] <= d
         /\ \A d \in P : (b = HEAD \/ d < b) => list.prv[b] # HEAD /\ d <= list.prv[b]
    BY <2>1, LinkFacts
  <2>4. \A b \in P \cup {HEAD} : list.prv[list.nxt[b]] = b /\ list.nxt[list.prv[b]] = b
    BY <2>3
  <2> HIDE DEF w
  <2>5. {w[i] : i \in at} = P
    BY <2>1, <2>2
  <2>6. \A i, j \in at : i < j => w[i] < w[j]
    BY <2>2
  <2> QED
    BY <2>4, <2>5, <2>6 DEF w, FreeList
<1> QED
  BY <1>1, Invariance, PTL

\* No page is lost and none is given out twice, whatever is allocated and freed in
\* whatever order, and nr_free is the number of free pages.
THEOREM NoPageLost ==
  ASSUME Reserve > 0
  PROVE  Spec => []PagesConserved
<1>1. IInv => PagesConserved
  <2> SUFFICES ASSUME IInv PROVE PagesConserved
    OBVIOUS
  <2>1. \A p \in Page :
          Cardinality({b \in PG_property : p \in free_block(b)}) + Cardinality({c \in Client : p \in block(c)}) = 1
    BY OneOwner
  <2>2. ASSUME NEW b \in PG_property PROVE free_block(b) \subseteq Page
    <3>1. b \in Nat /\ property[b] \in Nat /\ b + property[b] <= npage /\ npage \in Nat
      BY NodeFacts DEF IInv, FreeBlocks, Parts
    <3>2. b .. (b + property[b] - 1) \subseteq 0..(npage - 1)
      BY <3>1
    <3> QED
      BY <3>2 DEF free_block, Page
  <2>3. nr_free = npage - Cardinality(UNION {block(c) : c \in Client})
    BY HeldCount
  <2> QED
    BY <2>1, <2>2, <2>3 DEF PagesConserved
<1> QED
  BY <1>1, Invariance, PTL

\* Free blocks that touch are merged, whichever of them was freed last.
THEOREM AllMerged ==
  ASSUME Reserve > 0
  PROVE  Spec => []Coalesced
<1>1. IInv => Coalesced
  <2> SUFFICES ASSUME IInv, NEW b \in PG_property, b + property[b] \in PG_property PROVE FALSE
    BY DEF Coalesced
  <2> DEFINE d == b + property[b]
  <2>1. b \in Nat /\ property[b] \in Nat /\ property[b] >= 1 /\ npage \in Nat
    BY NodeFacts DEF IInv, FreeBlocks, Parts
  <2>2. d \in PG_property /\ d \in Nat /\ b < d
    BY <2>1
  <2>3. b + property[b] < d
    <3>1. Gaps(PG_property, property)
      BY DEF IInv, FreeBlocks
    <3> HIDE DEF d
    <3> QED
      BY <2>2, <3>1 DEF Gaps
  <2> QED
    BY <2>1, <2>3
<1> QED
  BY <1>1, Invariance, PTL

\* Freeing a block that was allocated never meets a page that is free already.
THEOREM FreeNeverAsserts ==
  ASSUME Reserve > 0
  PROVE  Spec => []FreeAsserts
<1>1. IInv => FreeAsserts
  <2> SUFFICES ASSUME IInv, NEW c \in Client, NEW p \in PG_property, p \in block(c) PROVE FALSE
    BY DEF FreeAsserts
  <2>1. p \in Page /\ p \in Nat /\ property[p] \in Nat /\ property[p] >= 1 /\ npage \in Nat
    BY NodeFacts DEF IInv, FreeBlocks, Parts
  <2>2. p <= p /\ p < p + property[p]
    BY <2>1
  <2>3. p \in Covered(PG_property, property)
    BY <2>1, <2>2 DEF Covered
  <2>4. p \in Held
    BY <2>1 DEF Held
  <2> QED
    BY <2>3, <2>4 DEF IInv, Shared
<1> QED
  BY <1>1, Invariance, PTL

-----------------------------------------------------------------------------
(* The free blocks are the areas of PageRuns. *)

\* The areas of n pages or more are the free blocks of that many.
LEMMA AreasFacts ==
  ASSUME IInv, NEW n \in 1..npage
  PROVE  Runs!areas(n) = {[page |-> b, length |-> property[b]] : b \in {d \in PG_property : n <= property[d]}}
<1> DEFINE free == Runs!unused
           P == PG_property
           begins == {p \in free : p - 1 \notin free}
           ends == {p \in free : p + 1 \notin free}
           end(p) == CHOOSE q \in ends : p <= q /\ \A r \in ends : p <= r => q <= r
<1>1. /\ P \subseteq Page /\ Parts(P, property) /\ Gaps(P, property)
      /\ Covered(P, property) = Page \ Held
  BY DEF IInv, FreeBlocks, Shared
<1>2. P \subseteq Nat /\ Page \subseteq Nat /\ npage \in Nat /\ n \in Nat
  BY <1>1, NodeFacts
<1>3. \A b \in P : property[b] \in Nat /\ property[b] >= 1 /\ b + property[b] <= npage
  BY <1>1 DEF Parts
<1>4. \A b, d \in P : b < d => b + property[b] < d
  BY <1>1 DEF Gaps
<1>5. free = Page \ Held
  <2>1. Runs!used = UNION {block(c) : c \in Client}
    BY DEF Runs!used, Runs!run, block
  <2>2. Runs!used = Held
    BY <2>1, HeldCount
  <2> QED
    BY <2>2 DEF Runs!unused, Page
<1>6. \A x : x \in free <=> x \in Page /\ \E b \in P : b <= x /\ x < b + property[b]
  BY <1>1, <1>5 DEF Covered
<1> HIDE DEF free
<1>7. ASSUME NEW b \in P, NEW x \in Nat, b <= x, x < b + property[b] PROVE x \in free
  <2>1. b \in Nat /\ property[b] \in Nat /\ x < npage
    BY <1>2, <1>3, <1>7
  <2>2. x \in Page
    BY <1>2, <2>1 DEF Page
  <2> QED
    BY <1>6, <1>7, <2>2
<1>8. ASSUME NEW b \in P PROVE b \in begins
  <2>1. b \in Nat /\ property[b] \in Nat /\ property[b] >= 1
    BY <1>2, <1>3
  <2>2. b \in free
    BY <1>7, <2>1
  <2>3. ASSUME b - 1 \in free PROVE FALSE
    <3>1. PICK d \in P : d <= b - 1 /\ b - 1 < d + property[d]
      BY <1>6, <2>3
    <3>2. d \in Nat /\ property[d] \in Nat
      BY <1>2, <1>3
    <3>3. d < b
      BY <2>1, <3>1, <3>2
    <3>4. d + property[d] < b
      BY <1>4, <3>3
    <3> QED
      BY <2>1, <3>1, <3>2, <3>4
  <2> QED
    BY <2>2, <2>3
<1>9. ASSUME NEW p \in begins PROVE p \in P
  <2>1. p \in Page /\ p \in Nat
    BY <1>2, <1>6
  <2>2. PICK b \in P : b <= p /\ p < b + property[b]
    BY <1>6
  <2>3. b \in Nat /\ property[b] \in Nat
    BY <1>2, <1>3
  <2>4. b < p => p - 1 \in Nat /\ b <= p - 1 /\ p - 1 < b + property[b]
    BY <2>1, <2>2, <2>3
  <2>5. ~(b < p)
    BY <1>7, <2>4
  <2>6. b = p
    BY <2>1, <2>2, <2>3, <2>5
  <2> QED
    BY <2>6
<1>10. begins = P
  <2> HIDE DEF begins
  <2> QED
    BY <1>8, <1>9
<1>11. ASSUME NEW b \in P PROVE
         /\ b + property[b] - 1 \in ends /\ b <= b + property[b] - 1
         /\ \A r \in ends : b <= r => b + property[b] - 1 <= r
  <2> DEFINE e == b + property[b] - 1
  <2>1. b \in Nat /\ property[b] \in Nat /\ property[b] >= 1
    BY <1>2, <1>3
  <2>2. e \in Nat /\ b <= e /\ e < b + property[b] /\ e + 1 = b + property[b]
    BY <2>1
  <2>3. e \in free
    BY <1>7, <2>2
  <2>4. ASSUME e + 1 \in free PROVE FALSE
    <3>1. PICK d \in P : d <= e + 1 /\ e + 1 < d + property[d]
      BY <1>6, <2>4
    <3>2. d \in Nat /\ property[d] \in Nat
      BY <1>2, <1>3
    <3>3. d < b \/ d = b \/ b < d
      BY <2>1, <3>2
    <3>4. d < b => d + property[d] < b
      BY <1>4
    <3>5. b < d => b + property[b] < d
      BY <1>4
    <3> HIDE DEF e
    <3> QED
      BY <2>1, <2>2, <3>1, <3>2, <3>3, <3>4, <3>5
  <2>5. ASSUME NEW r \in ends, b <= r PROVE e <= r
    <3>1. r \in free /\ r + 1 \notin free /\ r \in Page /\ r \in Nat
      BY <1>2, <1>6
    <3>2. r + 1 \in Nat
      BY <3>1
    <3>3. r < e => b <= r + 1 /\ r + 1 < b + property[b]
      BY <2>1, <2>2, <2>5, <3>1
    <3>4. ~(r < e)
      BY <1>7, <3>1, <3>2, <3>3
    <3> HIDE DEF e
    <3> QED
      BY <2>2, <3>1, <3>4
  <2>6. e \in ends
    BY <2>3, <2>4
  <2> QED
    BY <2>2, <2>5, <2>6
<1>12. ASSUME NEW b \in P PROVE end(b) - b + 1 = property[b]
  <2> DEFINE e == b + property[b] - 1
             q == end(b)
  <2>1. e \in ends /\ b <= e /\ \A r \in ends : b <= r => e <= r
    BY <1>11
  <2>2. q \in ends /\ b <= q /\ \A r \in ends : b <= r => q <= r
    <3> HIDE DEF e, ends
    <3> QED
      BY <2>1
  <2> HIDE DEF q
  <2>3. q \in Nat /\ b \in Nat /\ property[b] \in Nat
    BY <1>2, <1>3, <1>6, <2>2
  <2>4. e <= q /\ q <= e
    BY <2>1, <2>2
  <2>5. q - b + 1 = property[b]
    BY <2>3, <2>4
  <2> QED
    BY <2>5 DEF q
<1>13. Runs!areas(n) = {a \in {[page |-> p, length |-> end(p) - p + 1] : p \in begins} : n <= a.length}
  BY DEF Runs!areas, free
<1> HIDE DEF end, begins, ends
<1>14. {[page |-> p, length |-> end(p) - p + 1] : p \in begins} = {[page |-> b, length |-> property[b]] : b \in P}
  BY <1>10, <1>12
<1>15. Runs!areas(n) = {a \in {[page |-> b, length |-> property[b]] : b \in P} : n <= a.length}
  BY <1>13, <1>14
<1> QED
  BY <1>15

\* The block that is taken is the best area; if there is none, no block is long enough.
LEMMA FitIsBest ==
  ASSUME IInv, NEW n \in 1..npage
  PROVE  /\ fit(n) = NULL => \A b \in PG_property : ~(n <= property[b])
         /\ fit(n) # NULL =>
              /\ fit(n) \in PG_property /\ n <= property[fit(n)]
              /\ \A d \in PG_property : n <= property[d] =>
                   IF pmm_manager = "default" \/ property[d] = property[fit(n)]
                   THEN fit(n) <= d ELSE property[fit(n)] < property[d]
<1> DEFINE enough == {b \in Page : property[b] >= n}
           P == PG_property
           E == P \cap enough
           T == tightest(enough)
<1>1. /\ P \in SUBSET Page /\ Linked(list, P) /\ Parts(P, property) /\ property \in [Page -> 0..npage]
      /\ Covered(P, property) = Page \ Held /\ pmm_manager \in {"default", "best_fit"} /\ HEAD \notin Page
  BY NodeFacts DEF IInv, FreeBlocks, Shared, Types
<1>2. P \subseteq Nat /\ npage \in Nat /\ npage >= 1 /\ n \in Nat /\ (\A b \in Page : property[b] \in Nat) /\ NULL \notin Page
  BY <1>1, NodeFacts
<1>3. nr_free \in Nat /\ nr_free = npage - Cardinality(Held)
  BY <1>2, HeldCount
<1>4. ASSUME NEW b \in P PROVE property[b] <= nr_free
  <2> DEFINE k == property[b]
  <2>1. b \in Page /\ k \in 1..npage /\ b + k <= npage /\ b \in Nat
    BY <1>1, <1>2 DEF Parts
  <2>2. run(b, k) \subseteq Page /\ run(b, k) \cap Held = {}
    <3>1. ASSUME NEW x \in run(b, k) PROVE x \in Covered(P, property)
      <4>1. x \in Nat /\ b <= x /\ x < b + k /\ x < npage
        BY <1>2, <2>1, <3>1 DEF run
      <4>2. x \in Page
        BY <1>2, <4>1 DEF Page
      <4> QED
        BY <4>1, <4>2 DEF Covered
    <3> QED
      BY <1>1, <3>1
  <2>3. Held \in SUBSET Page
    BY DEF Held
  <2> HIDE DEF k
  <2>4. Held \cap run(b, k) = {}
    BY <2>2
  <2>5. Cardinality(Held \cup run(b, k)) = Cardinality(Held) + k /\ Cardinality(Held \cup run(b, k)) <= npage /\ Cardinality(Held) \in 0..npage
    BY <2>1, <2>3, <2>4, RunSize
  <2>6. k <= nr_free
    BY <1>2, <1>3, <2>1, <2>5
  <2> QED
    BY <2>6 DEF k
<1>5. n > nr_free => fit(n) = NULL /\ E = {}
  <2>1. n > nr_free => fit(n) = NULL
    <3>1. n > nr_free => ~(n <= nr_free)
      BY <1>2, <1>3
    <3> QED
      BY <3>1 DEF fit
  <2>2. ASSUME n > nr_free, NEW b \in E PROVE FALSE
    <3>1. property[b] <= nr_free /\ property[b] >= n /\ property[b] \in Nat
      BY <1>2, <1>4
    <3> QED
      BY <1>2, <1>3, <2>2, <3>1
  <2> QED
    BY <2>1, <2>2
<1>6. n <= nr_free => fit(n) = IF pmm_manager = "default" THEN first(list, enough) ELSE first(list, T)
  <2>1. n <= nr_free => ~(n > nr_free)
    BY <1>2, <1>3
  <2> QED
    BY <1>1, <2>1 DEF fit
<1>7. n > nr_free \/ n <= nr_free
  BY <1>2, <1>3
<1>8. (\A b \in P : \E i \in 0..npage : walk(list)[i] = b) /\ \A i \in 0..npage : walk(list)[i] \in P \cup {HEAD}
  BY <1>1, WalkFacts
<1>9. T = {b \in E : \A other \in E : property[b] <= property[other]}
  <2>1. {b \in enough : \E i \in 0..npage : walk(list)[i] = b} = E
    BY <1>1, <1>8
  <2> QED
    BY <2>1 DEF tightest
<1>10. E # {} => T # {}
  <2> SUFFICES ASSUME E # {} PROVE T # {}
    OBVIOUS
  <2> DEFINE L == {property[b] : b \in E}
  <2>1. L \in SUBSET Nat /\ L # {}
    BY <1>2
  <2>2. PICK k \in L : \A j \in L : k <= j
    <3> HIDE DEF L
    <3> QED
      BY <2>1, LeastNat
  <2>3. PICK b \in E : property[b] = k
    BY <2>2
  <2>4. \A other \in E : property[b] <= property[other]
    BY <2>2, <2>3
  <2> QED
    BY <1>9, <2>3, <2>4
<1>11. enough \in SUBSET Page /\ T \in SUBSET Page /\ P \cap T = T
  BY <1>9
<1> HIDE DEF T
<1>12. /\ E = {} => first(list, enough) = NULL
       /\ E # {} => first(list, enough) \in E /\ \A d \in E : first(list, enough) <= d
  <2> HIDE DEF enough
  <2> QED
    BY <1>1, <1>11, FirstFacts
<1>13. /\ T = {} => first(list, T) = NULL
       /\ T # {} => first(list, T) \in T /\ \A d \in T : first(list, T) <= d
  BY <1>1, <1>11, FirstFacts
<1>14. E = {} => fit(n) = NULL
  BY <1>5, <1>6, <1>7, <1>9, <1>12, <1>13
<1>15. ASSUME E # {} PROVE
         /\ fit(n) \in E /\ fit(n) # NULL
         /\ \A d \in E : IF pmm_manager = "default" \/ property[d] = property[fit(n)]
                         THEN fit(n) <= d ELSE property[fit(n)] < property[d]
  <2>1. n <= nr_free
    BY <1>5, <1>7, <1>15
  <2>2. CASE pmm_manager = "default"
    BY <1>2, <1>6, <1>12, <1>15, <2>1, <2>2
  <2>3. CASE pmm_manager # "default"
    <3> DEFINE f == fit(n)
    <3>1. f \in T /\ \A d \in T : f <= d
      BY <1>6, <1>10, <1>13, <1>15, <2>1, <2>3
    <3> HIDE DEF f
    <3>2. f \in E /\ \A d \in E : property[f] <= property[d]
      BY <1>9, <3>1
    <3>3. ASSUME NEW d \in E, property[d] = property[f] PROVE f <= d
      <4>1. d \in T
        BY <1>9, <3>2, <3>3
      <4> QED
        BY <3>1, <4>1
    <3>4. ASSUME NEW d \in E, property[d] # property[f] PROVE property[f] < property[d]
      <4>1. property[f] \in Nat /\ property[d] \in Nat /\ property[f] <= property[d]
        BY <1>2, <3>2
      <4> QED
        BY <3>4, <4>1
    <3>5. f \in E /\ f # NULL
      BY <1>2, <3>2
    <3> QED
      BY <2>3, <3>3, <3>4, <3>5 DEF f
  <2> QED
    BY <2>2, <2>3
<1>16. \A b : b \in E <=> b \in P /\ n <= property[b]
  BY <1>1, <1>2
<1> HIDE DEF E
<1>17. fit(n) = NULL => \A b \in P : ~(n <= property[b])
  BY <1>15, <1>16
<1>18. ASSUME fit(n) # NULL PROVE
          /\ fit(n) \in P /\ n <= property[fit(n)]
          /\ \A d \in P : n <= property[d] =>
               IF pmm_manager = "default" \/ property[d] = property[fit(n)]
               THEN fit(n) <= d ELSE property[fit(n)] < property[d]
  <2>1. E # {}
    BY <1>14, <1>18
  <2> QED
    BY <1>15, <1>16, <2>1
<1> QED
  BY <1>17, <1>18

\* A step of the managers is one that PageRuns allows.
LEMMA RunsStep ==
  ASSUME IInv, [Next]_vars
  PROVE  [Runs!Next]_(Runs!vars)
<1>0. Runs!none = none
  BY DEF Runs!none, none
<1>1. ASSUME NEW c \in Client, NEW n \in 1..npage, Alloc(c, n) PROVE Runs!Alloc(c, n)
  <2> DEFINE page == fit(n)
             a == [page |-> page, length |-> property[page]]
             enough == Runs!areas(n)
  <2>1. /\ got[c] = none /\ page # NULL
        /\ pmm_manager' = pmm_manager /\ got' = [got EXCEPT ![c] = [page |-> page, n |-> n]]
    BY <1>1 DEF Alloc
  <2>2. /\ page \in PG_property /\ n <= property[page]
        /\ \A d \in PG_property : n <= property[d] =>
             IF pmm_manager = "default" \/ property[d] = property[page]
             THEN page <= d ELSE property[page] < property[d]
    BY <2>1, FitIsBest
  <2> HIDE DEF page
  <2>3. enough = {[page |-> b, length |-> property[b]] : b \in {d \in PG_property : n <= property[d]}}
    BY AreasFacts
  <2>4. a \in enough
    BY <2>2, <2>3
  <2>5. PG_property \subseteq Nat /\ \A b \in PG_property : property[b] \in Nat
    BY NodeFacts DEF IInv, FreeBlocks, Parts
  <2>6. ASSUME NEW other \in enough PROVE ~Runs!better(other, a)
    <3>1. PICK d \in PG_property : n <= property[d] /\ other = [page |-> d, length |-> property[d]]
      BY <2>3
    <3>2. other.page = d /\ other.length = property[d] /\ a.page = page /\ a.length = property[page]
      BY <3>1
    <3>3. d \in Nat /\ property[d] \in Nat /\ page \in Nat /\ property[page] \in Nat
      BY <2>2, <2>5
    <3>4. IF pmm_manager = "default" \/ property[d] = property[page]
          THEN page <= d ELSE property[page] < property[d]
      BY <2>2, <3>1
    <3>5. Runs!better(other, a) <=>
            IF pmm_manager = "default" \/ property[d] = property[page]
            THEN d < page ELSE property[d] < property[page]
      BY <3>2 DEF Runs!better
    <3>6. CASE pmm_manager = "default" \/ property[d] = property[page]
      BY <3>3, <3>4, <3>5, <3>6
    <3>7. CASE ~(pmm_manager = "default" \/ property[d] = property[page])
      BY <3>3, <3>4, <3>5, <3>7
    <3> QED
      BY <3>6, <3>7
  <2>7. got' = [got EXCEPT ![c] = [page |-> a.page, n |-> n]]
    BY <2>1
  <2> HIDE DEF a, enough
  <2> QED
    BY <1>0, <2>1, <2>4, <2>6, <2>7 DEF Runs!Alloc, enough
<1>2. ASSUME NEW c \in Client, NEW n \in 1..npage, AllocFails(c, n) PROVE Runs!Refuse(c, n)
  <2>1. /\ got[c] = none /\ fit(n) = NULL
        /\ pmm_manager' = pmm_manager /\ got' = [got EXCEPT ![c] = [page |-> NULL, n |-> n]]
    BY <1>2 DEF AllocFails
  <2>2. Runs!areas(n) = {}
    <3>1. \A b \in PG_property : ~(n <= property[b])
      BY <2>1, FitIsBest
    <3>2. Runs!areas(n) = {[page |-> b, length |-> property[b]] : b \in {d \in PG_property : n <= property[d]}}
      BY AreasFacts
    <3>3. {d \in PG_property : n <= property[d]} = {}
      BY <3>1
    <3> QED
      BY <3>2, <3>3
  <2> QED
    BY <1>0, <2>1, <2>2 DEF Runs!Refuse
<1>3. ASSUME NEW c \in Client, GiveUp(c) PROVE Runs!Done(c)
  <2>1. got[c].n > 0 /\ got' = [got EXCEPT ![c] = none] /\ pmm_manager' = pmm_manager
    BY <1>3 DEF GiveUp
  <2>2. got[c] # none
    BY <2>1 DEF none
  <2> QED
    BY <1>0, <2>1, <2>2 DEF Runs!Done
<1>4. ASSUME NEW c \in Client, Free(c) PROVE Runs!Done(c)
  <2>1. got[c].page # NULL /\ got' = [got EXCEPT ![c] = none] /\ pmm_manager' = pmm_manager
    BY <1>4 DEF Free
  <2>2. got[c] # none
    BY <2>1 DEF none
  <2> QED
    BY <1>0, <2>1, <2>2 DEF Runs!Done
<1>5. CASE UNCHANGED vars
  BY <1>5 DEF vars, Runs!vars
<1>6. Next => Runs!Next
  <2> SUFFICES ASSUME Next PROVE Runs!Next
    OBVIOUS
  <2>1. PICK c \in Client : (\E n \in 1..npage : Alloc(c, n) \/ AllocFails(c, n)) \/ GiveUp(c) \/ Free(c)
    BY DEF Next
  <2>2. CASE \E n \in 1..npage : Alloc(c, n) \/ AllocFails(c, n)
    BY <1>1, <1>2, <2>2 DEF Runs!Next
  <2>3. CASE GiveUp(c) \/ Free(c)
    BY <1>3, <1>4, <2>3 DEF Runs!Next
  <2> QED
    BY <2>1, <2>2, <2>3
<1> QED
  BY <1>5, <1>6

\* Seen through their calls, the managers are what PageRuns specifies: they take the best
\* free area there is, and refuse only if no free area is long enough, however the free
\* pages came to lie.
THEOREM ManagersImplementRuns ==
  ASSUME Reserve > 0
  PROVE  Spec => BestRun
<1>1. Init => Runs!Init
  BY DEF Init, Runs!Init, none, Runs!none
<1>2. IInv /\ [Next]_vars => [Runs!Next]_(Runs!vars)
  BY RunsStep
<1> QED
  BY <1>1, <1>2, Invariance, PTL DEF Spec, BestRun, Runs!Spec
=============================================================================
