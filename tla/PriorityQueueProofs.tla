------------------------ MODULE PriorityQueueProofs ------------------------
(***************************************************************************)
(* What enqueue does to the contents and the order of a list, for lists of *)
(* every length and every assignment of priorities.                        *)
(***************************************************************************)
EXTENDS PriorityQueue, Integers, WellFoundedInduction, SequenceTheorems, TLAPS

\* A set of naturals that has an element has a least one.
LEMMA LeastNatural ==
  ASSUME NEW T \in SUBSET Nat, T # {}
  PROVE  \E m \in T : \A k \in T : m <= k
<1>1. PICK m \in T : \A k \in T : <<k, m>> \notin OpToRel(<, Nat)
  BY WFMin, NatLessThanWellFounded
<1>2. \A k \in T : ~(k < m)
  BY <1>1 DEF OpToRel
<1>3. QED
  BY <1>2

\* Induction, with the set of the numbers it is true of.
LEMMA NatSetInduction ==
  ASSUME NEW T, 0 \in T, \A n \in Nat : n \in T => n + 1 \in T
  PROVE  Nat \subseteq T
<1> DEFINE U == Nat \ T
<1>1. SUFFICES ASSUME U # {} PROVE FALSE
  OBVIOUS
<1>2. PICK m \in U : \A k \in U : m <= k
  BY <1>1, LeastNatural
<1>3. m \in Nat /\ m # 0 /\ m - 1 \in Nat /\ ~(m <= m - 1)
  OBVIOUS
<1>4. m - 1 \in T
  BY <1>2, <1>3
<1>5. QED
  BY <1>3, <1>4

(***************************************************************************)
(* InsertAt: its length and its elements.                                  *)
(***************************************************************************)
Insertion(r, S, s, i, e) ==
  /\ r \in Seq(S)
  /\ Len(r) = Len(s) + 1
  /\ \A j \in 1 .. i - 1 : r[j] = s[j]
  /\ r[i] = e
  /\ \A j \in i + 1 .. Len(s) + 1 : r[j] = s[j - 1]

LEMMA InsertAtElements ==
  ASSUME NEW S, NEW s \in Seq(S), NEW i \in 1 .. Len(s) + 1, NEW e \in S
  PROVE  Insertion(InsertAt(s, i, e), S, s, i, e)
<1> DEFINE a == SubSeq(s, 1, i - 1)
           b == SubSeq(s, i, Len(s))
<1>1. Len(s) \in Nat /\ i \in Nat
  OBVIOUS
<1>2. a \in Seq(S) /\ Len(a) = i - 1 /\ \A j \in 1 .. i - 1 : a[j] = s[j]
  BY <1>1
<1>3. b \in Seq(S) /\ Len(b) = Len(s) + 1 - i
      /\ \A j \in 1 .. Len(s) + 1 - i : b[j] = s[i + j - 1]
  BY <1>1
<1>4. <<e>> \in Seq(S) /\ Len(<<e>>) = 1 /\ <<e>>[1] = e
  OBVIOUS
<1>5. InsertAt(s, i, e) = a \o <<e>> \o b
  BY DEF InsertAt
<1> HIDE DEF a, b
<1>6. a \o <<e>> \in Seq(S) /\ Len(a \o <<e>>) = i
      /\ (a \o <<e>>)[i] = e /\ \A j \in 1 .. i - 1 : (a \o <<e>>)[j] = s[j]
  <2>1. /\ a \o <<e>> \in Seq(S)
        /\ Len(a \o <<e>>) = Len(a) + Len(<<e>>)
        /\ \A j \in 1 .. Len(a) + Len(<<e>>) :
              (a \o <<e>>)[j] = IF j <= Len(a) THEN a[j] ELSE <<e>>[j - Len(a)]
    BY <1>2, <1>4, ConcatProperties
  <2>2. QED
    BY <1>1, <1>2, <1>4, <2>1
<1> DEFINE c == a \o <<e>>
<1>7. c \in Seq(S) /\ Len(c) = i /\ c[i] = e /\ \A j \in 1 .. i - 1 : c[j] = s[j]
  BY <1>6
<1> HIDE DEF c
<1>8. /\ c \o b \in Seq(S)
      /\ Len(c \o b) = Len(c) + Len(b)
      /\ \A j \in 1 .. Len(c) + Len(b) :
            (c \o b)[j] = IF j <= Len(c) THEN c[j] ELSE b[j - Len(c)]
  BY <1>3, <1>7, ConcatProperties
<1>9. c \o b \in Seq(S) /\ Len(c \o b) = Len(s) + 1
  BY <1>1, <1>3, <1>7, <1>8
<1>10. \A j \in i + 1 .. Len(s) + 1 : (c \o b)[j] = s[j - 1]
  <2> TAKE j \in i + 1 .. Len(s) + 1
  <2>1. j - i \in 1 .. Len(s) + 1 - i /\ i + (j - i) - 1 = j - 1
    BY <1>1
  <2>2. (c \o b)[j] = b[j - i]
    BY <1>1, <1>3, <1>7, <1>8
  <2>3. QED
    BY <1>3, <2>1, <2>2
<1>11. \A j \in 1 .. i : (c \o b)[j] = c[j]
  BY <1>1, <1>3, <1>7, <1>8
<1>12. QED
  BY <1>1, <1>5, <1>7, <1>9, <1>10, <1>11 DEF c, Insertion

(***************************************************************************)
(* Slot is where enqueue's pointer walk stops, and there is such a place.  *)
(***************************************************************************)
LEMMA SlotProperties ==
  ASSUME NEW S, NEW prio \in [S -> Int], NEW q \in Seq(S), NEW p \in S
  PROVE  /\ Slot(prio, q, p) \in 1 .. Len(q) + 1
         /\ \A j \in 1 .. Slot(prio, q, p) - 1 : prio[q[j]] >= prio[p]
         /\ Slot(prio, q, p) <= Len(q) => prio[q[Slot(prio, q, p)]] < prio[p]
<1> DEFINE D == {i \in 1 .. Len(q) + 1 : i <= Len(q) => prio[q[i]] < prio[p]}
<1>1. Len(q) \in Nat /\ \A j \in 1 .. Len(q) : prio[q[j]] \in Int
  OBVIOUS
<1>2. Len(q) + 1 \in D /\ D \subseteq Nat
  BY <1>1
<1>3. PICK i \in D : \A k \in D : i <= k
  BY <1>2, LeastNatural
<1>4. \A j \in 1 .. i - 1 : j \in 1 .. Len(q) /\ j \notin D
  BY <1>1, <1>3
<1>5. \A j \in 1 .. i - 1 : prio[q[j]] >= prio[p]
  BY <1>1, <1>4
<1>6. \E k \in 1 .. Len(q) + 1 :
        /\ \A j \in 1 .. k - 1 : prio[q[j]] >= prio[p]
        /\ k <= Len(q) => prio[q[k]] < prio[p]
  BY <1>5
<1>7. QED
  BY <1>6 DEF Slot

(***************************************************************************)
(* enqueue adds p to the members of the list, puts no PROC in it twice     *)
(* that was not there, and keeps a sorted list sorted.                     *)
(***************************************************************************)
LEMMA EnqueueProperties ==
  ASSUME NEW S, NEW prio \in [S -> Int], NEW q \in Seq(S), NEW p \in S
  PROVE  /\ Enqueue(prio, q, p) \in Seq(S)
         /\ Len(Enqueue(prio, q, p)) = Len(q) + 1
         /\ ToSet(Enqueue(prio, q, p)) = ToSet(q) \cup {p}
         /\ IsInjective(q) /\ p \notin ToSet(q) => IsInjective(Enqueue(prio, q, p))
         /\ SortedByPriority(prio, q) => SortedByPriority(prio, Enqueue(prio, q, p))
<1> DEFINE i == Slot(prio, q, p)
           r == Enqueue(prio, q, p)
           n == Len(q)
<1>1. n \in Nat /\ i \in 1 .. n + 1 /\ i \in Nat
  BY SlotProperties
<1>2. /\ r \in Seq(S) /\ Len(r) = n + 1
      /\ \A j \in 1 .. i - 1 : r[j] = q[j]
      /\ r[i] = p
      /\ \A j \in i + 1 .. n + 1 : r[j] = q[j - 1]
  <2>1. r = InsertAt(q, i, p)
    BY DEF Enqueue
  <2>2. i \in 1 .. Len(q) + 1
    BY <1>1
  <2> HIDE DEF i, r, n
  <2>3. Insertion(InsertAt(q, i, p), S, q, i, p)
    BY <2>2, InsertAtElements
  <2>4. QED
    BY <2>1, <2>3 DEF n, Insertion
<1>3. /\ \A j \in 1 .. i - 1 : prio[q[j]] >= prio[p]
      /\ \A j \in 1 .. n : prio[q[j]] \in Int
      /\ prio[p] \in Int
      /\ i <= n => prio[q[i]] < prio[p]
  BY SlotProperties, SMTT(30)
<1>4. DOMAIN q = 1 .. n /\ DOMAIN r = 1 .. n + 1
  BY <1>2
<1> HIDE DEF i, r, n
<1>5. ASSUME NEW j \in 1 .. n + 1
      PROVE  \/ j < i /\ j \in 1 .. n /\ r[j] = q[j]
             \/ j = i /\ r[j] = p
             \/ j > i /\ j - 1 \in i .. n /\ j - 1 \in 1 .. n /\ r[j] = q[j - 1]
  <2>1. CASE j < i
    BY <2>1, <1>1, <1>2
  <2>2. CASE j = i
    BY <2>2, <1>2
  <2>3. CASE j > i
    <3>1. j \in i + 1 .. n + 1 /\ j - 1 \in i .. n /\ j - 1 \in 1 .. n
      BY <2>3, <1>1
    <3>2. QED
      BY <2>3, <3>1, <1>2
  <2>4. QED
    BY <1>1, <2>1, <2>2, <2>3
<1>6. \A j \in 1 .. n + 1 : r[j] \in ToSet(q) \cup {p}
  BY <1>4, <1>5 DEF ToSet
<1>7. \A j \in 1 .. n : \E k \in 1 .. n + 1 : r[k] = q[j]
  <2> TAKE j \in 1 .. n
  <2>1. CASE j < i
    BY <2>1, <1>1, <1>2
  <2>2. CASE j >= i
    <3>1. j + 1 \in i + 1 .. n + 1 /\ j + 1 \in 1 .. n + 1 /\ (j + 1) - 1 = j
      BY <2>2, <1>1
    <3>2. QED
      BY <3>1, <1>2
  <2>3. QED
    BY <1>1, <2>1, <2>2
<1>8. ToSet(r) = ToSet(q) \cup {p}
  <2>1. p \in ToSet(r)
    BY <1>1, <1>2, <1>4 DEF ToSet
  <2>2. ToSet(q) \subseteq ToSet(r)
    BY <1>4, <1>7 DEF ToSet
  <2>3. ToSet(r) \subseteq ToSet(q) \cup {p}
    BY <1>4, <1>6 DEF ToSet
  <2>4. QED
    BY <2>1, <2>2, <2>3
<1>9. ASSUME IsInjective(q), p \notin ToSet(q)
      PROVE  IsInjective(r)
  <2> SUFFICES ASSUME NEW j \in 1 .. n + 1, NEW k \in 1 .. n + 1, r[j] = r[k]
               PROVE  j = k
    BY <1>4 DEF IsInjective
  <2>1. \A m \in 1 .. n : q[m] # p
    BY <1>4, <1>9 DEF ToSet
  <2>2. \A a, b \in 1 .. n : q[a] = q[b] => a = b
    BY <1>4, <1>9 DEF IsInjective
  <2>3. ASSUME NEW l \in 1 .. n + 1, r[l] = p
        PROVE  l = i
    BY <1>5, <2>1, <2>3
  <2>4. CASE j = i \/ k = i
    BY <1>2, <2>3, <2>4
  <2>5. CASE j # i /\ k # i
    <3>1. PICK a \in 1 .. n : r[j] = q[a] /\ ((j < i /\ a = j) \/ (j > i /\ a = j - 1))
      BY <1>5, <2>5
    <3>2. PICK b \in 1 .. n : r[k] = q[b] /\ ((k < i /\ b = k) \/ (k > i /\ b = k - 1))
      BY <1>5, <2>5
    <3>3. a = b
      BY <2>2, <3>1, <3>2
    <3>4. QED
      BY <1>1, <3>1, <3>2, <3>3
  <2>6. QED
    BY <2>4, <2>5
<1>10. ASSUME SortedByPriority(prio, q)
       PROVE  SortedByPriority(prio, r)
  <2>1. \A a, b \in 1 .. n : a < b => prio[q[a]] >= prio[q[b]]
    BY <1>10 DEF SortedByPriority, n
  <2>2. \A b \in i .. n : prio[q[b]] < prio[p]
    BY <1>1, <1>3, <2>1
  <2> SUFFICES ASSUME NEW j \in 1 .. n + 1, NEW k \in 1 .. n + 1, j < k
               PROVE  prio[r[j]] >= prio[r[k]]
    BY <1>2 DEF SortedByPriority, r, n
  <2>3. \/ j < i /\ j \in 1 .. n /\ r[j] = q[j]
        \/ j = i /\ r[j] = p
        \/ j > i /\ j - 1 \in i .. n /\ j - 1 \in 1 .. n /\ r[j] = q[j - 1]
    BY <1>5
  <2>4. \/ k < i /\ k \in 1 .. n /\ r[k] = q[k]
        \/ k = i /\ r[k] = p
        \/ k > i /\ k - 1 \in i .. n /\ k - 1 \in 1 .. n /\ r[k] = q[k - 1]
    BY <1>5
  <2>5. j < i => prio[r[j]] >= prio[p]
    BY <1>1, <1>3, <2>3
  <2>6. k > i => prio[r[k]] < prio[p]
    BY <1>1, <2>2, <2>4
  <2>7. prio[r[j]] \in Int /\ prio[r[k]] \in Int
    BY <1>3, <2>3, <2>4
  <2>8. CASE k < i
    BY <1>1, <2>1, <2>3, <2>4, <2>8
  <2>9. CASE j > i
    BY <1>1, <2>1, <2>3, <2>4, <2>9
  <2>10. CASE j <= i /\ i <= k
    BY <1>1, <1>3, <2>3, <2>4, <2>5, <2>6, <2>7, <2>10
  <2>11. QED
    BY <1>1, <2>8, <2>9, <2>10
<1>11. QED
  BY <1>2, <1>8, <1>9, <1>10 DEF r, n

\* The same for the lists the kernels keep: sorted and without repetitions.
LEMMA EnqueueSorted ==
  ASSUME NEW S, NEW prio \in [S -> Int], NEW q \in Seq(S), NEW p \in S,
         IsInjective(q), p \notin ToSet(q), SortedByPriority(prio, q)
  PROVE  LET r == Enqueue(prio, q, p) IN
           /\ r \in Seq(S) /\ ToSet(r) = ToSet(q) \cup {p}
           /\ IsInjective(r) /\ SortedByPriority(prio, r)
BY EnqueueProperties

LEMMA EnqueueInjective ==
  ASSUME NEW S, NEW prio \in [S -> Int], NEW q \in Seq(S), NEW p \in S,
         IsInjective(q), p \notin ToSet(q)
  PROVE  LET r == Enqueue(prio, q, p) IN
           r \in Seq(S) /\ ToSet(r) = ToSet(q) \cup {p} /\ IsInjective(r)
BY EnqueueProperties

(***************************************************************************)
(* The loop of EnqueueEach: the lists it goes through, one for each PROC   *)
(* of s that it has looked at.                                             *)
(***************************************************************************)
IsLoop(g, prio, q, s, W) ==
  g = [i \in 0 .. Len(s) |->
         IF i = 0 THEN q
         ELSE IF s[i] \in W THEN Enqueue(prio, g[i - 1], s[i])
         ELSE g[i - 1]]

LEMMA EnqueueEachLoop ==
  ASSUME NEW S, NEW prio, NEW q, NEW s \in Seq(S), NEW W
  PROVE  \E g : IsLoop(g, prio, q, s, W) /\ EnqueueEach(prio, q, s, W) = g[Len(s)]
<1> DEFINE Loop(g, n) ==
             g = [i \in 0 .. n |->
                    IF i = 0 THEN q
                    ELSE IF s[i] \in W THEN Enqueue(prio, g[i - 1], s[i])
                    ELSE g[i - 1]]
           T == {n \in Nat : \E g : Loop(g, n)}
<1>1. 0 \in T
  <2>1. Loop([i \in 0 .. 0 |-> q], 0)
    OBVIOUS
  <2> HIDE DEF Loop
  <2>2. QED
    BY <2>1
<1>2. ASSUME NEW n \in Nat, n \in T
      PROVE  n + 1 \in T
  <2>1. PICK g : Loop(g, n)
    BY <1>2
  <2> DEFINE last == IF s[n + 1] \in W THEN Enqueue(prio, g[n], s[n + 1]) ELSE g[n]
             h == [i \in 0 .. n + 1 |-> IF i = n + 1 THEN last ELSE g[i]]
  <2>2. \A i \in 0 .. n : g[i] = IF i = 0 THEN q
                               ELSE IF s[i] \in W THEN Enqueue(prio, g[i - 1], s[i])
                               ELSE g[i - 1]
    BY <2>1
  <2>3. \A i \in 0 .. n : h[i] = g[i]
    OBVIOUS
  <2>4. h[n + 1] = last
    OBVIOUS
  <2> HIDE DEF last
  <2>5. \A i \in 0 .. n + 1 : h[i] = IF i = 0 THEN q
                               ELSE IF s[i] \in W THEN Enqueue(prio, h[i - 1], s[i])
                               ELSE h[i - 1]
    <3> TAKE i \in 0 .. n + 1
    <3> HIDE DEF h
    <3>1. CASE i = n + 1
      <4>1. h[i - 1] = g[n] /\ i # 0
        BY <2>3, <3>1
      <4>2. QED
        BY <2>4, <3>1, <4>1 DEF last
    <3>2. CASE i = 0
      BY <2>2, <2>3, <3>2
    <3>3. CASE i \in 1 .. n
      <4>1. i \in 0 .. n /\ i - 1 \in 0 .. n /\ i # 0
        BY <3>3
      <4>2. h[i] = g[i] /\ h[i - 1] = g[i - 1]
        BY <2>3, <4>1
      <4>3. QED
        BY <2>2, <4>1, <4>2
    <3>4. QED
      BY <3>1, <3>2, <3>3
  <2>6. Loop(h, n + 1)
    BY <2>5
  <2> HIDE DEF Loop, h
  <2>7. QED
    BY <2>6
<1>3. Nat \subseteq T
  <2> HIDE DEF T
  <2>1. QED
    BY <1>1, <1>2, NatSetInduction
<1>4. \E g : Loop(g, Len(s))
  <2>1. Len(s) \in T
    BY <1>3
  <2> HIDE DEF Loop
  <2>2. QED
    BY <2>1
<1> DEFINE f == CHOOSE g : Loop(g, Len(s))
<1>5. Loop(f, Len(s))
  <2> HIDE DEF Loop
  <2>1. QED
    BY <1>4
<1>6. EnqueueEach(prio, q, s, W) = f[Len(s)]
  BY DEF EnqueueEach
<1>7. IsLoop(f, prio, q, s, W)
  BY <1>5 DEF IsLoop
<1> HIDE DEF f
<1>8. QED
  BY <1>6, <1>7

(***************************************************************************)
(* What a loop of enqueues leaves in the list, and in which order.         *)
(***************************************************************************)
LEMMA EnqueueEachProperties ==
  ASSUME NEW S, NEW prio \in [S -> Int], NEW q \in Seq(S), NEW s \in Seq(S), NEW W
  PROVE  /\ EnqueueEach(prio, q, s, W) \in Seq(S)
         /\ ToSet(EnqueueEach(prio, q, s, W)) = ToSet(q) \cup (ToSet(s) \cap W)
         /\ IsInjective(q) /\ IsInjective(s) /\ ToSet(q) \cap ToSet(s) \cap W = {}
              => IsInjective(EnqueueEach(prio, q, s, W))
         /\ SortedByPriority(prio, q) => SortedByPriority(prio, EnqueueEach(prio, q, s, W))
<1>1. PICK g : IsLoop(g, prio, q, s, W) /\ EnqueueEach(prio, q, s, W) = g[Len(s)]
  BY EnqueueEachLoop
<1> DEFINE Seen(i) == {x \in W : \E j \in 1 .. i : s[j] = x}
           Disjoint == IsInjective(q) /\ IsInjective(s) /\ ToSet(q) \cap ToSet(s) \cap W = {}
           Good(i) == /\ g[i] \in Seq(S)
                      /\ ToSet(g[i]) = ToSet(q) \cup Seen(i)
                      /\ Disjoint => IsInjective(g[i])
                      /\ SortedByPriority(prio, q) => SortedByPriority(prio, g[i])
           T == {i \in Nat : i <= Len(s) => Good(i)}
<1>2. Len(s) \in Nat /\ g[0] = q /\ DOMAIN s = 1 .. Len(s)
  BY <1>1 DEF IsLoop
<1>3. 0 \in T
  <2>1. Seen(0) = {}
    OBVIOUS
  <2>2. QED
    BY <1>2, <2>1
<1>4. ASSUME NEW i \in Nat, i \in T
      PROVE  i + 1 \in T
  <2>1. SUFFICES ASSUME i + 1 <= Len(s) PROVE Good(i + 1)
    OBVIOUS
  <2>2. /\ i \in 0 .. Len(s) /\ i + 1 \in 0 .. Len(s) /\ i + 1 \in 1 .. Len(s)
        /\ i + 1 # 0 /\ (i + 1) - 1 = i
    BY <1>2, <2>1
  <2>3. Good(i)
    BY <1>2, <1>4, <2>2
  <2>4. g[i + 1] = IF s[i + 1] \in W THEN Enqueue(prio, g[i], s[i + 1]) ELSE g[i]
    BY <1>1, <2>2 DEF IsLoop
  <2>5. s[i + 1] \in S
    BY <2>2
  <2>6. Seen(i + 1) = Seen(i) \cup ({s[i + 1]} \cap W)
    <3>1. \A j \in 1 .. i + 1 : j \in 1 .. i \/ j = i + 1
      OBVIOUS
    <3>2. \A j \in 1 .. i : j \in 1 .. i + 1
      OBVIOUS
    <3>3. i + 1 \in 1 .. i + 1
      OBVIOUS
    <3>4. QED
      BY <3>1, <3>2, <3>3
  <2>7. CASE s[i + 1] \notin W
    <3>1. Seen(i + 1) = Seen(i)
      BY <2>6, <2>7
    <3>2. g[i + 1] = g[i]
      BY <2>4, <2>7
    <3> HIDE DEF Seen, Disjoint
    <3>3. QED
      BY <2>3, <3>1, <3>2
  <2>8. CASE s[i + 1] \in W
    <3>1. g[i + 1] = Enqueue(prio, g[i], s[i + 1])
      BY <2>4, <2>8
    <3>2. Seen(i + 1) = Seen(i) \cup {s[i + 1]}
      BY <2>6, <2>8
    <3>3. ASSUME Disjoint
          PROVE  s[i + 1] \notin ToSet(g[i])
      <4>1. s[i + 1] \in ToSet(s)
        BY <1>2, <2>2 DEF ToSet
      <4>2. s[i + 1] \notin ToSet(q)
        BY <2>8, <3>3, <4>1
      <4>3. \A j \in 1 .. i : j \in DOMAIN s /\ j # i + 1
        BY <1>2, <2>2
      <4>4. s[i + 1] \notin Seen(i)
        BY <1>2, <2>2, <3>3, <4>3 DEF IsInjective
      <4>5. QED
        BY <2>3, <4>2, <4>4
    <3> HIDE DEF Seen, Disjoint
    <3>4. g[i] \in Seq(S)
      BY <2>3
    <3> HIDE DEF Good
    <3> DEFINE a == g[i]
               x == s[i + 1]
               r == Enqueue(prio, a, x)
    <3>5. a \in Seq(S) /\ x \in S
      BY <2>5, <3>4
    <3> HIDE DEF a, x
    <3>6. /\ r \in Seq(S)
          /\ ToSet(r) = ToSet(a) \cup {x}
          /\ IsInjective(a) /\ x \notin ToSet(a) => IsInjective(r)
          /\ SortedByPriority(prio, a) => SortedByPriority(prio, r)
      BY <3>5, EnqueueProperties
    <3>7. QED
      BY <2>3, <3>1, <3>2, <3>3, <3>6 DEF Good, a, x
  <2>9. QED
    BY <2>7, <2>8
<1>5. Len(s) \in T
  <2> HIDE DEF T
  <2>1. Nat \subseteq T
    BY <1>3, <1>4, NatSetInduction
  <2>2. QED
    BY <1>2, <2>1
<1>6. Seen(Len(s)) = ToSet(s) \cap W
  BY <1>2 DEF ToSet
<1>7. Good(Len(s))
  BY <1>2, <1>5
<1> HIDE DEF Seen
<1>8. QED
  BY <1>1, <1>6, <1>7

LEMMA EnqueueEachSorted ==
  ASSUME NEW S, NEW prio \in [S -> Int], NEW q \in Seq(S), NEW s \in Seq(S), NEW W,
         IsInjective(q), IsInjective(s), ToSet(q) \cap ToSet(s) \cap W = {},
         SortedByPriority(prio, q)
  PROVE  LET r == EnqueueEach(prio, q, s, W) IN
           /\ r \in Seq(S) /\ ToSet(r) = ToSet(q) \cup (ToSet(s) \cap W)
           /\ IsInjective(r) /\ SortedByPriority(prio, r)
BY EnqueueEachProperties

LEMMA EnqueueEachFromEmpty ==
  ASSUME NEW S, NEW prio \in [S -> Int], NEW s \in Seq(S), NEW W, IsInjective(s)
  PROVE  LET r == EnqueueEach(prio, <<>>, s, W) IN
           r \in Seq(S) /\ ToSet(r) = ToSet(s) \cap W /\ IsInjective(r)
<1> DEFINE q == <<>>
           r == EnqueueEach(prio, q, s, W)
<1>1. q \in Seq(S) /\ ToSet(q) = {} /\ IsInjective(q)
  BY DEF ToSet, IsInjective
<1> HIDE DEF q
<1>2. /\ r \in Seq(S)
      /\ ToSet(r) = ToSet(q) \cup (ToSet(s) \cap W)
      /\ IsInjective(q) /\ IsInjective(s) /\ ToSet(q) \cap ToSet(s) \cap W = {}
           => IsInjective(r)
  BY <1>1, EnqueueEachProperties
<1>3. r \in Seq(S) /\ ToSet(r) = ToSet(s) \cap W /\ IsInjective(r)
  BY <1>1, <1>2
<1>4. QED
  BY <1>3 DEF q

(***************************************************************************)
(* dequeue takes one member off the list, of the highest priority when the *)
(* list is sorted.                                                         *)
(***************************************************************************)
LEMMA DequeueProperties ==
  ASSUME NEW S, NEW prio \in [S -> Int], NEW q \in Seq(S), q # <<>>
  PROVE  /\ Head(q) \in S /\ Tail(q) \in Seq(S)
         /\ Head(q) \in ToSet(q)
         /\ ToSet(q) = {Head(q)} \cup ToSet(Tail(q))
         /\ IsInjective(q) => /\ IsInjective(Tail(q))
                              /\ ToSet(Tail(q)) = ToSet(q) \ {Head(q)}
         /\ SortedByPriority(prio, q) =>
              /\ SortedByPriority(prio, Tail(q))
              /\ \A p \in ToSet(q) : prio[p] <= prio[Head(q)]
<1> DEFINE n == Len(q)
           r == Tail(q)
<1>1. n \in Nat /\ n >= 1 /\ DOMAIN q = 1 .. n /\ Head(q) = q[1]
  OBVIOUS
<1>2. r \in Seq(S) /\ Len(r) = n - 1 /\ DOMAIN r = 1 .. n - 1
      /\ \A i \in 1 .. n - 1 : r[i] = q[i + 1]
  OBVIOUS
<1> HIDE DEF n, r
<1>3. \A i \in 1 .. n : prio[q[i]] \in Int
  BY <1>1
<1>4. \A i \in 1 .. n - 1 : i + 1 \in 2 .. n /\ i + 1 \in 1 .. n /\ i + 1 # 1
  BY <1>1
<1>5. \A i \in 1 .. n : i = 1 \/ (i - 1 \in 1 .. n - 1 /\ (i - 1) + 1 = i)
  BY <1>1
<1>6. ToSet(q) = {q[1]} \cup ToSet(r)
  <2>1. q[1] \in ToSet(q)
    BY <1>1 DEF ToSet
  <2>2. ToSet(r) \subseteq ToSet(q)
    BY <1>1, <1>2, <1>4 DEF ToSet
  <2>3. ToSet(q) \subseteq {q[1]} \cup ToSet(r)
    <3> SUFFICES ASSUME NEW i \in 1 .. n PROVE q[i] \in {q[1]} \cup ToSet(r)
      BY <1>1 DEF ToSet
    <3>1. CASE i = 1
      BY <3>1
    <3>2. CASE i - 1 \in 1 .. n - 1 /\ (i - 1) + 1 = i
      BY <1>2, <3>2 DEF ToSet
    <3>3. QED
      BY <1>5, <3>1, <3>2
  <2>4. QED
    BY <2>1, <2>2, <2>3
<1>7. ASSUME IsInjective(q)
      PROVE  IsInjective(r) /\ q[1] \notin ToSet(r)
  <2>1. \A a, b \in 1 .. n : q[a] = q[b] => a = b
    BY <1>1, <1>7 DEF IsInjective
  <2>2. 1 \in 1 .. n
    BY <1>1
  <2>3. q[1] \notin ToSet(r)
    BY <1>2, <1>4, <2>1, <2>2 DEF ToSet
  <2>4. \A a, b \in 1 .. n - 1 : r[a] = r[b] => a + 1 = b + 1
    BY <1>2, <1>4, <2>1
  <2>5. \A a, b \in 1 .. n - 1 : a + 1 = b + 1 => a = b
    BY <1>1
  <2>6. IsInjective(r)
    BY <1>2, <2>4, <2>5 DEF IsInjective
  <2>7. QED
    BY <2>3, <2>6
<1>8. ASSUME SortedByPriority(prio, q)
      PROVE  /\ SortedByPriority(prio, r)
             /\ \A p \in ToSet(q) : prio[p] <= prio[q[1]]
  <2>1. \A a, b \in 1 .. n : a < b => prio[q[a]] >= prio[q[b]]
    BY <1>8 DEF SortedByPriority, n
  <2>2. \A a, b \in 1 .. n - 1 : a < b => a + 1 < b + 1
    BY <1>1
  <2>3. \A a, b \in 1 .. n - 1 : a < b => prio[r[a]] >= prio[r[b]]
    BY <1>2, <1>4, <2>1, <2>2
  <2>4. SortedByPriority(prio, r)
    BY <1>2, <2>3 DEF SortedByPriority
  <2>5. \A b \in 1 .. n : prio[q[b]] <= prio[q[1]]
    BY <1>1, <1>3, <2>1
  <2>6. \A p \in ToSet(q) : prio[p] <= prio[q[1]]
    BY <1>1, <2>5 DEF ToSet
  <2>7. QED
    BY <2>4, <2>6
<1>9. q[1] \in S /\ q[1] \in ToSet(q)
  BY <1>1 DEF ToSet
<1>10. QED
  BY <1>1, <1>2, <1>6, <1>7, <1>8, <1>9 DEF r

\* The order of a list depends on the priorities of its members only.
LEMMA SortedOfMembers ==
  ASSUME NEW S, NEW q \in Seq(S), NEW prio, NEW prio2,
         \A p \in ToSet(q) : prio2[p] = prio[p],
         SortedByPriority(prio, q)
  PROVE  SortedByPriority(prio2, q)
<1>1. \A i \in 1 .. Len(q) : q[i] \in ToSet(q)
  BY DEF ToSet
<1>2. QED
  BY <1>1 DEF SortedByPriority

=============================================================================
