-------------------------- MODULE LinkedQueueProofs --------------------------
(***************************************************************************)
(* queue.c keeps its lists apart and does to each what PriorityQueue says, *)
(* for any number of PROCs and lists and all priorities.                   *)
(***************************************************************************)
EXTENDS LinkedQueue, PriorityQueueProofs, FiniteSetTheorems

\* The pointers nxt, from h on, spell out s.
Linked(s, nxt, h) ==
  /\ h = IF Len(s) = 0 THEN NULL ELSE s[1]
  /\ \A i \in 1 .. Len(s) : nxt[s[i]] = IF i = Len(s) THEN NULL ELSE s[i + 1]

\* They spell out the lists q, one for each head.
Spelt(q, nxt, hd) ==
  /\ \A l \in Lists : q[l] \in Seq(Procs) /\ IsInjective(q[l]) /\ Linked(q[l], nxt, hd[l])
  /\ \A l, k \in Lists : l # k => ToSet(q[l]) \cap ToSet(q[k]) = {}

IInv ==
  /\ next \in [Procs -> Procs \cup {NULL}]
  /\ head \in [Lists -> Procs \cup {NULL}]
  /\ Spelt([l \in Lists |-> Contents(l)], next, head)

(***************************************************************************)
(* Chain finds the sequence that the pointers spell out.                   *)
(***************************************************************************)
LEMMA ChainOfLinked ==
  ASSUME NEW nxt, NEW h, NEW s \in Seq(Procs), IsInjective(s), Linked(s, nxt, h)
  PROVE  Chain(nxt, h) = s
<1> DEFINE n == Len(s)
           limit == Cardinality(Procs) + 1
           Steps(g) == g = [i \in 1 .. limit |-> IF i = 1 THEN h ELSE After(nxt, g[i - 1])]
           at(i) == IF i <= n THEN s[i] ELSE NULL
           f == CHOOSE g : Steps(g)
           inList == {i \in 1 .. limit : f[i] # NULL}
<1>1. n \in Nat /\ DOMAIN s = 1 .. n /\ \A i \in 1 .. n : s[i] \in Procs /\ s[i] # NULL
  BY ProcsAssumption
<1>2. limit \in Nat /\ n + 1 <= limit
  <2>1. Cardinality(Procs) \in Nat
    BY ProcsAssumption, FS_CardinalityType
  <2>2. s \in Injection(1 .. n, Procs)
    BY <1>1 DEF Injection, IsInjective
  <2>3. Cardinality(1 .. n) <= Cardinality(Procs)
    BY <2>2, ProcsAssumption, FS_Injection
  <2>4. Cardinality(1 .. n) = n
    BY <1>1, FS_Interval
  <2>5. QED
    BY <1>1, <2>1, <2>3, <2>4
<1>3. \A i \in 1 .. limit : at(i) = IF i = 1 THEN h ELSE After(nxt, at(i - 1))
  <2>1. at(1) = h
    <3>1. n \in Nat /\ (n = 0 => h = NULL) /\ (n # 0 => h = s[1])
      BY DEF Linked
    <3> HIDE DEF n
    <3>2. QED
      BY <3>1
  <2>2. ASSUME NEW i \in 1 .. n
        PROVE  nxt[s[i]] = at(i + 1)
    <3>1. i \in Nat /\ n \in Nat /\ (i + 1 <= n <=> i # n)
      <4>1. n \in Nat
        OBVIOUS
      <4> HIDE DEF n
      <4>2. QED
        BY <4>1
    <3>2. nxt[s[i]] = IF i = n THEN NULL ELSE s[i + 1]
      BY DEF Linked
    <3> HIDE DEF n
    <3>3. QED
      BY <3>1, <3>2
  <2>3. ASSUME NEW i \in 1 .. limit, i # 1
        PROVE  at(i) = After(nxt, at(i - 1))
    <3>1. i - 1 \in Nat /\ (i - 1) + 1 = i /\ i - 1 >= 1 /\ limit \in Nat
      BY <1>2, <2>3
    <3>2. CASE i - 1 <= n
      <4>1. i - 1 \in 1 .. n
        BY <1>1, <3>1, <3>2
      <4>2. at(i - 1) = s[i - 1] /\ s[i - 1] # NULL
        BY <1>1, <4>1
      <4>3. nxt[s[i - 1]] = at(i)
        BY <2>2, <3>1, <4>1
      <4> HIDE DEF at
      <4>4. QED
        BY <4>2, <4>3 DEF After
    <3>3. CASE ~(i - 1 <= n)
      <4>1. at(i - 1) = NULL /\ at(i) = NULL
        BY <1>1, <3>1, <3>3
      <4> HIDE DEF at
      <4>2. QED
        BY <4>1 DEF After
    <3>4. QED
      BY <3>2, <3>3
  <2> HIDE DEF at
  <2>4. QED
    BY <2>1, <2>3
<1>4. \E g : Steps(g)
  <2> DEFINE g == [i \in 1 .. limit |-> at(i)]
  <2> HIDE DEF at
  <2>1. g = [i \in 1 .. limit |-> IF i = 1 THEN h ELSE After(nxt, g[i - 1])]
    <3>1. ASSUME NEW i \in 1 .. limit
          PROVE  at(i) = IF i = 1 THEN h ELSE After(nxt, g[i - 1])
      <4>1. i # 1 => g[i - 1] = at(i - 1)
        BY <1>2
      <4>2. QED
        BY <1>3, <4>1
    <3>2. QED
      BY <3>1
  <2>2. QED
    BY <2>1
<1> HIDE DEF at
<1>5. Steps(f)
  <2> HIDE DEF Steps
  <2>1. QED
    BY <1>4
<1> HIDE DEF f
<1>6. \A i \in 1 .. limit : f[i] = at(i)
  <2> DEFINE T == {i \in Nat : i + 1 \in 1 .. limit => f[i + 1] = at(i + 1)}
  <2>1. \A i \in 1 .. limit : f[i] = IF i = 1 THEN h ELSE After(nxt, f[i - 1])
    BY <1>5
  <2>2. 0 \in T
    BY <1>2, <1>3, <2>1
  <2>3. ASSUME NEW i \in Nat, i \in T
        PROVE  i + 1 \in T
    <3>1. SUFFICES ASSUME i + 2 \in 1 .. limit PROVE f[i + 2] = at(i + 2)
      OBVIOUS
    <3>2. i + 1 \in 1 .. limit /\ (i + 2) - 1 = i + 1 /\ i + 2 # 1
      BY <1>2, <3>1
    <3>3. f[i + 1] = at(i + 1)
      BY <2>3, <3>2
    <3>4. QED
      BY <1>3, <2>1, <3>1, <3>2, <3>3
  <2>4. Nat \subseteq T
    <3> HIDE DEF T
    <3>1. QED
      BY <2>2, <2>3, NatSetInduction
  <2>5. ASSUME NEW i \in 1 .. limit
        PROVE  f[i] = at(i)
    <3>1. i - 1 \in Nat /\ (i - 1) + 1 = i
      BY <1>2
    <3>2. i - 1 \in T
      BY <2>4, <3>1
    <3>3. QED
      BY <3>1, <3>2
  <2>6. QED
    BY <2>5
<1>7. inList = 1 .. n
  BY <1>1, <1>2, <1>6 DEF at
<1>8. Cardinality(inList) = n
  <2> HIDE DEF inList
  <2>1. QED
    BY <1>1, <1>7, FS_Interval
<1>9. Chain(nxt, h) = [i \in 1 .. Cardinality(inList) |-> f[i]]
  BY DEF Chain, f
<1>10. Chain(nxt, h) = [i \in 1 .. n |-> s[i]]
  <2> HIDE DEF inList
  <2>1. \A i \in 1 .. n : f[i] = s[i]
    BY <1>1, <1>2, <1>6 DEF at
  <2>2. QED
    BY <1>8, <1>9, <2>1
<1>11. QED
  BY <1>1, <1>10

\* The lists read off the pointers are those the pointers spell out.
LEMMA ContentsOfSpelt ==
  ASSUME NEW q, NEW nxt, NEW hd, Spelt(q, nxt, hd), NEW l \in Lists
  PROVE  Chain(nxt, hd[l]) = q[l]
<1>1. q[l] \in Seq(Procs) /\ IsInjective(q[l]) /\ Linked(q[l], nxt, hd[l])
  BY DEF Spelt
<1>2. QED
  BY <1>1, ChainOfLinked

(***************************************************************************)
(* The loop of enqueue stops in front of the place that Slot says, when    *)
(* the new PROC is not to be the first.                                    *)
(***************************************************************************)
LEMMA WalkStopsAtSlot ==
  ASSUME NEW s \in Seq(Procs), IsInjective(s), NEW h, Linked(s, next, h), Len(s) # 0,
         NEW p \in Procs, ~(Prio[p] > Prio[h])
  PROVE  /\ Slot(Prio, s, p) \in 2 .. Len(s) + 1
         /\ LastBefore(h, p) = s[Slot(Prio, s, p) - 1]
<1> DEFINE n == Len(s)
           k == Slot(Prio, s, p)
           R == {NULL} \cup {r \in Procs : Prio[p] > Prio[r]}
           D == {i \in DOMAIN s : next[s[i]] \in R}
<1>1. n \in Nat /\ DOMAIN s = 1 .. n
  OBVIOUS
<1>2. \A i \in 1 .. n : s[i] \in Procs /\ s[i] # NULL
  BY ProcsAssumption
<1>3. /\ k \in 1 .. n + 1
      /\ \A j \in 1 .. k - 1 : Prio[s[j]] >= Prio[p]
      /\ k <= n => Prio[s[k]] < Prio[p]
  BY PrioAssumption, SlotProperties, SMTT(30)
<1>4. \A r \in Procs : Prio[r] \in Nat
  BY PrioAssumption
<1>5. h = s[1] /\ \A i \in 1 .. n : next[s[i]] = IF i = n THEN NULL ELSE s[i + 1]
  BY DEF Linked
<1> HIDE DEF k, n
<1>6. n # 0
  BY DEF n
<1>7. k # 1
  BY <1>1, <1>2, <1>3, <1>4, <1>5, <1>6
<1>8. k \in 2 .. n + 1 /\ k - 1 \in 1 .. n
  BY <1>1, <1>3, <1>7
<1>9. k - 1 \in D
  <2>1. CASE k - 1 = n
    BY <1>1, <1>5, <1>8, <2>1
  <2>2. CASE k - 1 # n
    <3>1. k \in 1 .. n /\ (k - 1) + 1 = k
      BY <1>1, <1>8, <2>2
    <3>2. next[s[k - 1]] = s[k]
      BY <1>5, <1>8, <2>2, <3>1
    <3>3. s[k] \in Procs /\ Prio[s[k]] < Prio[p]
      BY <1>2, <1>3, <1>1, <3>1
    <3>4. QED
      BY <1>1, <1>4, <1>8, <3>2, <3>3
  <2>3. QED
    BY <2>1, <2>2
<1>10. \A i \in D : k - 1 <= i
  <2> SUFFICES ASSUME NEW i \in 1 .. n, i < k - 1 PROVE next[s[i]] \notin R
    BY <1>1, <1>8
  <2>1. i # n /\ i + 1 \in 1 .. k - 1 /\ i + 1 \in 1 .. n
    BY <1>1, <1>8
  <2>2. next[s[i]] = s[i + 1]
    BY <1>5, <2>1
  <2>3. Prio[s[i + 1]] >= Prio[p] /\ s[i + 1] \in Procs /\ s[i + 1] # NULL
    BY <1>2, <1>3, <2>1
  <2>4. QED
    BY <1>4, <2>2, <2>3
<1>11. Min(D) = k - 1
  <2>1. D \subseteq Nat
    BY <1>1
  <2> HIDE DEF D
  <2>2. k - 1 \in Nat
    BY <1>9, <2>1
  <2>3. \A m \in D : (\A i \in D : m <= i) => m <= k - 1 /\ k - 1 <= m /\ m \in Nat
    BY <1>9, <1>10, <2>1
  <2>4. \A m \in D : (\A i \in D : m <= i) => m = k - 1
    BY <2>2, <2>3
  <2>5. QED
    BY <1>9, <1>10, <2>4 DEF Min
<1>12. Chain(next, h) = s
  BY ChainOfLinked
<1>13. LastBefore(h, p) = s[Min(D)]
  BY <1>12 DEF LastBefore, FirstBefore
<1>14. QED
  BY <1>8, <1>11, <1>13 DEF k, n

\* What is left of the list s when p is put at its place k in r.
LEMMA LinkedAfterEnqueue ==
  ASSUME NEW s \in Seq(Procs), IsInjective(s), NEW h, Linked(s, next, h),
         NEW p \in Procs, p \notin ToSet(s),
         NEW nxt, NEW g, next \in [Procs -> Procs \cup {NULL}],
         IF h = NULL \/ Prio[p] > Prio[h]
           THEN g = p /\ nxt = [next EXCEPT ![p] = h]
           ELSE /\ g = h
                /\ nxt = [next EXCEPT ![p] = next[LastBefore(h, p)], ![LastBefore(h, p)] = p]
  PROVE  Linked(Enqueue(Prio, s, p), nxt, g)
<1> DEFINE n == Len(s)
           k == Slot(Prio, s, p)
           r == Enqueue(Prio, s, p)
<1>1. n \in Nat /\ DOMAIN s = 1 .. n
  OBVIOUS
<1>2. \A i \in 1 .. n : s[i] \in Procs /\ s[i] # NULL /\ s[i] # p
  BY ProcsAssumption DEF ToSet
<1>3. /\ k \in 1 .. n + 1
      /\ \A j \in 1 .. k - 1 : Prio[s[j]] >= Prio[p]
      /\ k <= n => Prio[s[k]] < Prio[p]
  <2>1. Prio \in [Procs -> Int]
    BY PrioAssumption
  <2>2. QED
    BY <2>1, SlotProperties
<1>4. /\ Len(r) = n + 1
      /\ \A j \in 1 .. k - 1 : r[j] = s[j]
      /\ r[k] = p
      /\ \A j \in k + 1 .. n + 1 : r[j] = s[j - 1]
  <2>1. Insertion(InsertAt(s, k, p), Procs, s, k, p)
    BY <1>3, InsertAtElements
  <2>2. QED
    BY <2>1 DEF Insertion, Enqueue
<1>5. (n = 0 => h = NULL) /\ (n # 0 => h = s[1])
  BY DEF Linked
<1>6. \A i \in 1 .. n : next[s[i]] = IF i = n THEN NULL ELSE s[i + 1]
  BY DEF Linked
<1>7. \A a, b \in 1 .. n : s[a] = s[b] => a = b
  BY <1>1 DEF IsInjective
<1>8. \A q \in Procs : Prio[q] \in Nat
  BY PrioAssumption
<1>9. n # 0 /\ ~(Prio[p] > Prio[h]) => k \in 2 .. n + 1 /\ LastBefore(h, p) = s[k - 1]
  BY WalkStopsAtSlot
<1>10. CASE h = NULL \/ Prio[p] > Prio[h]
  <2>1. g = p /\ nxt = [next EXCEPT ![p] = h]
    BY <1>10
  <2> HIDE DEF n, k, r
  <2>2. k = 1
    <3>1. CASE n = 0
      BY <1>3, <3>1
    <3>2. CASE n # 0
      <4>1. 1 \in 1 .. n /\ h = s[1] /\ h \in Procs /\ Prio[p] > Prio[h]
        BY <1>1, <1>2, <1>5, <1>10, <3>2
      <4>2. ~(Prio[s[1]] >= Prio[p])
        BY <1>8, <4>1
      <4>3. 1 \notin 1 .. k - 1
        BY <1>3, <4>2
      <4>4. QED
        BY <1>1, <1>3, <4>3
    <3>3. QED
      BY <3>1, <3>2
  <2>3. r[1] = p /\ \A j \in 2 .. n + 1 : r[j] = s[j - 1]
    BY <1>4, <2>2
  <2>4. nxt[p] = h /\ \A i \in 1 .. n : nxt[s[i]] = next[s[i]]
    BY <1>2, <2>1
  <2>5. ASSUME NEW i \in 1 .. n + 1
        PROVE  nxt[r[i]] = IF i = n + 1 THEN NULL ELSE r[i + 1]
    <3>1. CASE i = 1
      <4>1. n # 0 => r[2] = s[1]
        BY <1>1, <2>3
      <4>2. QED
        BY <1>1, <1>5, <2>3, <2>4, <3>1, <4>1
    <3>2. CASE i # 1
      <4>1. i - 1 \in 1 .. n /\ i \in 2 .. n + 1 /\ (i # n + 1 => i + 1 \in 2 .. n + 1)
            /\ (i - 1) + 1 = i /\ (i + 1) - 1 = i /\ (i - 1 = n <=> i = n + 1)
        BY <1>1, <3>2
      <4>2. nxt[r[i]] = next[s[i - 1]]
        BY <2>3, <2>4, <4>1
      <4>3. i # n + 1 => r[i + 1] = s[i]
        BY <2>3, <4>1
      <4>4. QED
        BY <1>6, <4>1, <4>2, <4>3
    <3>3. QED
      BY <3>1, <3>2
  <2>6. QED
    BY <1>1, <1>4, <2>1, <2>3, <2>5 DEF Linked, r
<1>11. CASE ~(h = NULL \/ Prio[p] > Prio[h])
  <2> HIDE DEF n, k, r
  <2>1. n # 0
    BY <1>5, <1>11
  <2>2. k \in 2 .. n + 1 /\ k - 1 \in 1 .. n /\ LastBefore(h, p) = s[k - 1]
    BY <1>1, <1>9, <1>11, <2>1
  <2>3. g = h /\ nxt = [next EXCEPT ![p] = next[s[k - 1]], ![s[k - 1]] = p]
    BY <1>11, <2>2
  <2>4. /\ nxt[p] = next[s[k - 1]]
        /\ nxt[s[k - 1]] = p
        /\ \A i \in 1 .. n : i # k - 1 => nxt[s[i]] = next[s[i]]
    BY <1>2, <1>7, <2>2, <2>3
  <2>5. ASSUME NEW i \in 1 .. n + 1
        PROVE  nxt[r[i]] = IF i = n + 1 THEN NULL ELSE r[i + 1]
    <3>1. CASE i < k - 1
      <4>1. i \in 1 .. k - 1 /\ i + 1 \in 1 .. k - 1 /\ i \in 1 .. n /\ i # k - 1
            /\ i # n /\ i # n + 1
        BY <1>1, <2>2, <3>1
      <4>2. QED
        BY <1>4, <1>6, <2>4, <4>1
    <3>2. CASE i = k - 1
      <4>1. i \in 1 .. k - 1 /\ i + 1 = k /\ i # n + 1
        BY <1>1, <2>2, <3>2
      <4>2. QED
        BY <1>4, <2>4, <3>2, <4>1
    <3>3. CASE i = k
      <4>1. nxt[r[i]] = next[s[k - 1]]
        BY <1>4, <2>4, <3>3
      <4>2. CASE k = n + 1
        <5>1. k - 1 = n
          BY <1>1, <4>2
        <5>2. QED
          BY <1>6, <2>2, <3>3, <4>1, <4>2, <5>1
      <4>3. CASE k # n + 1
        <5>1. k + 1 \in k + 1 .. n + 1 /\ (k + 1) - 1 = k /\ (k - 1) + 1 = k /\ k - 1 # n
          BY <1>1, <2>2, <4>3
        <5>2. r[k + 1] = s[k]
          BY <1>4, <5>1
        <5>3. QED
          BY <1>6, <2>2, <3>3, <4>1, <4>3, <5>1, <5>2
      <4>4. QED
        BY <4>2, <4>3
    <3>4. CASE i > k
      <4>1. i - 1 \in 1 .. n /\ i - 1 # k - 1 /\ i \in k + 1 .. n + 1
            /\ (i # n + 1 => i + 1 \in k + 1 .. n + 1)
            /\ (i - 1) + 1 = i /\ (i + 1) - 1 = i /\ (i - 1 = n <=> i = n + 1)
        BY <1>1, <2>2, <3>4
      <4>2. nxt[r[i]] = next[s[i - 1]]
        BY <1>4, <2>4, <4>1
      <4>3. i # n + 1 => r[i + 1] = s[i]
        BY <1>4, <4>1
      <4>4. QED
        BY <1>6, <4>1, <4>2, <4>3
    <3>5. QED
      BY <1>1, <2>2, <3>1, <3>2, <3>3, <3>4
  <2>6. r[1] = s[1]
    BY <1>1, <1>4, <2>2
  <2>7. n + 1 # 0 /\ g = r[1]
    BY <1>1, <1>5, <2>1, <2>3, <2>6
  <2>8. Linked(r, nxt, g)
    BY <1>4, <2>5, <2>7 DEF Linked
  <2>9. QED
    BY <2>8 DEF r
<1>12. QED
  BY <1>10, <1>11

(***************************************************************************)
(* Pointers outside a list may change.                                     *)
(***************************************************************************)
LEMMA LinkedElsewhere ==
  ASSUME NEW s \in Seq(Procs), NEW h, Linked(s, next, h),
         NEW nxt, \A p \in ToSet(s) : nxt[p] = next[p]
  PROVE  Linked(s, nxt, h)
<1>1. \A i \in 1 .. Len(s) : s[i] \in ToSet(s)
  BY DEF ToSet
<1>2. QED
  BY <1>1 DEF Linked

\* What is left when the head is taken off.
LEMMA LinkedAfterDequeue ==
  ASSUME NEW s \in Seq(Procs), NEW h, Linked(s, next, h), h # NULL
  PROVE  s # <<>> /\ Linked(Tail(s), next, next[h])
<1> DEFINE n == Len(s)
           r == Tail(s)
<1>1. n \in Nat /\ (n = 0 => h = NULL) /\ (n # 0 => h = s[1])
  BY DEF Linked
<1>2. \A i \in 1 .. n : next[s[i]] = IF i = n THEN NULL ELSE s[i + 1]
  BY DEF Linked
<1>3. n # 0 /\ s # <<>>
  BY <1>1
<1>4. Len(r) = n - 1 /\ \A i \in 1 .. n - 1 : r[i] = s[i + 1]
  BY <1>3
<1> HIDE DEF n, r
<1>5. next[h] = IF Len(r) = 0 THEN NULL ELSE r[1]
  <2>1. 1 \in 1 .. n /\ h = s[1] /\ next[s[1]] = IF 1 = n THEN NULL ELSE s[2]
    BY <1>1, <1>2, <1>3
  <2>2. 1 # n => r[1] = s[2]
    BY <1>1, <1>3, <1>4
  <2>3. Len(r) = 0 <=> 1 = n
    BY <1>1, <1>4
  <2>4. QED
    BY <2>1, <2>2, <2>3
<1>6. ASSUME NEW i \in 1 .. Len(r)
      PROVE  next[r[i]] = IF i = Len(r) THEN NULL ELSE r[i + 1]
  <2>1. i \in 1 .. n - 1 /\ i + 1 \in 1 .. n /\ (i + 1 = n <=> i = Len(r))
        /\ (i # Len(r) => i + 1 \in 1 .. n - 1)
    BY <1>1, <1>4
  <2>2. r[i] = s[i + 1] /\ (i # Len(r) => r[i + 1] = s[(i + 1) + 1])
    BY <1>4, <2>1
  <2>3. QED
    BY <1>2, <2>1, <2>2
<1>7. QED
  BY <1>3, <1>5, <1>6 DEF Linked, r

-----------------------------------------------------------------------------
(***************************************************************************)
(* The lists q are spelt again after a change of one of them, l, into r.   *)
(***************************************************************************)
LEMMA SpeltAgain ==
  ASSUME IInv, NEW l \in Lists, NEW r \in Seq(Procs), IsInjective(r),
         NEW nxt, NEW hd,
         Linked(r, nxt, hd[l]),
         \A k \in Lists \ {l} :
           hd[k] = head[k] /\ \A p \in ToSet(Contents(k)) : nxt[p] = next[p],
         \A k \in Lists \ {l} : ToSet(Contents(k)) \cap ToSet(r) = {}
  PROVE  Spelt([[k \in Lists |-> Contents(k)] EXCEPT ![l] = r], nxt, hd)
<1> DEFINE q == [k \in Lists |-> Contents(k)]
           new == [q EXCEPT ![l] = r]
<1>1. new[l] = r /\ \A k \in Lists \ {l} : new[k] = Contents(k)
  OBVIOUS
<1>2. /\ \A k \in Lists : /\ Contents(k) \in Seq(Procs) /\ IsInjective(Contents(k))
                          /\ Linked(Contents(k), next, head[k])
      /\ \A k, m \in Lists : k # m => ToSet(Contents(k)) \cap ToSet(Contents(m)) = {}
  <2>1. \A k \in Lists : q[k] = Contents(k)
    OBVIOUS
  <2> HIDE DEF q
  <2>2. QED
    BY <2>1 DEF IInv, Spelt, q
<1> HIDE DEF new
<1>3. \A k \in Lists \ {l} : Linked(Contents(k), nxt, hd[k])
  BY <1>2, LinkedElsewhere
<1>4. Spelt(new, nxt, hd)
  BY <1>1, <1>2, <1>3 DEF Spelt
<1>5. QED
  BY <1>4 DEF new

\* The facts of IInv about one list.
LEMMA ListFacts ==
  ASSUME IInv, NEW l \in Lists
  PROVE  /\ Contents(l) \in Seq(Procs) /\ IsInjective(Contents(l))
         /\ Linked(Contents(l), next, head[l])
         /\ \A k \in Lists \ {l} : ToSet(Contents(k)) \cap ToSet(Contents(l)) = {}
<1> DEFINE q == [k \in Lists |-> Contents(k)]
<1>1. \A k \in Lists : q[k] = Contents(k)
  OBVIOUS
<1> HIDE DEF q
<1>2. QED
  BY <1>1 DEF IInv, Spelt, q

\* When the pointers spell out new after a step, then new is what is read off them.
LEMMA ListsAfter ==
  ASSUME NEW new, DOMAIN new = Lists, new = [l \in Lists |-> new[l]], Spelt(new, next, head)'
  PROVE  [l \in Lists |-> Contents(l)]' = new
<1>1. \A l \in Lists : Chain(next', head'[l]) = new[l]
  <2> SUFFICES ASSUME NEW l \in Lists PROVE Chain(next', head'[l]) = new[l]
    OBVIOUS
  <2>1. Spelt(new, next', head')
    BY DEF Spelt
  <2>2. QED
    BY <2>1, ContentsOfSpelt
<1>2. \A l \in Lists : Contents(l)' = new[l]
  BY <1>1 DEF Contents
<1>3. QED
  BY <1>2

LEMMA InitHolds == Init => IInv /\ Queues!Init
<1> SUFFICES ASSUME Init PROVE IInv /\ Queues!Init
  OBVIOUS
<1> DEFINE q == [l \in Lists |-> Contents(l)]
<1>1. \A l \in Lists : Contents(l) = <<>>
  <2> SUFFICES ASSUME NEW l \in Lists PROVE Chain(next, NULL) = <<>>
    BY DEF Init, Contents
  <2>1. <<>> \in Seq(Procs) /\ IsInjective(<<>>) /\ Linked(<<>>, next, NULL)
    BY DEF IsInjective, Linked
  <2>2. QED
    BY <2>1, ChainOfLinked
<1>2. q = [l \in Lists |-> <<>>]
  BY <1>1
<1>3. ASSUME NEW l \in Lists
      PROVE  q[l] \in Seq(Procs) /\ IsInjective(q[l]) /\ Linked(q[l], next, head[l])
  <2>1. q[l] = <<>> /\ head[l] = NULL
    BY <1>2 DEF Init
  <2> HIDE DEF q
  <2>2. <<>> \in Seq(Procs) /\ IsInjective(<<>>) /\ Linked(<<>>, next, NULL)
    BY DEF IsInjective, Linked
  <2>3. QED
    BY <2>1, <2>2
<1>4. \A l \in Lists : ToSet(q[l]) = {}
  BY <1>2 DEF ToSet
<1> HIDE DEF q
<1>5. Spelt(q, next, head)
  BY <1>3, <1>4 DEF Spelt
<1>6. QED
  BY <1>2, <1>5 DEF IInv, Init, Queues!Init, q

(***************************************************************************)
(* enqueue keeps the lists apart and is SequenceQueues' Enq.               *)
(***************************************************************************)
LEMMA EnqueueStep ==
  ASSUME IInv, NEW l \in Lists,
         NEW p \in Procs \ UNION {ToSet(Contents(k)) : k \in Lists}, enqueue(l, p)
  PROVE  IInv' /\ Queues!Enq
<1> DEFINE q == [k \in Lists |-> Contents(k)]
           s == Contents(l)
           r == Enqueue(Prio, s, p)
           at == LastBefore(head[l], p)
           new == [q EXCEPT ![l] = r]
<1>1. /\ s \in Seq(Procs) /\ IsInjective(s) /\ Linked(s, next, head[l])
      /\ \A k \in Lists \ {l} : ToSet(Contents(k)) \cap ToSet(s) = {}
  BY ListFacts
<1>2. p \in Procs /\ \A k \in Lists : p \notin ToSet(Contents(k))
  OBVIOUS
<1>3. /\ r \in Seq(Procs) /\ ToSet(r) = ToSet(s) \cup {p} /\ IsInjective(r)
  <2>1. Prio \in [Procs -> Int]
    BY PrioAssumption
  <2>2. p \notin ToSet(s)
    BY <1>2
  <2>3. s \in Seq(Procs) /\ IsInjective(s) /\ p \in Procs
    BY <1>1, <1>2
  <2> HIDE DEF s
  <2>4. QED
    BY <2>1, <2>2, <2>3, EnqueueInjective
<1>4. next \in [Procs -> Procs \cup {NULL}] /\ head \in [Lists -> Procs \cup {NULL}]
  BY DEF IInv
<1>5. /\ ~(head[l] = NULL \/ Prio[p] > Prio[head[l]]) => at \in ToSet(s)
      /\ ToSet(s) \subseteq Procs
  <2> HIDE DEF s
  <2>1. ToSet(s) \subseteq Procs /\ \A i \in 1 .. Len(s) : s[i] \in ToSet(s)
    BY <1>1 DEF ToSet
  <2>2. ASSUME ~(head[l] = NULL \/ Prio[p] > Prio[head[l]])
        PROVE  at \in ToSet(s)
    <3>1. Len(s) # 0
      BY <1>1, <2>2 DEF Linked
    <3>2. /\ Slot(Prio, s, p) \in 2 .. Len(s) + 1
          /\ at = s[Slot(Prio, s, p) - 1]
      BY <1>1, <1>2, <2>2, <3>1, WalkStopsAtSlot
    <3>3. Slot(Prio, s, p) - 1 \in 1 .. Len(s)
      BY <1>1, <3>2
    <3>4. QED
      BY <2>1, <3>2, <3>3
  <2>3. QED
    BY <2>1, <2>2
<1>6. IF head[l] = NULL \/ Prio[p] > Prio[head[l]]
        THEN head' = [head EXCEPT ![l] = p] /\ next' = [next EXCEPT ![p] = head[l]]
        ELSE head' = head /\ next' = [next EXCEPT ![p] = next[at], ![at] = p]
  BY DEF enqueue, EnqueueFirst, EnqueueBehind
<1> HIDE DEF q, s, r, at, new
<1>7. /\ next' \in [Procs -> Procs \cup {NULL}] /\ head' \in [Lists -> Procs \cup {NULL}]
      /\ \A k \in Lists \ {l} : head'[k] = head[k]
      /\ \A u \in Procs : u # p /\ u \notin ToSet(s) => next'[u] = next[u]
  BY <1>2, <1>4, <1>5, <1>6
<1>8. Linked(r, next', head'[l])
  <2>1. p \notin ToSet(s)
    BY <1>2 DEF s
  <2>2. IF head[l] = NULL \/ Prio[p] > Prio[head[l]]
          THEN head'[l] = p /\ next' = [next EXCEPT ![p] = head[l]]
          ELSE head'[l] = head[l] /\ next' = [next EXCEPT ![p] = next[at], ![at] = p]
    BY <1>4, <1>6
  <2>3. QED
    BY <1>1, <1>2, <1>4, <2>1, <2>2, LinkedAfterEnqueue DEF r, at
<1>9. ASSUME NEW k \in Lists \ {l}
      PROVE  /\ \A u \in ToSet(Contents(k)) : next'[u] = next[u]
             /\ ToSet(Contents(k)) \cap ToSet(r) = {}
  <2>1. Contents(k) \in Seq(Procs)
    BY ListFacts
  <2>2. ToSet(Contents(k)) \subseteq Procs
    BY <2>1 DEF ToSet
  <2>3. QED
    BY <1>1, <1>2, <1>3, <1>7, <2>2
<1>10. Spelt(new, next', head')
  BY <1>3, <1>7, <1>8, <1>9, SpeltAgain DEF new, q
<1>11. DOMAIN new = Lists /\ new = [k \in Lists |-> new[k]]
  BY DEF new, q
<1>12. [k \in Lists |-> Contents(k)]' = new
  BY <1>10, <1>11, ListsAfter DEF Spelt
<1>13. IInv'
  BY <1>7, <1>10, <1>12 DEF IInv, Spelt
<1>14. Queues!Enq
  <2>1. q[l] = s
    BY DEF q, s
  <2>2. p \notin Queues!Queued
    BY <1>2 DEF Queues!Queued, Queues!ToSet, ToSet
  <2>3. [k \in Lists |-> Contents(k)]' = [q EXCEPT ![l] = Queues!Enqueue(Prio, q[l], p)]
    <3>1. Enqueue(Prio, s, p) = Queues!Enqueue(Prio, s, p)
      BY DEF Enqueue, InsertAt, Slot, Queues!Enqueue, Queues!InsertAt, Queues!Slot
    <3>2. QED
      BY <1>12, <2>1, <3>1 DEF new, r
  <2>4. p \in Procs \ Queues!Queued
    BY <1>2, <2>2
  <2> HIDE DEF Queues!Queued
  <2>5. QED
    BY <2>3, <2>4 DEF Queues!Enq, q
<1>15. QED
  BY <1>13, <1>14

(***************************************************************************)
(* dequeue of a list that is not empty is SequenceQueues' Deq.             *)
(***************************************************************************)
LEMMA DequeueStep ==
  ASSUME IInv, NEW l \in Lists, dequeue(l)
  PROVE  IInv' /\ Queues!Deq
<1> DEFINE q == [k \in Lists |-> Contents(k)]
           s == Contents(l)
           new == [q EXCEPT ![l] = Tail(s)]
<1>1. /\ s \in Seq(Procs) /\ IsInjective(s) /\ Linked(s, next, head[l])
      /\ \A k \in Lists \ {l} : ToSet(Contents(k)) \cap ToSet(s) = {}
  BY ListFacts
<1>2. next \in [Procs -> Procs \cup {NULL}] /\ head \in [Lists -> Procs \cup {NULL}]
  BY DEF IInv
<1>3. /\ head[l] # NULL /\ next' = next
      /\ head' = [head EXCEPT ![l] = next[head[l]]]
  BY DEF dequeue
<1> HIDE DEF s, new, q
<1>4. s # <<>> /\ Linked(Tail(s), next, next[head[l]])
  BY <1>1, <1>3, LinkedAfterDequeue
<1>5. Tail(s) \in Seq(Procs) /\ IsInjective(Tail(s)) /\ ToSet(Tail(s)) \subseteq ToSet(s)
  <2>1. Prio \in [Procs -> Int]
    BY PrioAssumption
  <2>2. QED
    BY <1>1, <1>4, <2>1, DequeueProperties
<1>6. /\ next' \in [Procs -> Procs \cup {NULL}] /\ head' \in [Lists -> Procs \cup {NULL}]
      /\ head'[l] = next[head[l]] /\ \A k \in Lists \ {l} : head'[k] = head[k]
  BY <1>2, <1>3
<1>7. Spelt(new, next', head')
  <2>1. \A k \in Lists \ {l} : ToSet(Contents(k)) \cap ToSet(Tail(s)) = {}
    BY <1>1, <1>5
  <2>2. QED
    BY <1>3, <1>4, <1>5, <1>6, <2>1, SpeltAgain DEF new, q
<1>8. DOMAIN new = Lists /\ new = [k \in Lists |-> new[k]]
  BY DEF new, q
<1>9. [k \in Lists |-> Contents(k)]' = new
  BY <1>7, <1>8, ListsAfter DEF Spelt
<1>10. IInv'
  BY <1>6, <1>7, <1>9 DEF IInv, Spelt
<1>11. Queues!Deq
  <2>1. q[l] = s
    BY DEF q, s
  <2>2. [k \in Lists |-> Contents(k)]' = [q EXCEPT ![l] = Tail(@)]
    BY <1>9, <2>1 DEF new
  <2>3. QED
    BY <1>4, <2>1, <2>2 DEF Queues!Deq, q
<1>12. QED
  BY <1>10, <1>11

LEMMA NextStep == IInv /\ [Next]_vars => IInv' /\ [Queues!Enq \/ Queues!Deq]_[l \in Lists |-> Contents(l)]
<1> SUFFICES ASSUME IInv, [Next]_vars
             PROVE  IInv' /\ [Queues!Enq \/ Queues!Deq]_[l \in Lists |-> Contents(l)]
  OBVIOUS
<1>1. CASE \E l \in Lists, p \in Procs \ UNION {ToSet(Contents(k)) : k \in Lists} : enqueue(l, p)
  BY <1>1, EnqueueStep
<1>2. CASE \E l \in Lists : dequeue(l)
  BY <1>2, DequeueStep
<1>3. CASE UNCHANGED vars
  <2>1. next' = next /\ head' = head
    BY <1>3 DEF vars
  <2>2. [l \in Lists |-> Contents(l)]' = [l \in Lists |-> Contents(l)]
    BY <2>1 DEF Contents
  <2>3. IInv'
    BY <2>1, <2>2 DEF IInv, Spelt
  <2>4. QED
    BY <2>2, <2>3
<1>4. QED
  BY <1>1, <1>2, <1>3 DEF Next

(***************************************************************************)
(* For any PROCs, lists and priorities: no list runs into another one or   *)
(* into itself, however often PROCs go in and out of lists (queue.c:19).   *)
(***************************************************************************)
THEOREM ListsStayApart == Spec => []ListsApart
<1>1. Init => IInv
  BY InitHolds
<1>2. IInv /\ [Next]_vars => IInv'
  BY NextStep
<1>3. IInv => ListsApart
  <2> SUFFICES ASSUME IInv, NEW l \in Lists, NEW k \in Lists
               PROVE  /\ Contents(l) # <<>> => next[Last(Contents(l))] = NULL
                      /\ l # k => ToSet(Contents(l)) \cap ToSet(Contents(k)) = {}
    BY DEF ListsApart
  <2>1. /\ Contents(l) \in Seq(Procs) /\ Linked(Contents(l), next, head[l])
        /\ l # k => ToSet(Contents(l)) \cap ToSet(Contents(k)) = {}
    BY ListFacts
  <2>2. ASSUME Contents(l) # <<>>
        PROVE  next[Last(Contents(l))] = NULL
    <3>1. Len(Contents(l)) \in 1 .. Len(Contents(l))
      BY <2>1, <2>2
    <3>2. QED
      BY <3>1, <2>1 DEF Linked, Last
  <2>3. QED
    BY <2>1, <2>2
<1>4. QED
  BY <1>1, <1>2, <1>3, PTL DEF Spec

(***************************************************************************)
(* The pointer code of queue.c implements SequenceQueues: what MTX1 and    *)
(* MTX2 take for granted when their lists are sequences.                   *)
(***************************************************************************)
THEOREM PointersImplementQueues == Spec => ImplementsQueues
<1>1. Init => IInv /\ Queues!Init
  BY InitHolds
<1>2. IInv /\ [Next]_vars => IInv' /\ [Queues!Enq \/ Queues!Deq]_[l \in Lists |-> Contents(l)]
  BY NextStep
<1>3. QED
  BY <1>1, <1>2, PTL DEF Spec, ImplementsQueues, Queues!Spec

=============================================================================
