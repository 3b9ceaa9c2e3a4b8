----------------------------- MODULE MTX2Proofs -----------------------------
(***************************************************************************)
(* Proofs about the second kernel, for every number of PROCs and every set *)
(* of event values.                                                        *)
(***************************************************************************)
EXTENDS MTX2, PriorityQueueProofs

(***************************************************************************)
(* The inductive invariant is the conjunction of the checked ones and what *)
(* holds until process 1 first runs: that P1 is known whenever a process   *)
(* other than P0 runs (FamilyOK) is not inductive without it.              *)
(***************************************************************************)
BeforeP1 == P1 = NULL => running = 0 /\ ToSet(readyQueue) = {1}

IInv ==
  TypeOK /\ ListsMatchStatus /\ P0Last /\ FamilyOK /\ WaitCursorOK /\ BeforeP1

-----------------------------------------------------------------------------
(* Facts about constants and sequences.                                    *)

LEMMA PriorityIsInt ==
  ASSUME NEW f \in [Procs -> {0, 1}]
  PROVE  f \in [Procs -> Int]
OBVIOUS

LEMMA BootProcs == 0 \in Procs /\ 1 \in Procs /\ NULL \notin Procs
BY NPROCAssumption DEF Procs, NULL

\* Appending a child, and appending a list of children.
LEMMA AppendMembers ==
  ASSUME NEW S, NEW s \in Seq(S), NEW e \in S
  PROVE  /\ Append(s, e) \in Seq(S)
         /\ ToSet(Append(s, e)) = ToSet(s) \cup {e}
         /\ IsInjective(s) /\ e \notin ToSet(s) => IsInjective(Append(s, e))
<1> DEFINE r == Append(s, e)
           n == Len(s)
<1>1. /\ n \in Nat /\ r \in Seq(S) /\ DOMAIN s = 1 .. n /\ DOMAIN r = 1 .. n + 1
      /\ r[n + 1] = e /\ \A i \in 1 .. n : r[i] = s[i]
  OBVIOUS
<1> HIDE DEF r, n
<1>2. \A i \in 1 .. n + 1 : i \in 1 .. n \/ i = n + 1
  BY <1>1
<1>3. \A i \in 1 .. n : i \in 1 .. n + 1 /\ i # n + 1
  BY <1>1
<1>4. n + 1 \in 1 .. n + 1
  BY <1>1
<1>5. ToSet(r) = ToSet(s) \cup {e}
  BY <1>1, <1>2, <1>3, <1>4 DEF ToSet
<1>6. ASSUME IsInjective(s), e \notin ToSet(s)
      PROVE  IsInjective(r)
  <2>1. \A i, j \in 1 .. n : s[i] = s[j] => i = j
    BY <1>1, <1>6 DEF IsInjective
  <2>2. \A i \in 1 .. n : s[i] # e
    BY <1>1, <1>6 DEF ToSet
  <2>3. QED
    BY <1>1, <1>2, <2>1, <2>2 DEF IsInjective
<1>7. QED
  BY <1>1, <1>5, <1>6 DEF r

LEMMA ConcatMembers ==
  ASSUME NEW S, NEW s \in Seq(S), NEW t \in Seq(S)
  PROVE  /\ s \o t \in Seq(S)
         /\ ToSet(s \o t) = ToSet(s) \cup ToSet(t)
         /\ IsInjective(s) /\ IsInjective(t) /\ ToSet(s) \cap ToSet(t) = {}
              => IsInjective(s \o t)
<1> DEFINE r == s \o t
           n == Len(s)
           m == Len(t)
<1>1. /\ n \in Nat /\ m \in Nat /\ r \in Seq(S)
      /\ DOMAIN s = 1 .. n /\ DOMAIN t = 1 .. m /\ DOMAIN r = 1 .. n + m
      /\ \A i \in 1 .. n + m : r[i] = IF i <= n THEN s[i] ELSE t[i - n]
  OBVIOUS
<1> HIDE DEF r, n, m
<1>2. \A i \in 1 .. n + m : \/ i <= n /\ i \in 1 .. n /\ r[i] = s[i]
                            \/ i > n /\ i - n \in 1 .. m /\ r[i] = t[i - n]
  BY <1>1
<1>3. \A i \in 1 .. n : i \in 1 .. n + m /\ r[i] = s[i]
  BY <1>1
<1>4. \A i \in 1 .. m : i + n \in 1 .. n + m /\ r[i + n] = t[i]
  <2> TAKE i \in 1 .. m
  <2>1. i + n \in 1 .. n + m /\ ~(i + n <= n) /\ (i + n) - n = i
    BY <1>1
  <2>2. QED
    BY <1>1, <2>1
<1>5. ToSet(r) = ToSet(s) \cup ToSet(t)
  <2>1. ToSet(r) \subseteq ToSet(s) \cup ToSet(t)
    BY <1>1, <1>2 DEF ToSet
  <2>2. ToSet(s) \subseteq ToSet(r)
    BY <1>1, <1>3 DEF ToSet
  <2>3. ToSet(t) \subseteq ToSet(r)
    BY <1>1, <1>4 DEF ToSet
  <2>4. QED
    BY <2>1, <2>2, <2>3
<1>6. ASSUME IsInjective(s), IsInjective(t), ToSet(s) \cap ToSet(t) = {}
      PROVE  IsInjective(r)
  <2>1. \A i, j \in 1 .. n : s[i] = s[j] => i = j
    BY <1>1, <1>6 DEF IsInjective
  <2>2. \A i, j \in 1 .. m : t[i] = t[j] => i = j
    BY <1>1, <1>6 DEF IsInjective
  <2>3. \A i \in 1 .. n, j \in 1 .. m : s[i] # t[j]
    BY <1>1, <1>6 DEF ToSet
  <2>4. \A i, j \in 1 .. n + m : i - n = j - n => i = j
    BY <1>1
  <2>5. \A i, j \in 1 .. n + m : r[i] = r[j] => i = j
    BY <1>2, <2>1, <2>2, <2>3, <2>4
  <2>6. QED
    BY <1>1, <2>5 DEF IsInjective
<1>7. QED
  BY <1>1, <1>5, <1>6 DEF r

\* The position of a child in its list.
LEMMA PositionProperties ==
  ASSUME NEW S, NEW s \in Seq(S), NEW c \in ToSet(s)
  PROVE  Position(s, c) \in 1 .. Len(s) /\ s[Position(s, c)] = c
BY DEF Position, ToSet

(***************************************************************************)
(* letgo() leaves a list of other children: never the one let go of.       *)
(***************************************************************************)
LEMMA LetgoProperties ==
  ASSUME NEW S, NEW s \in Seq(S), IsInjective(s), NEW c \in ToSet(s)
  PROVE  /\ Letgo(s, c) \in Seq(S)
         /\ ToSet(Letgo(s, c)) \subseteq ToSet(s) \ {c}
         /\ IsInjective(Letgo(s, c))
<1>1. CASE c = Last(s)
  BY <1>1 DEF Letgo, ToSet, IsInjective
<1>2. CASE c # Last(s)
  <2> DEFINE n == Len(s)
             k == Position(s, c)
             a == SubSeq(s, 1, k - 1)
             b == SubSeq(s, k + 1, n)
  <2>1. n \in Nat /\ k \in 1 .. n /\ s[k] = c /\ DOMAIN s = 1 .. n
    BY PositionProperties
  <2>2. Letgo(s, c) = a \o b
    BY <1>2 DEF Letgo, RemoveAt
  <2> HIDE DEF k, n
  <2>3. /\ a \in Seq(S) /\ DOMAIN a = 1 .. k - 1
        /\ \A i \in 1 .. k - 1 : a[i] = s[i] /\ i \in 1 .. n /\ i < k
    BY <2>1 DEF n
  <2>4. /\ b \in Seq(S) /\ DOMAIN b = 1 .. n - k
        /\ \A i \in 1 .. n - k : b[i] = s[k + i] /\ k + i \in 1 .. n /\ k + i > k
    BY <2>1 DEF n
  <2> HIDE DEF a, b
  <2>5. \A i, j \in 1 .. n : s[i] = s[j] => i = j
    BY <2>1 DEF IsInjective
  <2>6. ToSet(a) \subseteq ToSet(s) \ {c}
    BY <2>1, <2>3, <2>5 DEF ToSet
  <2>7. ToSet(b) \subseteq ToSet(s) \ {c}
    BY <2>1, <2>4, <2>5 DEF ToSet
  <2>8. IsInjective(a)
    BY <2>3, <2>5 DEF IsInjective
  <2>9. IsInjective(b)
    <3>1. \A i, j \in 1 .. n - k : b[i] = b[j] => k + i = k + j
      BY <2>4, <2>5
    <3>2. \A i, j \in 1 .. n - k : k + i = k + j => i = j
      BY <2>1
    <3>3. QED
      BY <2>4, <3>1, <3>2 DEF IsInjective
  <2>10. ToSet(a) \cap ToSet(b) = {}
    <3>1. \A i \in 1 .. k - 1, j \in 1 .. n - k : a[i] # b[j]
      BY <2>1, <2>3, <2>4, <2>5
    <3>2. QED
      BY <2>3, <2>4, <3>1 DEF ToSet
  <2>11. QED
    BY <2>2, <2>3, <2>4, <2>6, <2>7, <2>8, <2>9, <2>10, ConcatMembers
<1>3. QED
  BY <1>1, <1>2

\* The next child wait() will look at is in the list.
LEMMA NextChildProperties ==
  ASSUME NEW S, NEW s \in Seq(S), NEW c \in ToSet(s)
  PROVE  Head(s) \in ToSet(s) /\ NextChild(s, c) \in ToSet(s)
<1>1. Len(s) \in Nat /\ Len(s) >= 1 /\ DOMAIN s = 1 .. Len(s)
  BY DEF ToSet
<1>2. Head(s) \in ToSet(s) /\ Last(s) = s[Len(s)]
  BY <1>1 DEF ToSet, Last
<1>3. ASSUME c # Last(s) PROVE Position(s, c) + 1 \in 1 .. Len(s)
  BY <1>1, <1>2, <1>3, PositionProperties
<1>4. QED
  BY <1>1, <1>2, <1>3 DEF NextChild, ToSet

-----------------------------------------------------------------------------
(* What scheduler() and wakeup() do.                                       *)

(***************************************************************************)
(* scheduler() picks a member of the queue, P0 only when it is alone.      *)
(***************************************************************************)
LEMMA DispatchProperties ==
  ASSUME NEW q \in Seq(Procs), IsInjective(q), 0 \in ToSet(q),
         priority \in [Procs -> {0, 1}],
         SortedByPriority(priority, q),
         \A p \in ToSet(q) : priority[p] = (IF p = 0 THEN 0 ELSE 1),
         Dispatch(q)
  PROVE  /\ running' \in ToSet(q) /\ running' \in Procs
         /\ readyQueue' \in Seq(Procs) /\ IsInjective(readyQueue')
         /\ ToSet(readyQueue') = ToSet(q) \ {running'}
         /\ SortedByPriority(priority, readyQueue')
         /\ running' = 0 => ToSet(q) = {0}
         /\ P1' = IF running' = 1 THEN 1 ELSE P1
<1>1. q # <<>>
  BY DEF ToSet
<1>2. running' = Head(q) /\ readyQueue' = Tail(q) /\ P1' = IF running' = 1 THEN 1 ELSE P1
  BY <1>1 DEF Dispatch
<1>3. priority \in [Procs -> Int]
  BY PriorityIsInt
<1>4. /\ Head(q) \in Procs /\ Tail(q) \in Seq(Procs)
      /\ Head(q) \in ToSet(q)
      /\ IsInjective(Tail(q))
      /\ ToSet(Tail(q)) = ToSet(q) \ {Head(q)}
      /\ SortedByPriority(priority, Tail(q))
      /\ \A p \in ToSet(q) : priority[p] <= priority[Head(q)]
  BY <1>1, <1>3, DequeueProperties
<1>5. Head(q) = 0 => ToSet(q) = {0}
  BY <1>4
<1>6. QED
  BY <1>2, <1>4, <1>5

(***************************************************************************)
(* wakeup() moves the woken processes, and no other one, from the sleep    *)
(* list to the ready queue.                                                *)
(***************************************************************************)
LEMMA WakeupProperties ==
  ASSUME IInv, NEW e
  PROVE  /\ Woken(e) \subseteq ToSet(sleepList) /\ Woken(e) \subseteq Procs
         /\ \A p \in Woken(e) : status[p] = "SLEEP" /\ p # 0 /\ p # running
         /\ ReadyAfterWakeup(e) \in Seq(Procs)
         /\ ToSet(ReadyAfterWakeup(e)) = ToSet(readyQueue) \cup Woken(e)
         /\ IsInjective(ReadyAfterWakeup(e))
         /\ SortedByPriority(priority, ReadyAfterWakeup(e))
         /\ SleepAfterWakeup(e) \in Seq(Procs)
         /\ ToSet(SleepAfterWakeup(e)) = ToSet(sleepList) \ Woken(e)
         /\ IsInjective(SleepAfterWakeup(e))
<1>1. /\ priority \in [Procs -> Int]
      /\ readyQueue \in Seq(Procs) /\ sleepList \in Seq(Procs)
      /\ IsInjective(readyQueue) /\ IsInjective(sleepList)
      /\ SortedByPriority(priority, readyQueue)
      /\ ToSet(sleepList) = {p \in Procs : status[p] = "SLEEP"}
      /\ ToSet(readyQueue) \cap ToSet(sleepList) = {}
  BY PriorityIsInt DEF IInv, TypeOK, ListsMatchStatus, P0Last
<1>2. /\ Woken(e) \subseteq ToSet(sleepList) /\ Woken(e) \subseteq Procs
      /\ \A p \in Woken(e) : status[p] = "SLEEP" /\ p # 0 /\ p # running
  BY <1>1 DEF Woken, IInv, ListsMatchStatus, P0Last
<1> DEFINE r == EnqueueEach(priority, readyQueue, sleepList, Woken(e))
           t == EnqueueEach(priority, <<>>, sleepList, Procs \ Woken(e))
<1>3. /\ r \in Seq(Procs)
      /\ ToSet(r) = ToSet(readyQueue) \cup (ToSet(sleepList) \cap Woken(e))
      /\ IsInjective(r) /\ SortedByPriority(priority, r)
  <2> HIDE DEF Woken
  <2>1. ToSet(readyQueue) \cap ToSet(sleepList) \cap Woken(e) = {}
    BY <1>1
  <2>2. QED
    BY <1>1, <2>1, EnqueueEachSorted
<1>4. /\ t \in Seq(Procs)
      /\ ToSet(t) = ToSet(sleepList) \cap (Procs \ Woken(e))
      /\ IsInjective(t)
  BY <1>1, EnqueueEachFromEmpty
<1>5. ReadyAfterWakeup(e) = r /\ SleepAfterWakeup(e) = t
  BY DEF ReadyAfterWakeup, SleepAfterWakeup
<1> HIDE DEF r, t
<1>6. QED
  BY <1>1, <1>2, <1>3, <1>4, <1>5

-----------------------------------------------------------------------------
(* The initial state and the steps.                                        *)

LEMMA InitImpliesIInv == Init => IInv /\ Kernel!Init
<1> SUFFICES ASSUME Init PROVE IInv /\ Kernel!Init
  OBVIOUS
<1>1. NPROC \in Nat /\ NPROC >= 2 /\ 0 \in Procs /\ 1 \in Procs /\ NULL \notin Procs
  BY NPROCAssumption, BootProcs
<1>2. freeList \in Seq(Procs) /\ Len(freeList) = NPROC - 2 /\ DOMAIN freeList = 1 .. NPROC - 2
  BY <1>1 DEF Init, Procs
<1>3. /\ readyQueue \in Seq(Procs) /\ sleepList \in Seq(Procs)
      /\ child \in [Procs -> Seq(Procs)]
  BY <1>1 DEF Init
<1>4. TypeOK
  BY <1>1, <1>2, <1>3 DEF Init, TypeOK, Status
<1>5. ToSet(freeList) = Procs \ {0, 1}
  <2>1. ToSet(freeList) = {i + 1 : i \in 1 .. NPROC - 2}
    BY DEF Init, ToSet
  <2>2. \A p \in Procs \ {0, 1} : p - 1 \in 1 .. NPROC - 2 /\ (p - 1) + 1 = p
    BY <1>1 DEF Procs
  <2>3. QED
    BY <1>1, <2>1, <2>2 DEF Procs
<1>6. /\ ToSet(readyQueue) = {1} /\ IsInjective(readyQueue) /\ SortedByPriority(priority, readyQueue)
      /\ ToSet(sleepList) = {} /\ IsInjective(sleepList)
  BY DEF Init, ToSet, IsInjective, SortedByPriority
<1>7. IsInjective(freeList)
  BY <1>1 DEF Init, IsInjective
<1>8. ListsMatchStatus
  BY <1>1, <1>5, <1>6, <1>7 DEF Init, ListsMatchStatus
<1>9. P0Last
  BY <1>1, <1>6 DEF Init, P0Last
<1>10. FamilyOK
  <2>1. ToSet(child[0]) = {1} /\ IsInjective(child[0])
    BY <1>1 DEF Init, ToSet, IsInjective
  <2>2. \A p \in Procs \ {0} : ToSet(child[p]) = {} /\ IsInjective(child[p])
    BY <1>1 DEF Init, ToSet, IsInjective
  <2>3. QED
    BY <1>1, <2>1, <2>2 DEF Init, FamilyOK
<1>11. WaitCursorOK /\ BeforeP1
  BY <1>6 DEF Init, WaitCursorOK, BeforeP1
<1>12. Kernel!Init
  <2>1. {p \in Procs : status[p] = "ZOMBIE"} = {}
    BY DEF Init
  <2>2. QED
    BY <1>5, <1>6, <2>1 DEF Init, Kernel!Init
<1>13. QED
  BY <1>4, <1>8, <1>9, <1>10, <1>11, <1>12 DEF IInv

(***************************************************************************)
(* tswitch() of a process that stays READY.                                *)
(***************************************************************************)
LEMMA YieldStep ==
  ASSUME IInv, Dispatch(Enqueue(priority, readyQueue, running)),
         UNCHANGED <<status, priority, ppid, event, child, freeList, sleepList, waiting>>
  PROVE  IInv' /\ Kernel!Yield
<1> DEFINE q == Enqueue(priority, readyQueue, running)
<1>1. priority \in [Procs -> Int]
  BY PriorityIsInt DEF IInv, TypeOK
<1>2. /\ readyQueue \in Seq(Procs) /\ running \in Procs
      /\ running \notin ToSet(readyQueue) /\ IsInjective(readyQueue)
      /\ SortedByPriority(priority, readyQueue)
  BY DEF IInv, TypeOK, ListsMatchStatus, P0Last
<1>3. /\ q \in Seq(Procs)
      /\ ToSet(q) = ToSet(readyQueue) \cup {running}
      /\ IsInjective(q)
      /\ SortedByPriority(priority, q)
  BY <1>1, <1>2, EnqueueSorted
<1>4. ToSet(q) = {p \in Procs : status[p] = "READY"}
  BY <1>3 DEF IInv, TypeOK, ListsMatchStatus
<1>5. 0 \in ToSet(q) /\ \A p \in ToSet(q) : priority[p] = (IF p = 0 THEN 0 ELSE 1)
  BY <1>4, BootProcs DEF IInv, P0Last
<1> HIDE DEF q
<1>6. /\ running' \in ToSet(q) /\ running' \in Procs
      /\ readyQueue' \in Seq(Procs) /\ IsInjective(readyQueue')
      /\ ToSet(readyQueue') = ToSet(q) \ {running'}
      /\ SortedByPriority(priority, readyQueue')
      /\ running' = 0 => ToSet(q) = {0}
      /\ P1' = IF running' = 1 THEN 1 ELSE P1
  BY <1>3, <1>5, DispatchProperties DEF IInv, TypeOK, q
<1>7. TypeOK'
  BY <1>6 DEF IInv, TypeOK
<1>8. ListsMatchStatus'
  BY <1>4, <1>6 DEF IInv, ListsMatchStatus
<1>9. P0Last'
  BY <1>6 DEF IInv, P0Last
<1>10. P1' = 1
  <2>1. CASE P1 = 1
    BY <1>6, <2>1
  <2>2. CASE P1 = NULL
    <3>1. ToSet(q) = {0, 1}
      BY <1>3, <2>2 DEF IInv, BeforeP1
    <3>2. QED
      BY <1>6, <3>1
  <2>3. QED
    BY <2>1, <2>2 DEF IInv, TypeOK
<1>11. FamilyOK' /\ WaitCursorOK' /\ BeforeP1'
  BY <1>10 DEF IInv, FamilyOK, WaitCursorOK, BeforeP1, NULL
<1>12. Kernel!Yield
  BY <1>3, <1>6 DEF Kernel!Yield, Kernel!Dispatch
<1>13. QED
  BY <1>7, <1>8, <1>9, <1>11, <1>12 DEF IInv

\* At a prompt or in wait(), P1 is known and P0 is ready.
LEMMA RunningFacts ==
  ASSUME IInv, running # 0
  PROVE  /\ running \in Procs /\ status[running] = "READY" /\ P1 = 1
         /\ 0 \in ToSet(readyQueue)
         /\ \A p \in ToSet(readyQueue) : p \in Procs /\ status[p] = "READY" /\ p # running
         /\ \A p \in ToSet(readyQueue) : priority[p] = (IF p = 0 THEN 0 ELSE 1)
<1>1. 0 \in ToSet(readyQueue)
  BY BootProcs DEF IInv, ListsMatchStatus, P0Last
<1>2. QED
  BY <1>1 DEF IInv, TypeOK, ListsMatchStatus, P0Last, FamilyOK

LEMMA KforkStep ==
  ASSUME IInv, Kfork
  PROVE  IInv' /\ Kernel!Create
<1> DEFINE p == Head(freeList)
<1>1. /\ freeList # <<>> /\ running # 0
      /\ freeList \in Seq(Procs) /\ IsInjective(freeList)
      /\ readyQueue \in Seq(Procs) /\ IsInjective(readyQueue)
      /\ SortedByPriority(priority, readyQueue)
      /\ priority \in [Procs -> Int]
  BY PriorityIsInt DEF IInv, TypeOK, ListsMatchStatus, P0Last, Kfork, AtPrompt
<1>2. /\ p \in Procs /\ Tail(freeList) \in Seq(Procs)
      /\ p \in ToSet(freeList)
      /\ IsInjective(Tail(freeList))
      /\ ToSet(Tail(freeList)) = ToSet(freeList) \ {p}
  BY <1>1, DequeueProperties
<1>3. status[p] = "FREE" /\ p # 0 /\ p # running /\ p \notin ToSet(readyQueue)
  BY <1>2 DEF IInv, ListsMatchStatus, P0Last
<1> HIDE DEF p
<1>4. /\ freeList' = Tail(freeList)
      /\ status' = [status EXCEPT ![p] = "READY"]
      /\ priority' = [priority EXCEPT ![p] = 1]
      /\ ppid' = [ppid EXCEPT ![p] = running]
      /\ readyQueue' = Enqueue(priority', readyQueue, p)
      /\ child' = [child EXCEPT ![running] = Append(@, p)]
      /\ UNCHANGED <<event, sleepList, running, P1, waiting>>
  BY DEF Kfork, p
<1>5. priority' \in [Procs -> {0, 1}] /\ priority' \in [Procs -> Int]
  <2>1. priority' \in [Procs -> {0, 1}]
    BY <1>4 DEF IInv, TypeOK
  <2>2. QED
    BY <2>1, PriorityIsInt
<1>6. SortedByPriority(priority', readyQueue)
  <2>1. \A x \in ToSet(readyQueue) : priority'[x] = priority[x]
    BY <1>3, <1>4 DEF IInv, TypeOK, ListsMatchStatus
  <2>2. QED
    BY <1>1, <2>1, SortedOfMembers
<1>7. /\ readyQueue' \in Seq(Procs)
      /\ ToSet(readyQueue') = ToSet(readyQueue) \cup {p}
      /\ IsInjective(readyQueue')
      /\ SortedByPriority(priority', readyQueue')
  <2> DEFINE q == Enqueue(priority', readyQueue, p)
  <2>1. /\ q \in Seq(Procs)
        /\ ToSet(q) = ToSet(readyQueue) \cup {p}
        /\ IsInjective(q)
        /\ SortedByPriority(priority', q)
    <3>1. /\ readyQueue \in Seq(Procs) /\ IsInjective(readyQueue)
          /\ p \in Procs /\ p \notin ToSet(readyQueue)
      BY <1>1, <1>2, <1>3
    <3>2. priority' \in [Procs -> Int]
      BY <1>5
    <3>3. QED
      BY <1>6, <3>1, <3>2, EnqueueSorted
  <2>2. QED
    BY <1>4, <2>1
<1>8. /\ running \in Procs /\ child[running] \in Seq(Procs)
      /\ \A x \in Procs : p \notin ToSet(child[x])
  BY <1>3 DEF IInv, TypeOK, FamilyOK
<1>9. /\ Append(child[running], p) \in Seq(Procs)
      /\ ToSet(Append(child[running], p)) = ToSet(child[running]) \cup {p}
      /\ IsInjective(Append(child[running], p))
  <2>1. IsInjective(child[running])
    BY <1>8 DEF IInv, FamilyOK
  <2>2. QED
    BY <1>2, <1>8, <2>1, AppendMembers
<1>10. TypeOK'
  BY <1>2, <1>4, <1>5, <1>7, <1>8, <1>9 DEF IInv, TypeOK, Status
<1>11. ListsMatchStatus'
  <2>1. ToSet(freeList') = {x \in Procs : status'[x] = "FREE"}
    BY <1>2, <1>4 DEF IInv, TypeOK, ListsMatchStatus
  <2>2. ToSet(readyQueue') = {x \in Procs : status'[x] = "READY"} \ {running'}
    <3>1. \A x \in Procs : status'[x] = (IF x = p THEN "READY" ELSE status[x])
      BY <1>4 DEF IInv, TypeOK
    <3>2. ToSet(readyQueue) = {x \in Procs : status[x] = "READY"} \ {running} /\ running' = running
      BY <1>4 DEF IInv, ListsMatchStatus
    <3>3. QED
      BY <1>2, <1>3, <1>7, <3>1, <3>2
  <2>3. ToSet(sleepList') = {x \in Procs : status'[x] = "SLEEP"}
    BY <1>2, <1>3, <1>4 DEF IInv, TypeOK, ListsMatchStatus
  <2>4. status'[running'] = "READY"
    BY <1>3, <1>4, <1>8 DEF IInv, TypeOK, ListsMatchStatus
  <2>5. QED
    BY <1>2, <1>4, <1>7, <2>1, <2>2, <2>3, <2>4 DEF IInv, ListsMatchStatus
<1>12. P0Last'
  BY <1>2, <1>3, <1>4, <1>7, BootProcs DEF IInv, TypeOK, P0Last
<1>13. FamilyOK'
  <2>1. ASSUME NEW x \in Procs
        PROVE  /\ IsInjective(child'[x])
               /\ \A c \in ToSet(child'[x]) : ppid'[c] = x /\ status'[c] # "FREE" /\ c # 0
    <3>1. CASE x = running
      <4>1. child'[x] = Append(child[running], p)
        BY <1>4, <1>8, <3>1 DEF IInv, TypeOK
      <4>2. QED
        BY <1>2, <1>3, <1>4, <1>8, <1>9, <3>1, <4>1 DEF IInv, TypeOK, FamilyOK
    <3>2. CASE x # running
      <4>1. child'[x] = child[x]
        BY <1>4, <3>2 DEF IInv, TypeOK
      <4>2. QED
        BY <1>4, <1>8, <4>1 DEF IInv, TypeOK, FamilyOK
    <3>3. QED
      BY <3>1, <3>2
  <2>2. QED
    BY <1>4, <2>1 DEF IInv, FamilyOK
<1>14. WaitCursorOK'
  <2> SUFFICES ASSUME NEW x \in Procs, waiting'[x] # NULL
               PROVE  waiting'[x] \in ToSet(child'[x]) /\ status'[x] \in {"SLEEP", "READY"}
    BY DEF WaitCursorOK
  <2>1. waiting[x] \in ToSet(child[x]) /\ status[x] \in {"SLEEP", "READY"}
    BY <1>4 DEF IInv, WaitCursorOK
  <2>2. ToSet(child[x]) \subseteq ToSet(child'[x])
    BY <1>4, <1>8, <1>9 DEF IInv, TypeOK
  <2>3. status'[x] \in {"SLEEP", "READY"}
    BY <1>4, <2>1 DEF IInv, TypeOK
  <2>4. QED
    BY <1>4, <2>1, <2>2, <2>3
<1>15. BeforeP1'
  BY <1>1, <1>4 DEF IInv, BeforeP1
<1>16. Kernel!Create
  <2>1. {x \in Procs : status'[x] = "ZOMBIE"} = {x \in Procs : status[x] = "ZOMBIE"}
    BY <1>2, <1>3, <1>4 DEF IInv, TypeOK
  <2>2. QED
    BY <1>2, <1>4, <1>7, <2>1 DEF Kernel!Create
<1>17. QED
  BY <1>10, <1>11, <1>12, <1>13, <1>14, <1>15, <1>16 DEF IInv

(***************************************************************************)
(* sleep(), called from the prompt (no cursor) or from wait() (one of the  *)
(* running process's children).                                            *)
(***************************************************************************)
LEMMA GoToSleepStep ==
  ASSUME IInv, running # 0, NEW e \in Int, GoToSleep(e),
         NEW w \in ToSet(child[running]) \cup {NULL},
         waiting' = [waiting EXCEPT ![running] = w],
         UNCHANGED <<priority, ppid, child, freeList>>
  PROVE  IInv' /\ Kernel!Block
<1>1. /\ running \in Procs /\ status[running] = "READY" /\ P1 = 1
      /\ 0 \in ToSet(readyQueue)
      /\ \A p \in ToSet(readyQueue) : p \in Procs /\ status[p] = "READY" /\ p # running
      /\ \A p \in ToSet(readyQueue) : priority[p] = (IF p = 0 THEN 0 ELSE 1)
  BY RunningFacts
<1>2. /\ event' = [event EXCEPT ![running] = e]
      /\ status' = [status EXCEPT ![running] = "SLEEP"]
      /\ sleepList' = Enqueue(priority, sleepList, running)
      /\ Dispatch(readyQueue)
  BY DEF GoToSleep
<1>3. /\ readyQueue \in Seq(Procs) /\ IsInjective(readyQueue)
      /\ SortedByPriority(priority, readyQueue)
      /\ priority \in [Procs -> {0, 1}] /\ priority \in [Procs -> Int]
      /\ sleepList \in Seq(Procs) /\ IsInjective(sleepList) /\ running \notin ToSet(sleepList)
  BY <1>1, PriorityIsInt DEF IInv, TypeOK, ListsMatchStatus, P0Last
<1>4. /\ running' \in ToSet(readyQueue) /\ running' \in Procs
      /\ readyQueue' \in Seq(Procs) /\ IsInjective(readyQueue')
      /\ ToSet(readyQueue') = ToSet(readyQueue) \ {running'}
      /\ SortedByPriority(priority, readyQueue')
      /\ running' = 0 => ToSet(readyQueue) = {0}
      /\ P1' = IF running' = 1 THEN 1 ELSE P1
  BY <1>1, <1>2, <1>3, DispatchProperties
<1>5. /\ sleepList' \in Seq(Procs)
      /\ ToSet(sleepList') = ToSet(sleepList) \cup {running}
      /\ IsInjective(sleepList')
  <2> DEFINE q == Enqueue(priority, sleepList, running)
  <2>1. /\ q \in Seq(Procs)
        /\ ToSet(q) = ToSet(sleepList) \cup {running}
        /\ IsInjective(q)
    BY <1>1, <1>3, EnqueueInjective
  <2>2. QED
    BY <1>2, <2>1
<1>6. ToSet(child[running]) \subseteq Procs
  BY <1>1 DEF IInv, TypeOK, ToSet
<1>7. TypeOK'
  BY <1>1, <1>2, <1>4, <1>5, <1>6 DEF IInv, TypeOK, Status
<1>8. ListsMatchStatus'
  <2>1. ToSet(freeList') = {x \in Procs : status'[x] = "FREE"}
    BY <1>1, <1>2 DEF IInv, TypeOK, ListsMatchStatus
  <2>2. ToSet(readyQueue') = {x \in Procs : status'[x] = "READY"} \ {running'}
    BY <1>1, <1>2, <1>4 DEF IInv, TypeOK, ListsMatchStatus
  <2>3. ToSet(sleepList') = {x \in Procs : status'[x] = "SLEEP"}
    BY <1>1, <1>2, <1>5 DEF IInv, TypeOK, ListsMatchStatus
  <2>4. status'[running'] = "READY"
    BY <1>1, <1>2, <1>4 DEF IInv, TypeOK
  <2>5. QED
    BY <1>4, <1>5, <2>1, <2>2, <2>3, <2>4 DEF IInv, ListsMatchStatus
<1>9. P0Last'
  BY <1>1, <1>2, <1>4, BootProcs DEF IInv, TypeOK, P0Last
<1>10. FamilyOK'
  BY <1>1, <1>2, <1>4 DEF IInv, TypeOK, FamilyOK
<1>11. WaitCursorOK'
  BY <1>1, <1>2 DEF IInv, TypeOK, WaitCursorOK
<1>12. BeforeP1'
  BY <1>1, <1>4 DEF BeforeP1, NULL
<1>13. Kernel!Block
  <2>1. {x \in Procs : status'[x] = "ZOMBIE"} = {x \in Procs : status[x] = "ZOMBIE"}
    BY <1>1, <1>2 DEF IInv, TypeOK
  <2>2. QED
    BY <1>4, <1>5, <2>1 DEF Kernel!Block, Kernel!Dispatch
<1>14. QED
  BY <1>7, <1>8, <1>9, <1>10, <1>11, <1>12, <1>13 DEF IInv

LEMMA SleepStep ==
  ASSUME IInv, Sleep
  PROVE  IInv' /\ Kernel!Block
<1>1. PICK e \in Events : GoToSleep(e)
  BY DEF Sleep
<1>2. running # 0 /\ waiting' = [waiting EXCEPT ![running] = NULL]
  BY DEF Sleep, AtPrompt, IInv, TypeOK
<1>3. e \in Int /\ UNCHANGED <<priority, ppid, child, freeList>>
  BY EventsAssumption DEF Sleep
<1>4. QED
  BY <1>1, <1>2, <1>3, GoToSleepStep

\* The child wait() looks at is one of the running process.
LEMMA ExaminedIsChild ==
  ASSUME IInv, InWait
  PROVE  /\ running # 0 /\ running \in Procs
         /\ child[running] \in Seq(Procs) /\ IsInjective(child[running])
         /\ Examined \in ToSet(child[running]) /\ Examined \in Procs
<1>1. /\ running # 0 /\ running \in Procs /\ child[running] # <<>>
      /\ child[running] \in Seq(Procs) /\ IsInjective(child[running])
  BY DEF InWait, IInv, TypeOK, FamilyOK
<1>2. Head(child[running]) \in ToSet(child[running])
  BY <1>1 DEF ToSet
<1>3. Examined \in ToSet(child[running])
  BY <1>1, <1>2 DEF Examined, IInv, WaitCursorOK
<1>4. QED
  BY <1>1, <1>3 DEF ToSet

LEMMA WaitSleepStep ==
  ASSUME IInv, WaitSleep
  PROVE  IInv' /\ Kernel!Block
<1>1. /\ running # 0 /\ running \in Procs
      /\ child[running] \in Seq(Procs)
      /\ Examined \in ToSet(child[running])
  BY ExaminedIsChild DEF WaitSleep
<1>2. NextChild(child[running], Examined) \in ToSet(child[running]) \cup {NULL}
  BY <1>1, NextChildProperties
<1>3. /\ GoToSleep(running) /\ running \in Int
      /\ waiting' = [waiting EXCEPT ![running] = NextChild(child[running], Examined)]
      /\ UNCHANGED <<priority, ppid, child, freeList>>
  BY <1>1 DEF WaitSleep, Procs
<1>4. QED
  BY <1>1, <1>2, <1>3, GoToSleepStep

LEMMA JesusStep ==
  ASSUME IInv, Jesus
  PROVE  IInv' /\ Kernel!Raise
<1> DEFINE all == [p \in 1 .. NPROC - 1 |-> p]
<1>1. /\ status' = [p \in Procs |-> IF p \in Zombies THEN "READY" ELSE status[p]]
      /\ readyQueue' = EnqueueEach(priority, readyQueue, all, Zombies)
      /\ UNCHANGED <<priority, ppid, event, child, freeList, sleepList, running, P1, waiting>>
      /\ running # 0
  BY DEF Jesus, AtPrompt
<1>2. /\ all \in Seq(Procs) /\ IsInjective(all) /\ ToSet(all) = Procs \ {0}
  <2>1. NPROC - 1 \in Nat /\ 1 .. NPROC - 1 \subseteq Procs
    BY NPROCAssumption DEF Procs
  <2>2. all \in Seq(Procs)
    BY <2>1
  <2>3. IsInjective(all)
    BY DEF IsInjective
  <2>4. ToSet(all) = 1 .. NPROC - 1
    BY DEF ToSet
  <2>5. QED
    BY <2>2, <2>3, <2>4, NPROCAssumption DEF Procs
<1> HIDE DEF all
<1>3. Zombies = {p \in Procs : status[p] = "ZOMBIE"}
  BY DEF Zombies, IInv, P0Last
<1>4. /\ priority \in [Procs -> Int] /\ readyQueue \in Seq(Procs)
      /\ IsInjective(readyQueue) /\ SortedByPriority(priority, readyQueue)
      /\ ToSet(readyQueue) \cap ToSet(all) \cap Zombies = {}
  BY <1>3, PriorityIsInt DEF IInv, TypeOK, ListsMatchStatus, P0Last
<1>5. /\ readyQueue' \in Seq(Procs)
      /\ ToSet(readyQueue') = ToSet(readyQueue) \cup Zombies
      /\ IsInjective(readyQueue') /\ SortedByPriority(priority, readyQueue')
  <2> DEFINE q == EnqueueEach(priority, readyQueue, all, Zombies)
  <2>1. /\ q \in Seq(Procs)
        /\ ToSet(q) = ToSet(readyQueue) \cup (ToSet(all) \cap Zombies)
        /\ IsInjective(q)
        /\ SortedByPriority(priority, q)
    BY <1>2, <1>4, EnqueueEachSorted
  <2>2. ToSet(all) \cap Zombies = Zombies
    BY <1>2 DEF Zombies
  <2>3. QED
    BY <1>1, <2>1, <2>2
<1>6. TypeOK'
  BY <1>1, <1>5 DEF IInv, TypeOK, Status
<1>7. ListsMatchStatus'
  BY <1>1, <1>3, <1>5 DEF IInv, TypeOK, ListsMatchStatus
<1>8. P0Last'
  BY <1>1, <1>3, <1>5, BootProcs DEF IInv, TypeOK, P0Last
<1>9. FamilyOK'
  <2>1. \A c \in Procs : status[c] # "FREE" => status'[c] # "FREE"
    BY <1>1
  <2>2. \A p \in Procs : ToSet(child[p]) \subseteq Procs
    BY DEF IInv, TypeOK, ToSet
  <2>3. QED
    BY <1>1, <2>1, <2>2 DEF IInv, FamilyOK
<1>10. WaitCursorOK'
  BY <1>1 DEF IInv, WaitCursorOK
<1>11. BeforeP1'
  BY <1>1 DEF IInv, BeforeP1
<1>12. Kernel!Raise
  <2>1. {p \in Procs : status'[p] = "ZOMBIE"} = {}
    BY <1>1, <1>3
  <2>2. QED
    BY <1>1, <1>3, <1>5, <2>1 DEF Kernel!Raise
<1>13. QED
  BY <1>6, <1>7, <1>8, <1>9, <1>10, <1>11, <1>12 DEF IInv

(***************************************************************************)
(* wakeup() on its own.                                                    *)
(***************************************************************************)
LEMMA WakeupStep ==
  ASSUME IInv, Wakeup
  PROVE  IInv' /\ Kernel!Wake
<1>1. PICK e \in Events :
        /\ status' = StatusAfterWakeup(status, e)
        /\ sleepList' = SleepAfterWakeup(e)
        /\ readyQueue' = ReadyAfterWakeup(e)
  BY DEF Wakeup
<1>2. /\ UNCHANGED <<priority, ppid, event, child, freeList, running, P1, waiting>>
      /\ running # 0
  BY DEF Wakeup, AtPrompt
<1> DEFINE W == Woken(e)
<1>3. /\ W \subseteq ToSet(sleepList) /\ W \subseteq Procs
      /\ \A p \in W : status[p] = "SLEEP" /\ p # 0 /\ p # running
      /\ readyQueue' \in Seq(Procs)
      /\ ToSet(readyQueue') = ToSet(readyQueue) \cup W
      /\ IsInjective(readyQueue')
      /\ SortedByPriority(priority, readyQueue')
      /\ sleepList' \in Seq(Procs)
      /\ ToSet(sleepList') = ToSet(sleepList) \ W
      /\ IsInjective(sleepList')
  BY <1>1, WakeupProperties
<1>4. \A p \in Procs : status'[p] = IF p \in W THEN "READY" ELSE status[p]
  BY <1>1 DEF StatusAfterWakeup
<1>5. status' \in [Procs -> Status]
  BY <1>1 DEF StatusAfterWakeup, IInv, TypeOK, Status
<1> HIDE DEF W
<1>6. TypeOK'
  BY <1>2, <1>3, <1>5 DEF IInv, TypeOK
<1>7. ListsMatchStatus'
  <2>1. ToSet(freeList') = {x \in Procs : status'[x] = "FREE"}
    BY <1>2, <1>3, <1>4 DEF IInv, ListsMatchStatus
  <2>2. ToSet(readyQueue') = {x \in Procs : status'[x] = "READY"} \ {running'}
    BY <1>2, <1>3, <1>4 DEF IInv, ListsMatchStatus
  <2>3. ToSet(sleepList') = {x \in Procs : status'[x] = "SLEEP"}
    BY <1>2, <1>3, <1>4 DEF IInv, ListsMatchStatus
  <2>4. status'[running'] = "READY"
    BY <1>2, <1>3, <1>4 DEF IInv, TypeOK, ListsMatchStatus
  <2>5. QED
    BY <1>2, <1>3, <2>1, <2>2, <2>3, <2>4 DEF IInv, ListsMatchStatus
<1>8. P0Last'
  BY <1>2, <1>3, <1>4, BootProcs DEF IInv, P0Last
<1>9. FamilyOK'
  <2>1. \A p \in Procs : ToSet(child[p]) \subseteq Procs
    BY DEF IInv, TypeOK, ToSet
  <2>2. QED
    BY <1>2, <1>4, <2>1 DEF IInv, FamilyOK
<1>10. WaitCursorOK'
  BY <1>2, <1>4 DEF IInv, WaitCursorOK
<1>11. BeforeP1'
  BY <1>2 DEF IInv, BeforeP1
<1>12. Kernel!Wake
  <2>1. {p \in Procs : status'[p] = "ZOMBIE"} = {p \in Procs : status[p] = "ZOMBIE"}
    BY <1>3, <1>4
  <2>2. QED
    BY <1>2, <1>3, <2>1 DEF Kernel!Wake
<1>13. QED
  BY <1>6, <1>7, <1>8, <1>9, <1>10, <1>11, <1>12 DEF IInv

(***************************************************************************)
(* kexit(): the families after the children have been given away, or not.  *)
(***************************************************************************)
LEMMA AdoptionKeepsFamilies ==
  ASSUME IInv, Kexit
  PROVE  /\ child' \in [Procs -> Seq(Procs)] /\ ppid' \in [Procs -> Procs]
         /\ \A x \in Procs :
              /\ IsInjective(child'[x])
              /\ \A c \in ToSet(child'[x]) :
                   c \in Procs /\ ppid'[c] = x /\ status[c] # "FREE" /\ c # 0
         /\ \A x \in Procs \ {running} : ToSet(child[x]) \subseteq ToSet(child'[x])
<1>1. /\ running # 0 /\ running # 1 /\ running \in Procs /\ P1 = 1 /\ 1 \in Procs
      /\ ppid' = [p \in Procs |-> IF p \in Adopted THEN P1 ELSE ppid[p]]
      /\ child' = IF Adopted = {} THEN child
                  ELSE [child EXCEPT ![P1] = @ \o child[running], ![running] = <<>>]
  BY RunningFacts, BootProcs DEF Kexit, AtPrompt
<1>2. \A x \in Procs :
        /\ child[x] \in Seq(Procs) /\ IsInjective(child[x])
        /\ \A c \in ToSet(child[x]) :
             c \in Procs /\ ppid[c] = x /\ status[c] # "FREE" /\ c # 0
  <2>1. \A x \in Procs : child[x] \in Seq(Procs) /\ ToSet(child[x]) \subseteq Procs
    BY DEF IInv, TypeOK, ToSet
  <2>2. QED
    BY <2>1 DEF IInv, FamilyOK
<1>3. ppid \in [Procs -> Procs] /\ child \in [Procs -> Seq(Procs)]
  BY DEF IInv, TypeOK
<1>4. ppid' \in [Procs -> Procs]
  BY <1>1, <1>3
<1>5. CASE Adopted = {}
  <2>1. child' = child /\ \A p \in Procs : ppid'[p] = ppid[p]
    BY <1>1, <1>5
  <2>2. QED
    BY <1>2, <1>3, <1>4, <2>1
<1>6. CASE Adopted # {}
  <2> DEFINE all == child[1] \o child[running]
  <2>1. Adopted = ToSet(child[running])
    BY <1>6 DEF Adopted
  <2>2. /\ all \in Seq(Procs)
        /\ ToSet(all) = ToSet(child[1]) \cup ToSet(child[running])
        /\ IsInjective(all)
    <3>1. ToSet(child[1]) \cap ToSet(child[running]) = {}
      BY <1>1, <1>2
    <3>2. QED
      BY <1>1, <1>2, <3>1, ConcatMembers
  <2> HIDE DEF all
  <2>3. child' = [child EXCEPT ![1] = all, ![running] = <<>>]
    BY <1>1, <1>3, <1>6 DEF all
  <2>4. /\ child'[1] = all /\ child'[running] = <<>>
        /\ \A x \in Procs \ {1, running} : child'[x] = child[x]
    BY <1>1, <1>3, <2>3
  <2>5. child' \in [Procs -> Seq(Procs)]
    <3>1. <<>> \in Seq(Procs)
      OBVIOUS
    <3>2. [child EXCEPT ![1] = all] \in [Procs -> Seq(Procs)]
      BY <1>3, <2>2
    <3>3. QED
      BY <2>3, <3>1, <3>2
  <2>6. \A p \in Procs : ppid'[p] = IF p \in ToSet(child[running]) THEN 1 ELSE ppid[p]
    BY <1>1, <2>1
  <2>7. ASSUME NEW x \in Procs
        PROVE  /\ IsInjective(child'[x])
               /\ \A c \in ToSet(child'[x]) :
                    c \in Procs /\ ppid'[c] = x /\ status[c] # "FREE" /\ c # 0
    <3>1. CASE x = 1
      <4>1. IsInjective(child'[x])
        BY <2>2, <2>4, <3>1
      <4>2. ASSUME NEW c \in ToSet(all)
            PROVE  c \in Procs /\ ppid'[c] = 1 /\ status[c] # "FREE" /\ c # 0
        <5>1. CASE c \in ToSet(child[1])
          BY <1>1, <1>2, <2>6, <5>1
        <5>2. CASE c \in ToSet(child[running])
          BY <1>1, <1>2, <2>6, <5>2
        <5>3. QED
          BY <2>2, <5>1, <5>2
      <4>3. QED
        BY <2>4, <3>1, <4>1, <4>2
    <3>2. CASE x = running
      BY <2>4, <3>2 DEF IsInjective, ToSet
    <3>3. CASE x \notin {1, running}
      <4>1. child'[x] = child[x]
        BY <2>4, <3>3
      <4>2. ASSUME NEW c \in ToSet(child[x])
            PROVE  c \in Procs /\ ppid'[c] = x /\ status[c] # "FREE" /\ c # 0
        <5>1. c \in Procs /\ ppid[c] = x
          BY <1>2
        <5>2. c \notin ToSet(child[running])
          BY <1>1, <1>2, <3>3, <5>1
        <5>3. QED
          BY <1>2, <2>6, <5>1, <5>2
      <4>3. IsInjective(child[x])
        BY <1>2
      <4>4. QED
        BY <4>1, <4>2, <4>3
    <3>4. QED
      BY <3>1, <3>2, <3>3
  <2>8. \A x \in Procs \ {running} : ToSet(child[x]) \subseteq ToSet(child'[x])
    BY <1>1, <2>2, <2>4
  <2>9. QED
    BY <1>4, <2>5, <2>7, <2>8
<1>7. QED
  BY <1>5, <1>6

LEMMA KexitStep ==
  ASSUME IInv, Kexit
  PROVE  IInv' /\ Kernel!Die
<1> DEFINE e == ppid'[running]
           W == Woken(e)
           q == ReadyAfterWakeup(e)
<1>1. /\ running # 0 /\ running # 1 /\ waiting[running] = NULL
      /\ status' = StatusAfterWakeup([status EXCEPT ![running] = "ZOMBIE"], e)
      /\ sleepList' = SleepAfterWakeup(e)
      /\ Dispatch(q)
      /\ UNCHANGED <<priority, event, freeList, waiting>>
  BY DEF Kexit, AtPrompt
<1>2. /\ running \in Procs /\ status[running] = "READY" /\ P1 = 1
      /\ 0 \in ToSet(readyQueue)
      /\ \A p \in ToSet(readyQueue) : p \in Procs /\ status[p] = "READY" /\ p # running
      /\ \A p \in ToSet(readyQueue) : priority[p] = (IF p = 0 THEN 0 ELSE 1)
  BY <1>1, RunningFacts
<1>3. /\ W \subseteq ToSet(sleepList) /\ W \subseteq Procs
      /\ \A p \in W : status[p] = "SLEEP" /\ p # 0 /\ p # running
      /\ q \in Seq(Procs) /\ IsInjective(q)
      /\ ToSet(q) = ToSet(readyQueue) \cup W
      /\ SortedByPriority(priority, q)
      /\ sleepList' \in Seq(Procs)
      /\ ToSet(sleepList') = ToSet(sleepList) \ W
      /\ IsInjective(sleepList')
  BY <1>1, WakeupProperties
<1>4. \A p \in ToSet(q) : priority[p] = (IF p = 0 THEN 0 ELSE 1)
  BY <1>2, <1>3 DEF IInv, P0Last
<1>5. /\ status' \in [Procs -> Status]
      /\ \A p \in Procs : status'[p] = IF p = running THEN "ZOMBIE"
                                       ELSE IF p \in W THEN "READY" ELSE status[p]
  <2>1. \A p \in Procs : status'[p] = IF p = running THEN "ZOMBIE"
                                       ELSE IF p \in W THEN "READY" ELSE status[p]
    BY <1>1, <1>2, <1>3 DEF StatusAfterWakeup, IInv, TypeOK
  <2>2. status' = [p \in Procs |-> status'[p]]
    BY <1>1 DEF StatusAfterWakeup
  <2>3. \A p \in Procs : status'[p] \in Status
    BY <2>1 DEF IInv, TypeOK, Status
  <2>4. QED
    BY <2>1, <2>2, <2>3
<1>6. UNCHANGED <<priority, event, freeList, waiting>> /\ Dispatch(q)
  BY <1>1
<1> HIDE DEF q, W, e
<1>7. /\ running' \in ToSet(q) /\ running' \in Procs
      /\ readyQueue' \in Seq(Procs) /\ IsInjective(readyQueue')
      /\ ToSet(readyQueue') = ToSet(q) \ {running'}
      /\ SortedByPriority(priority, readyQueue')
      /\ running' = 0 => ToSet(q) = {0}
      /\ P1' = IF running' = 1 THEN 1 ELSE P1
  BY <1>2, <1>3, <1>4, <1>6, DispatchProperties DEF IInv, TypeOK
<1>8. /\ child' \in [Procs -> Seq(Procs)] /\ ppid' \in [Procs -> Procs]
      /\ \A x \in Procs :
           /\ IsInjective(child'[x])
           /\ \A c \in ToSet(child'[x]) :
                c \in Procs /\ ppid'[c] = x /\ status[c] # "FREE" /\ c # 0
      /\ \A x \in Procs \ {running} : ToSet(child[x]) \subseteq ToSet(child'[x])
  BY AdoptionKeepsFamilies
<1>9. TypeOK'
  BY <1>2, <1>3, <1>5, <1>6, <1>7, <1>8 DEF IInv, TypeOK
<1>10. ListsMatchStatus'
  <2>1. ToSet(freeList') = {x \in Procs : status'[x] = "FREE"}
    BY <1>2, <1>3, <1>5, <1>6 DEF IInv, ListsMatchStatus
  <2>2. ToSet(readyQueue') = {x \in Procs : status'[x] = "READY"} \ {running'}
    BY <1>2, <1>3, <1>5, <1>7 DEF IInv, ListsMatchStatus
  <2>3. ToSet(sleepList') = {x \in Procs : status'[x] = "SLEEP"}
    BY <1>2, <1>3, <1>5 DEF IInv, ListsMatchStatus
  <2>4. status'[running'] = "READY"
    BY <1>2, <1>3, <1>5, <1>7
  <2>5. QED
    BY <1>3, <1>6, <1>7, <2>1, <2>2, <2>3, <2>4 DEF IInv, ListsMatchStatus
<1>11. P0Last'
  BY <1>1, <1>2, <1>3, <1>5, <1>6, <1>7, BootProcs, ZenonT(60) DEF IInv, P0Last
<1>12. FamilyOK'
  <2>1. \A c \in Procs : status[c] # "FREE" => status'[c] # "FREE"
    BY <1>5
  <2>2. \A x \in Procs :
          /\ IsInjective(child'[x])
          /\ \A c \in ToSet(child'[x]) : ppid'[c] = x /\ status'[c] # "FREE" /\ c # 0
    BY <1>8, <2>1
  <2>3. P1' = 1
    BY <1>2, <1>7
  <2>4. QED
    BY <2>2, <2>3 DEF FamilyOK
<1>13. WaitCursorOK'
  <2> SUFFICES ASSUME NEW x \in Procs, waiting'[x] # NULL
               PROVE  waiting'[x] \in ToSet(child'[x]) /\ status'[x] \in {"SLEEP", "READY"}
    BY DEF WaitCursorOK
  <2>1. x # running /\ waiting[x] \in ToSet(child[x]) /\ status[x] \in {"SLEEP", "READY"}
    BY <1>1, <1>6 DEF IInv, WaitCursorOK
  <2>2. QED
    BY <1>5, <1>6, <1>8, <2>1
<1>14. BeforeP1'
  BY <1>2, <1>7 DEF BeforeP1, NULL
<1>15. Kernel!Die
  <2>1. {x \in Procs : status'[x] = "ZOMBIE"} = {x \in Procs : status[x] = "ZOMBIE"} \cup {running}
    BY <1>2, <1>3, <1>5
  <2>2. Kernel!Dispatch(ToSet(readyQueue) \cup W)
    BY <1>3, <1>7 DEF Kernel!Dispatch
  <2>3. ToSet(freeList') = ToSet(freeList)
    BY <1>6
  <2>4. QED
    BY <1>1, <1>3, <2>1, <2>2, <2>3 DEF Kernel!Die
<1>16. QED
  BY <1>9, <1>10, <1>11, <1>12, <1>13, <1>14, <1>15 DEF IInv

LEMMA WaitBuryStep ==
  ASSUME IInv, WaitBury
  PROVE  IInv' /\ Kernel!Bury
<1> DEFINE c == Examined
           e == ppid'[running]
           W == Woken(e)
<1>1. /\ running # 0 /\ running \in Procs
      /\ child[running] \in Seq(Procs) /\ IsInjective(child[running])
      /\ c \in ToSet(child[running]) /\ c \in Procs
  BY ExaminedIsChild DEF WaitBury
<1>2. /\ status[c] = "ZOMBIE"
      /\ child' = [child EXCEPT ![running] = Letgo(@, c)]
      /\ ppid' = [ppid EXCEPT ![c] = 0]
      /\ freeList' = Enqueue(priority, freeList, c)
      /\ status' = StatusAfterWakeup([status EXCEPT ![c] = "FREE"], e)
      /\ sleepList' = SleepAfterWakeup(e)
      /\ readyQueue' = ReadyAfterWakeup(e)
      /\ waiting' = [waiting EXCEPT ![running] = NULL]
      /\ UNCHANGED <<priority, event, running, P1>>
  BY DEF WaitBury, FoundZombie
<1>3. c # running /\ c # 0 /\ ppid[c] = running
  BY <1>1, <1>2 DEF IInv, ListsMatchStatus, P0Last, FamilyOK
<1>4. /\ W \subseteq ToSet(sleepList) /\ W \subseteq Procs
      /\ \A p \in W : status[p] = "SLEEP" /\ p # 0 /\ p # running
      /\ readyQueue' \in Seq(Procs)
      /\ ToSet(readyQueue') = ToSet(readyQueue) \cup W
      /\ IsInjective(readyQueue')
      /\ SortedByPriority(priority, readyQueue')
      /\ sleepList' \in Seq(Procs)
      /\ ToSet(sleepList') = ToSet(sleepList) \ W
      /\ IsInjective(sleepList')
  BY <1>2, WakeupProperties
<1>5. c \notin W
  BY <1>2, <1>4
<1>6. /\ status' \in [Procs -> Status]
      /\ \A p \in Procs : status'[p] = IF p = c THEN "FREE"
                                       ELSE IF p \in W THEN "READY" ELSE status[p]
  <2>1. \A p \in Procs : status'[p] = IF p = c THEN "FREE"
                                       ELSE IF p \in W THEN "READY" ELSE status[p]
    BY <1>1, <1>2, <1>5 DEF StatusAfterWakeup, IInv, TypeOK
  <2>2. status' = [p \in Procs |-> status'[p]]
    BY <1>2 DEF StatusAfterWakeup
  <2>3. \A p \in Procs : status'[p] \in Status
    BY <2>1 DEF IInv, TypeOK, Status
  <2>4. QED
    BY <2>1, <2>2, <2>3
<1> HIDE DEF c, W, e
<1>7. /\ freeList' \in Seq(Procs)
      /\ ToSet(freeList') = ToSet(freeList) \cup {c}
      /\ IsInjective(freeList')
  <2> DEFINE q == Enqueue(priority, freeList, c)
  <2>1. /\ freeList \in Seq(Procs) /\ IsInjective(freeList) /\ c \notin ToSet(freeList)
        /\ priority \in [Procs -> Int]
    BY <1>2, PriorityIsInt DEF IInv, TypeOK, ListsMatchStatus
  <2>2. /\ q \in Seq(Procs)
        /\ ToSet(q) = ToSet(freeList) \cup {c}
        /\ IsInjective(q)
    BY <1>1, <2>1, EnqueueInjective
  <2>3. QED
    BY <1>2, <2>2
<1>8. /\ Letgo(child[running], c) \in Seq(Procs)
      /\ ToSet(Letgo(child[running], c)) \subseteq ToSet(child[running]) \ {c}
      /\ IsInjective(Letgo(child[running], c))
  BY <1>1, LetgoProperties
<1>9. /\ child'[running] = Letgo(child[running], c)
      /\ \A x \in Procs \ {running} : child'[x] = child[x]
      /\ child' \in [Procs -> Seq(Procs)]
  BY <1>1, <1>2, <1>8 DEF IInv, TypeOK
<1>10. TypeOK'
  <2>1. ppid' \in [Procs -> Procs] /\ waiting' \in [Procs -> Procs \cup {NULL}]
    BY <1>1, <1>2, BootProcs DEF IInv, TypeOK
  <2>2. QED
    BY <1>2, <1>4, <1>6, <1>7, <1>9, <2>1 DEF IInv, TypeOK
<1>11. ListsMatchStatus'
  <2>1. ToSet(freeList') = {x \in Procs : status'[x] = "FREE"}
    BY <1>1, <1>4, <1>6, <1>7 DEF IInv, ListsMatchStatus
  <2>2. ToSet(readyQueue') = {x \in Procs : status'[x] = "READY"} \ {running'}
    BY <1>1, <1>2, <1>4, <1>6 DEF IInv, ListsMatchStatus
  <2>3. ToSet(sleepList') = {x \in Procs : status'[x] = "SLEEP"}
    BY <1>1, <1>2, <1>4, <1>6 DEF IInv, ListsMatchStatus
  <2>4. status'[running'] = "READY"
    BY <1>1, <1>2, <1>3, <1>4, <1>6 DEF IInv, ListsMatchStatus
  <2>5. QED
    BY <1>4, <1>7, <2>1, <2>2, <2>3, <2>4 DEF ListsMatchStatus
<1>12. P0Last'
  BY <1>2, <1>3, <1>4, <1>6, BootProcs DEF IInv, P0Last
<1>13. FamilyOK'
  <2>1. ASSUME NEW x \in Procs
        PROVE  /\ ToSet(child'[x]) \subseteq ToSet(child[x]) \ {c}
               /\ IsInjective(child'[x])
    <3>1. CASE x = running
      BY <1>8, <1>9, <3>1
    <3>2. CASE x # running
      BY <1>3, <1>9, <3>2 DEF IInv, FamilyOK
    <3>3. QED
      BY <3>1, <3>2
  <2>2. ASSUME NEW x \in Procs, NEW y \in ToSet(child'[x])
        PROVE  ppid'[y] = x /\ status'[y] # "FREE" /\ y # 0
    <3>1. y # c /\ y \in ToSet(child[x])
      BY <2>1
    <3>2. y \in Procs
      BY <3>1 DEF IInv, TypeOK, ToSet
    <3>3. ppid[y] = x /\ status[y] # "FREE" /\ y # 0
      BY <3>1 DEF IInv, FamilyOK
    <3>4. QED
      BY <1>2, <1>6, <3>1, <3>2, <3>3 DEF IInv, TypeOK
  <2>3. QED
    BY <1>2, <2>1, <2>2 DEF IInv, FamilyOK
<1>14. WaitCursorOK'
  <2> SUFFICES ASSUME NEW x \in Procs, waiting'[x] # NULL
               PROVE  waiting'[x] \in ToSet(child'[x]) /\ status'[x] \in {"SLEEP", "READY"}
    BY DEF WaitCursorOK
  <2>1. x # running /\ waiting'[x] = waiting[x]
    BY <1>1, <1>2 DEF IInv, TypeOK
  <2>2. waiting[x] \in ToSet(child[x]) /\ status[x] \in {"SLEEP", "READY"}
    BY <2>1 DEF IInv, WaitCursorOK
  <2>3. QED
    BY <1>2, <1>6, <1>9, <2>1, <2>2
<1>15. BeforeP1'
  BY <1>1, <1>2 DEF IInv, BeforeP1
<1>16. Kernel!Bury
  <2>1. /\ c \in {x \in Procs : status[x] = "ZOMBIE"}
        /\ {x \in Procs : status'[x] = "ZOMBIE"} = {x \in Procs : status[x] = "ZOMBIE"} \ {c}
    BY <1>1, <1>2, <1>4, <1>6
  <2>2. QED
    BY <1>2, <1>4, <1>7, <2>1 DEF Kernel!Bury
<1>17. QED
  BY <1>10, <1>11, <1>12, <1>13, <1>14, <1>15, <1>16 DEF IInv

-----------------------------------------------------------------------------
(* The theorems.                                                           *)

LEMMA NextStep ==
  ASSUME IInv, [Next]_vars
  PROVE  IInv' /\ [Kernel!Next]_(Kernel!vars)
<1>1. CASE P0Switch
  <2>1. /\ Dispatch(Enqueue(priority, readyQueue, running))
        /\ UNCHANGED <<status, priority, ppid, event, child, freeList, sleepList, waiting>>
    BY <1>1 DEF P0Switch
  <2>2. QED
    BY <2>1, YieldStep DEF Kernel!Next
<1>2. CASE Kfork
  BY <1>2, KforkStep DEF Kernel!Next
<1>3. CASE Switch
  <2>1. /\ Dispatch(Enqueue(priority, readyQueue, running))
        /\ UNCHANGED <<status, priority, ppid, event, child, freeList, sleepList, waiting>>
    BY <1>3 DEF Switch
  <2>2. QED
    BY <2>1, YieldStep DEF Kernel!Next
<1>4. CASE Kexit
  BY <1>4, KexitStep DEF Kernel!Next
<1>5. CASE Jesus
  BY <1>5, JesusStep DEF Kernel!Next
<1>6. CASE Sleep
  BY <1>6, SleepStep DEF Kernel!Next
<1>7. CASE Wakeup
  BY <1>7, WakeupStep DEF Kernel!Next
<1>8. CASE WaitBury
  BY <1>8, WaitBuryStep DEF Kernel!Next
<1>9. CASE WaitSleep
  BY <1>9, WaitSleepStep DEF Kernel!Next
<1>10. CASE UNCHANGED vars
  BY <1>10 DEF vars, IInv, TypeOK, ListsMatchStatus, P0Last, FamilyOK, WaitCursorOK,
               BeforeP1, Kernel!vars
<1>11. QED
  BY <1>1, <1>2, <1>3, <1>4, <1>5, <1>6, <1>7, <1>8, <1>9, <1>10 DEF Next

(***************************************************************************)
(* For every number of PROCs and every set of events: the lists hold what  *)
(* the statuses say and P0 is always there to be scheduled, so neither     *)
(* queue.c nor scheduler() ever follows a wrong or a NULL pointer.         *)
(***************************************************************************)
THEOREM ListsInvariant == Spec => []KernelOK
<1>1. Init => IInv
  BY InitImpliesIInv
<1>2. IInv /\ [Next]_vars => IInv'
  BY NextStep
<1>3. IInv => KernelOK
  BY DEF IInv, KernelOK
<1>4. QED
  BY <1>1, <1>2, <1>3, PTL DEF Spec

(***************************************************************************)
(* For every number of PROCs and every set of events: the child lists are  *)
(* disjoint lists of children, and the pointer a blocked wait() holds      *)
(* still points into its owner's list when wait() uses it again.           *)
(***************************************************************************)
THEOREM FamilyInvariant == Spec => [](FamilyOK /\ WaitCursorOK)
<1>1. Init => IInv
  BY InitImpliesIInv
<1>2. IInv /\ [Next]_vars => IInv'
  BY NextStep
<1>3. IInv => FamilyOK /\ WaitCursorOK
  BY DEF IInv
<1>4. QED
  BY <1>1, <1>2, <1>3, PTL DEF Spec

(***************************************************************************)
(* In particular, the child that wait() looks at next, after any sleep, is *)
(* still one of the waiting process's own (wait.c:92-96).                  *)
(***************************************************************************)
THEOREM WaitCursorInvariant == Spec => []WaitCursorOK
<1>1. FamilyOK /\ WaitCursorOK => WaitCursorOK
  OBVIOUS
<1>2. QED
  BY FamilyInvariant, <1>1, PTL

(***************************************************************************)
(* For every number of PROCs and every set of events the kernel implements *)
(* CooperativeKernel.                                                      *)
(***************************************************************************)
THEOREM Refinement == Spec => ImplementsKernel
<1>1. Init => IInv /\ Kernel!Init
  BY InitImpliesIInv
<1>2. IInv /\ [Next]_vars => IInv' /\ [Kernel!Next]_(Kernel!vars)
  BY NextStep
<1>3. QED
  BY <1>1, <1>2, PTL DEF Spec, ImplementsKernel, Kernel!Spec

\* The status each step gives to each process.
LEMMA OnlyTheBuriedAreFreed ==
  ASSUME IInv, Next, NEW p \in Procs, status[p] # "FREE", status'[p] = "FREE"
  PROVE  status[p] = "ZOMBIE" /\ ppid[p] = running
<1>1. CASE P0Switch \/ Switch
  BY <1>1 DEF P0Switch, Switch
<1>2. CASE Kfork
  BY <1>2 DEF Kfork, IInv, TypeOK
<1>3. CASE Kexit
  BY <1>3 DEF Kexit, StatusAfterWakeup, IInv, TypeOK
<1>4. CASE Jesus
  BY <1>4 DEF Jesus
<1>5. CASE Sleep \/ WaitSleep
  BY <1>5 DEF Sleep, WaitSleep, GoToSleep, IInv, TypeOK
<1>6. CASE Wakeup
  BY <1>6 DEF Wakeup, StatusAfterWakeup
<1>7. CASE WaitBury
  <2>1. Examined \in ToSet(child[running]) /\ running \in Procs /\ status[Examined] = "ZOMBIE"
    BY <1>7, ExaminedIsChild DEF WaitBury, FoundZombie
  <2>2. p = Examined
    BY <1>7 DEF WaitBury, StatusAfterWakeup, IInv, TypeOK
  <2>3. QED
    BY <2>1, <2>2 DEF IInv, FamilyOK
<1>8. QED
  BY <1>1, <1>2, <1>3, <1>4, <1>5, <1>6, <1>7 DEF Next

(***************************************************************************)
(* For every number of PROCs and every set of events: nobody but its       *)
(* parent frees a process, and only a dead one.                            *)
(***************************************************************************)
THEOREM BurialTheorem == Spec => BuriedByParent
<1> DEFINE Step == \A p \in Procs :
                     status[p] # "FREE" /\ status'[p] = "FREE"
                       => status[p] = "ZOMBIE" /\ ppid[p] = running
<1>1. Init => IInv
  BY InitImpliesIInv
<1>2. IInv /\ [Next]_vars => IInv'
  BY NextStep
<1>3. IInv /\ [Next]_vars => [Step]_vars
  <2>1. ASSUME IInv, Next PROVE Step
    BY <2>1, OnlyTheBuriedAreFreed
  <2>2. QED
    BY <2>1
<1>4. QED
  BY <1>1, <1>2, <1>3, PTL DEF Spec, BuriedByParent

LEMMA OnlyTheRunningDies ==
  ASSUME IInv, Next, NEW p \in Procs, status[p] # "ZOMBIE", status'[p] = "ZOMBIE"
  PROVE  Kexit /\ p = running
<1>1. CASE P0Switch \/ Switch
  BY <1>1 DEF P0Switch, Switch
<1>2. CASE Kfork
  BY <1>2 DEF Kfork, IInv, TypeOK
<1>3. CASE Kexit
  BY <1>3 DEF Kexit, StatusAfterWakeup, IInv, TypeOK
<1>4. CASE Jesus
  BY <1>4 DEF Jesus
<1>5. CASE Sleep \/ WaitSleep
  BY <1>5 DEF Sleep, WaitSleep, GoToSleep, IInv, TypeOK
<1>6. CASE Wakeup
  BY <1>6 DEF Wakeup, StatusAfterWakeup
<1>7. CASE WaitBury
  BY <1>7 DEF WaitBury, StatusAfterWakeup, IInv, TypeOK
<1>8. QED
  BY <1>1, <1>2, <1>3, <1>4, <1>5, <1>6, <1>7 DEF Next

(***************************************************************************)
(* For every number of PROCs and every set of events: the death of a       *)
(* process never leaves its parent asleep on the event wait() sleeps on.   *)
(***************************************************************************)
THEOREM DeathTheorem == Spec => DeathWakesParent
<1> DEFINE Step == \A p \in Procs :
                     status[p] # "ZOMBIE" /\ status'[p] = "ZOMBIE"
                       => LET parent == ppid[p] IN
                            ~ (status'[parent] = "SLEEP" /\ event'[parent] = parent)
<1>1. Init => IInv
  BY InitImpliesIInv
<1>2. IInv /\ [Next]_vars => IInv'
  BY NextStep
<1>3. ASSUME IInv, Next, NEW p \in Procs, status[p] # "ZOMBIE", status'[p] = "ZOMBIE"
      PROVE  ~ (status'[ppid[p]] = "SLEEP" /\ event'[ppid[p]] = ppid[p])
  <2>1. Kexit /\ p = running
    BY <1>3, OnlyTheRunningDies
  <2> DEFINE parent == ppid[p]
             e == ppid'[p]
  <2>2. /\ e = IF p \in Adopted THEN P1 ELSE parent
        /\ \A x \in Procs : status'[x] = IF x \in Woken(e) THEN "READY"
                                         ELSE IF x = p THEN "ZOMBIE" ELSE status[x]
        /\ event' = event
    BY <1>3, <2>1 DEF Kexit, StatusAfterWakeup, IInv, TypeOK
  <2>3. parent \in Procs
    BY <1>3 DEF IInv, TypeOK
  <2>4. CASE p \in Adopted
    <3>1. parent = p
      BY <1>3, <2>1, <2>4 DEF Adopted, IInv, FamilyOK
    <3>2. QED
      BY <1>3, <3>1
  <2>5. CASE p \notin Adopted
    <3> SUFFICES ASSUME status'[parent] = "SLEEP", event'[parent] = parent
                 PROVE  FALSE
      OBVIOUS
    <3>1. status[parent] = "SLEEP" /\ parent \notin Woken(e)
      BY <1>3, <2>2, <2>3
    <3>2. parent \in Woken(e)
      BY <1>3, <2>2, <2>3, <2>5, <3>1 DEF Woken, IInv, ListsMatchStatus
    <3>3. QED
      BY <3>1, <3>2
  <2>6. QED
    BY <2>4, <2>5
<1>4. IInv /\ [Next]_vars => [Step]_vars
  BY <1>3
<1>5. QED
  BY <1>1, <1>2, <1>4, PTL DEF Spec, DeathWakesParent

=============================================================================
