----------------------------- MODULE MTX1Proofs -----------------------------
(***************************************************************************)
(* Proofs about the first kernel, for every number of PROCs.               *)
(***************************************************************************)
EXTENDS MTX1, PriorityQueueProofs

IInv == TypeOK /\ ListsMatchStatus /\ P0Last

LEMMA PriorityIsInt ==
  ASSUME NEW f \in [Procs -> {0, 1}]
  PROVE  f \in [Procs -> Int]
OBVIOUS

LEMMA BootProcs == 0 \in Procs /\ 1 \in Procs
BY NPROCAssumption DEF Procs

(***************************************************************************)
(* scheduler() picks a member of the queue, P0 only when it is alone.      *)
(***************************************************************************)
LEMMA DispatchProperties ==
  ASSUME NEW q \in Seq(Procs), IsInjective(q), 0 \in ToSet(q),
         priority \in [Procs -> {0, 1}],
         SortedByPriority(priority, q),
         \A p \in ToSet(q) : priority[p] = (IF p = 0 THEN 0 ELSE 1),
         Dispatch(q)
  PROVE  /\ running' \in ToSet(q) /\ running' \in Procs
         /\ readyQueue' \in Seq(Procs) /\ IsInjective(readyQueue')
         /\ ToSet(readyQueue') = ToSet(q) \ {running'}
         /\ SortedByPriority(priority, readyQueue')
         /\ running' = 0 => ToSet(q) = {0}
<1>1. q # <<>>
  BY DEF ToSet
<1>2. running' = Head(q) /\ readyQueue' = Tail(q)
  BY <1>1 DEF Dispatch
<1>3. priority \in [Procs -> Int]
  BY PriorityIsInt
<1>4. /\ Head(q) \in Procs /\ Tail(q) \in Seq(Procs)
      /\ Head(q) \in ToSet(q)
      /\ IsInjective(Tail(q))
      /\ ToSet(Tail(q)) = ToSet(q) \ {Head(q)}
      /\ SortedByPriority(priority, Tail(q))
      /\ \A p \in ToSet(q) : priority[p] <= priority[Head(q)]
  BY <1>1, <1>3, DequeueProperties
<1>5. Head(q) = 0 => ToSet(q) = {0}
  BY <1>4
<1>6. QED
  BY <1>2, <1>4, <1>5

(***************************************************************************)
(* tswitch() of a process that stays READY.                                *)
(***************************************************************************)
LEMMA YieldProperties ==
  ASSUME IInv, Dispatch(Enqueue(priority, readyQueue, running)),
         UNCHANGED <<status, priority, freeList>>
  PROVE  IInv' /\ Kernel!Yield
<1> DEFINE q == Enqueue(priority, readyQueue, running)
<1>1. priority \in [Procs -> Int]
  BY PriorityIsInt DEF IInv, TypeOK
<1>2. /\ readyQueue \in Seq(Procs) /\ running \in Procs
      /\ running \notin ToSet(readyQueue) /\ IsInjective(readyQueue)
      /\ SortedByPriority(priority, readyQueue)
  BY DEF IInv, TypeOK, ListsMatchStatus, P0Last
<1>3. /\ q \in Seq(Procs)
      /\ ToSet(q) = ToSet(readyQueue) \cup {running}
      /\ IsInjective(q)
      /\ SortedByPriority(priority, q)
  BY <1>1, <1>2, EnqueueSorted
<1>4. ToSet(q) = {p \in Procs : status[p] = "READY"}
  BY <1>3 DEF IInv, TypeOK, ListsMatchStatus
<1>5. 0 \in ToSet(q) /\ \A p \in ToSet(q) : priority[p] = (IF p = 0 THEN 0 ELSE 1)
  BY <1>4, NPROCAssumption DEF IInv, P0Last, Procs
<1> HIDE DEF q
<1>6. /\ running' \in ToSet(q) /\ running' \in Procs
      /\ readyQueue' \in Seq(Procs) /\ IsInjective(readyQueue')
      /\ ToSet(readyQueue') = ToSet(q) \ {running'}
      /\ SortedByPriority(priority, readyQueue')
      /\ running' = 0 => ToSet(q) = {0}
  BY <1>3, <1>5, DispatchProperties DEF IInv, TypeOK, q
<1>7. TypeOK'
  BY <1>6 DEF IInv, TypeOK
<1>8. ListsMatchStatus'
  BY <1>4, <1>6 DEF IInv, ListsMatchStatus
<1>9. P0Last'
  BY <1>6 DEF IInv, P0Last
<1>10. Kernel!Yield
  BY <1>3, <1>6 DEF Kernel!Yield, Kernel!Dispatch
<1>11. QED
  BY <1>7, <1>8, <1>9, <1>10 DEF IInv

LEMMA InitImpliesIInv == Init => IInv
<1> SUFFICES ASSUME Init PROVE IInv
  OBVIOUS
<1>1. NPROC \in Nat /\ NPROC >= 2 /\ 0 \in Procs /\ 1 \in Procs
  BY NPROCAssumption DEF Procs
<1>2. freeList \in Seq(Procs) /\ Len(freeList) = NPROC - 2 /\ DOMAIN freeList = 1 .. NPROC - 2
  BY <1>1 DEF Init, Procs
<1>3. TypeOK
  BY <1>1, <1>2 DEF Init, TypeOK, Status
<1>4. ToSet(freeList) = Procs \ {0, 1}
  <2>1. ToSet(freeList) = {i + 1 : i \in 1 .. NPROC - 2}
    BY DEF Init, ToSet
  <2>2. \A p \in Procs \ {0, 1} : p - 1 \in 1 .. NPROC - 2 /\ (p - 1) + 1 = p
    BY <1>1 DEF Procs
  <2>3. QED
    BY <1>1, <2>1, <2>2 DEF Procs
<1>5. ToSet(readyQueue) = {1} /\ IsInjective(readyQueue) /\ SortedByPriority(priority, readyQueue)
  BY DEF Init, ToSet, IsInjective, SortedByPriority
<1>6. IsInjective(freeList)
  BY <1>1 DEF Init, IsInjective
<1>7. ListsMatchStatus
  BY <1>1, <1>4, <1>5, <1>6 DEF Init, ListsMatchStatus
<1>8. P0Last
  BY <1>1, <1>5 DEF Init, P0Last
<1>9. QED
  BY <1>3, <1>7, <1>8 DEF IInv

LEMMA KforkStep ==
  ASSUME IInv, Kfork
  PROVE  IInv' /\ Kernel!Create
<1> DEFINE p == Head(freeList)
<1>1. /\ freeList # <<>> /\ running \in Procs /\ running # p
      /\ freeList \in Seq(Procs) /\ IsInjective(freeList)
      /\ readyQueue \in Seq(Procs) /\ IsInjective(readyQueue)
      /\ SortedByPriority(priority, readyQueue)
  <2>1. freeList # <<>> /\ p \in ToSet(freeList)
    BY DequeueProperties, PriorityIsInt DEF IInv, TypeOK, Kfork
  <2>2. QED
    BY <2>1 DEF IInv, TypeOK, ListsMatchStatus, P0Last
<1>2. priority \in [Procs -> Int]
  BY PriorityIsInt DEF IInv, TypeOK
<1>3. /\ p \in Procs /\ Tail(freeList) \in Seq(Procs)
      /\ p \in ToSet(freeList)
      /\ IsInjective(Tail(freeList))
      /\ ToSet(Tail(freeList)) = ToSet(freeList) \ {p}
  BY <1>1, <1>2, DequeueProperties
<1>4. status[p] = "FREE" /\ p # 0
  BY <1>3 DEF IInv, ListsMatchStatus, P0Last
<1>5. p \notin ToSet(readyQueue)
  BY <1>4 DEF IInv, ListsMatchStatus
<1> HIDE DEF p
<1>6. /\ freeList' = Tail(freeList)
      /\ status' = [status EXCEPT ![p] = "READY"]
      /\ priority' = [priority EXCEPT ![p] = 1]
      /\ readyQueue' = Enqueue(priority', readyQueue, p)
      /\ running' = running
  BY DEF Kfork, p
<1>7. priority' \in [Procs -> {0, 1}] /\ priority' \in [Procs -> Int]
  <2>1. priority' \in [Procs -> {0, 1}]
    BY <1>6 DEF IInv, TypeOK
  <2>2. QED
    BY <2>1, PriorityIsInt
<1>8. \A x \in ToSet(readyQueue) : priority'[x] = priority[x]
  BY <1>5, <1>6 DEF IInv, TypeOK, ListsMatchStatus
<1>9. SortedByPriority(priority', readyQueue)
  BY <1>1, <1>8, SortedOfMembers
<1>10. /\ readyQueue' \in Seq(Procs)
       /\ ToSet(readyQueue') = ToSet(readyQueue) \cup {p}
       /\ IsInjective(readyQueue')
       /\ SortedByPriority(priority', readyQueue')
  <2> DEFINE q == Enqueue(priority', readyQueue, p)
  <2>1. /\ q \in Seq(Procs)
        /\ ToSet(q) = ToSet(readyQueue) \cup {p}
        /\ IsInjective(q)
        /\ SortedByPriority(priority', q)
    BY <1>1, <1>3, <1>5, <1>7, <1>9, EnqueueSorted
  <2>2. QED
    BY <1>6, <2>1
<1>11. TypeOK'
  BY <1>1, <1>3, <1>6, <1>7, <1>10 DEF IInv, TypeOK, Status
<1>12. ListsMatchStatus'
  <2>1. ToSet(freeList') = {x \in Procs : status'[x] = "FREE"}
    BY <1>3, <1>6 DEF IInv, TypeOK, ListsMatchStatus
  <2>2. ToSet(readyQueue') = {x \in Procs : status'[x] = "READY"} \ {running'}
    BY <1>1, <1>3, <1>6, <1>10, ZenonT(60) DEF IInv, TypeOK, ListsMatchStatus
  <2>3. status'[running'] = "READY"
    BY <1>1, <1>6 DEF IInv, TypeOK, ListsMatchStatus
  <2>4. QED
    BY <1>3, <1>6, <1>10, <2>1, <2>2, <2>3 DEF ListsMatchStatus
<1>13. P0Last'
  BY <1>3, <1>4, <1>6, <1>10 DEF IInv, TypeOK, P0Last
<1>14. Kernel!Create
  <2>1. {x \in Procs : status'[x] = "ZOMBIE"} = {x \in Procs : status[x] = "ZOMBIE"}
    BY <1>3, <1>4, <1>6 DEF IInv, TypeOK
  <2>2. QED
    BY <1>3, <1>6, <1>10, <2>1 DEF Kernel!Create
<1>15. QED
  BY <1>11, <1>12, <1>13, <1>14 DEF IInv

LEMMA KexitStep ==
  ASSUME IInv, Kexit
  PROVE  IInv' /\ Kernel!Die
<1>1. /\ running # 0 /\ running \in Procs
      /\ status' = [status EXCEPT ![running] = "ZOMBIE"]
      /\ priority' = priority /\ freeList' = freeList
      /\ Dispatch(readyQueue)
  BY DEF Kexit, AtPrompt, IInv, TypeOK
<1>2. 0 \in ToSet(readyQueue)
  BY <1>1, NPROCAssumption DEF IInv, ListsMatchStatus, P0Last, Procs
<1>3. \A p \in ToSet(readyQueue) : priority[p] = (IF p = 0 THEN 0 ELSE 1)
  BY DEF IInv, ListsMatchStatus, P0Last
<1>4. /\ running' \in ToSet(readyQueue) /\ running' \in Procs
      /\ readyQueue' \in Seq(Procs) /\ IsInjective(readyQueue')
      /\ ToSet(readyQueue') = ToSet(readyQueue) \ {running'}
      /\ SortedByPriority(priority, readyQueue')
      /\ running' = 0 => ToSet(readyQueue) = {0}
  BY <1>1, <1>2, <1>3, DispatchProperties DEF IInv, TypeOK, ListsMatchStatus, P0Last
<1>5. TypeOK'
  BY <1>1, <1>4 DEF IInv, TypeOK, Status
<1>6. ListsMatchStatus'
  BY <1>1, <1>4 DEF IInv, TypeOK, ListsMatchStatus
<1>7. P0Last'
  BY <1>1, <1>4, BootProcs DEF IInv, TypeOK, P0Last
<1>8. Kernel!Die
  <2>1. {x \in Procs : status'[x] = "ZOMBIE"} = {x \in Procs : status[x] = "ZOMBIE"} \cup {running}
    BY <1>1 DEF IInv, TypeOK
  <2>2. QED
    BY <1>1, <1>4, <2>1 DEF Kernel!Die, Kernel!Dispatch
<1>9. QED
  BY <1>5, <1>6, <1>7, <1>8 DEF IInv

LEMMA JesusStep ==
  ASSUME IInv, Jesus
  PROVE  IInv' /\ Kernel!Raise
<1> DEFINE all == [p \in 1 .. NPROC - 1 |-> p]
<1>1. /\ status' = [p \in Procs |-> IF p \in Zombies THEN "READY" ELSE status[p]]
      /\ readyQueue' = EnqueueEach(priority, readyQueue, all, Zombies)
      /\ UNCHANGED <<priority, freeList, running>>
  BY DEF Jesus
<1>2. /\ all \in Seq(Procs) /\ IsInjective(all) /\ ToSet(all) = Procs \ {0}
  <2>1. NPROC - 1 \in Nat /\ 1 .. NPROC - 1 \subseteq Procs
    BY NPROCAssumption DEF Procs
  <2>2. all \in Seq(Procs)
    BY <2>1
  <2>3. IsInjective(all)
    BY DEF IsInjective
  <2>4. ToSet(all) = 1 .. NPROC - 1
    BY DEF ToSet
  <2>5. QED
    BY <2>2, <2>3, <2>4, NPROCAssumption DEF Procs
<1> HIDE DEF all
<1>3. Zombies = {p \in Procs : status[p] = "ZOMBIE"}
  BY DEF Zombies, IInv, P0Last
<1>4. /\ priority \in [Procs -> Int] /\ readyQueue \in Seq(Procs)
      /\ IsInjective(readyQueue) /\ SortedByPriority(priority, readyQueue)
      /\ ToSet(readyQueue) \cap ToSet(all) \cap Zombies = {}
  BY <1>3, PriorityIsInt DEF IInv, TypeOK, ListsMatchStatus, P0Last
<1>5. /\ readyQueue' \in Seq(Procs)
      /\ ToSet(readyQueue') = ToSet(readyQueue) \cup (ToSet(all) \cap Zombies)
      /\ IsInjective(readyQueue') /\ SortedByPriority(priority, readyQueue')
  <2> DEFINE q == EnqueueEach(priority, readyQueue, all, Zombies)
  <2>1. /\ q \in Seq(Procs)
        /\ ToSet(q) = ToSet(readyQueue) \cup (ToSet(all) \cap Zombies)
        /\ IsInjective(q)
        /\ SortedByPriority(priority, q)
    BY <1>2, <1>4, EnqueueEachSorted
  <2>2. QED
    BY <1>1, <2>1
<1>6. ToSet(readyQueue') = ToSet(readyQueue) \cup Zombies
  BY <1>2, <1>5 DEF Zombies
<1>7. TypeOK'
  BY <1>1, <1>5 DEF IInv, TypeOK, Status
<1>8. ListsMatchStatus'
  BY <1>1, <1>3, <1>5, <1>6 DEF IInv, TypeOK, ListsMatchStatus
<1>9. P0Last'
  BY <1>1, <1>3, <1>5, BootProcs DEF IInv, TypeOK, P0Last
<1>10. Kernel!Raise
  <2>1. {p \in Procs : status'[p] = "ZOMBIE"} = {}
    BY <1>1, <1>3
  <2>2. ToSet(freeList') = ToSet(freeList)
    BY <1>1
  <2>3. QED
    BY <1>1, <1>3, <1>6, <2>1, <2>2 DEF Kernel!Raise
<1>11. QED
  BY <1>7, <1>8, <1>9, <1>10 DEF IInv

LEMMA NextStep ==
  ASSUME IInv, [Next]_vars
  PROVE  IInv' /\ [Kernel!Next]_(Kernel!vars)
<1>1. CASE P0Switch
  <2>1. Dispatch(Enqueue(priority, readyQueue, running)) /\ UNCHANGED <<status, priority, freeList>>
    BY <1>1 DEF P0Switch
  <2>2. QED
    BY <2>1, YieldProperties DEF Kernel!Next
<1>2. CASE Kfork
  BY <1>2, KforkStep DEF Kernel!Next
<1>3. CASE Switch
  <2>1. Dispatch(Enqueue(priority, readyQueue, running)) /\ UNCHANGED <<status, priority, freeList>>
    BY <1>3 DEF Switch
  <2>2. QED
    BY <2>1, YieldProperties DEF Kernel!Next
<1>4. CASE Kexit
  BY <1>4, KexitStep DEF Kernel!Next
<1>5. CASE Jesus
  BY <1>5, JesusStep DEF Kernel!Next
<1>6. CASE UNCHANGED vars
  BY <1>6 DEF vars, IInv, TypeOK, ListsMatchStatus, P0Last, Kernel!vars
<1>7. QED
  BY <1>1, <1>2, <1>3, <1>4, <1>5, <1>6 DEF Next

(***************************************************************************)
(* For every number of PROCs: every PROC is in the list its status names   *)
(* and in no other one (queue.c would otherwise tie two lists together).   *)
(***************************************************************************)
THEOREM Invariant == Spec => []KernelOK
<1>1. Init => IInv
  BY InitImpliesIInv
<1>2. IInv /\ [Next]_vars => IInv'
  BY NextStep
<1>3. IInv => KernelOK
  BY DEF IInv, KernelOK
<1>4. QED
  BY <1>1, <1>2, <1>3, PTL DEF Spec

(***************************************************************************)
(* For every number of PROCs the kernel implements CooperativeKernel.      *)
(***************************************************************************)
THEOREM Refinement == Spec => ImplementsKernel
<1>1. Init => Kernel!Init
  <2> SUFFICES ASSUME Init PROVE Kernel!Init
    OBVIOUS
  <2>1. IInv
    BY InitImpliesIInv
  <2>2. ToSet(readyQueue) = {1}
    BY DEF Init, ToSet
  <2>3. {p \in Procs : status[p] = "ZOMBIE"} = {}
    BY DEF Init
  <2>4. ToSet(freeList) = Procs \ {0, 1}
    BY <2>1 DEF Init, IInv, ListsMatchStatus
  <2>5. QED
    BY <2>2, <2>3, <2>4 DEF Init, Kernel!Init
<1>2. Init => IInv
  BY InitImpliesIInv
<1>3. IInv /\ [Next]_vars => IInv' /\ [Kernel!Next]_(Kernel!vars)
  BY NextStep
<1>4. QED
  BY <1>1, <1>2, <1>3, PTL DEF Spec, ImplementsKernel, Kernel!Spec

=============================================================================
