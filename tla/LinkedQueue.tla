----------------------------- MODULE LinkedQueue -----------------------------
(***************************************************************************)
(* queue.c of the kernels (the two copies are the same) at the level of    *)
(* its pointers: every PROC has one next pointer, every list a head, and   *)
(* the lists share the PROCs.  enqueue is called with a PROC that is in no *)
(* list, whose next pointer still is what its last list left in it.        *)
(***************************************************************************)
EXTENDS Integers, FiniteSets, PriorityQueue

CONSTANTS
  Procs,    \* the PROCs
  Lists,    \* the heads: &freeList, &readyQueue, &sleepList, &temp
  Prio,     \* Prio[p]: PROC.priority
  NULL

ASSUME ProcsAssumption == IsFiniteSet(Procs) /\ NULL \notin Procs
ASSUME PrioAssumption  == Prio \in [Procs -> Nat]

VARIABLES
  next,     \* next[p]: PROC.next
  head      \* head[l]: the head pointer of list l

vars == <<next, head>>

After(nxt, q) == IF q = NULL THEN NULL ELSE nxt[q]

\* The list that starts at p; one that loops is cut off, longer than any that does not.
Chain(nxt, p) ==
  LET node[i \in 1 .. Cardinality(Procs) + 1] == IF i = 1 THEN p ELSE After(nxt, node[i - 1])
      inList == {i \in 1 .. Cardinality(Procs) + 1 : node[i] # NULL}
  IN  [i \in 1 .. Cardinality(inList) |-> node[i]]

Contents(l) == Chain(next, head[l])

Init ==
  /\ next = [p \in Procs |-> NULL]
  /\ head = [l \in Lists |-> NULL]

\* The first PROC of the list from q on whose next is in R.
FirstBefore(q, R) ==
  LET s == Chain(next, q) IN s[Min({i \in DOMAIN s : next[s[i]] \in R})]

\* Fault: the new PROC goes before those of the same priority.
LastAbove(q, p) == FirstBefore(q, {NULL} \cup {r \in Procs : Prio[p] >= Prio[r]})

\* The while loop of enqueue: the PROC to insert p behind.
LastBefore(q, p) == FirstBefore(q, {NULL} \cup {r \in Procs : Prio[p] > Prio[r]})

EnqueueFirst(l, p) ==
  /\ head' = [head EXCEPT ![l] = p]
  /\ next' = [next EXCEPT ![p] = head[l]]

\* Fault: the two assignments in the other order.
EnqueueBehindSwapped(q, p) ==
  /\ next' = [next EXCEPT ![q] = p, ![p] = p]
  /\ UNCHANGED head

EnqueueBehind(q, p) ==
  /\ next' = [next EXCEPT ![p] = next[q], ![q] = p]
  /\ UNCHANGED head

enqueue(l, p) ==
  IF head[l] = NULL \/ Prio[p] > Prio[head[l]]
    THEN EnqueueFirst(l, p)
    ELSE EnqueueBehind(LastBefore(head[l], p), p)

\* dequeue of an empty list returns NULL and changes nothing.
dequeue(l) ==
  /\ head[l] # NULL
  /\ head' = [head EXCEPT ![l] = next[head[l]]]
  /\ UNCHANGED next

Next ==
  \/ \E l \in Lists, p \in Procs \ UNION {ToSet(Contents(k)) : k \in Lists} :
        enqueue(l, p)
  \/ \E l \in Lists : dequeue(l)

Spec == Init /\ [][Next]_vars

-----------------------------------------------------------------------------
(***************************************************************************)
(* No list runs into another one or into itself: the walks of enqueue      *)
(* (queue.c:19) and of every print loop end.                               *)
(***************************************************************************)
ListsApart ==
  \A l, k \in Lists :
    LET s == Contents(l) IN
      /\ s # <<>> => next[Last(s)] = NULL
      /\ l # k => ToSet(s) \cap ToSet(Contents(k)) = {}

\* The pointer code does to each list what PriorityQueue says, and no more.
Queues == INSTANCE SequenceQueues WITH queue <- [l \in Lists |-> Contents(l)]

ImplementsQueues == Queues!Spec

=============================================================================
