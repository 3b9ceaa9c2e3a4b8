--------------------------- MODULE SequenceQueues ---------------------------
(***************************************************************************)
(* What the users of queue.c rely on: the PROCs are in lists, a PROC in at *)
(* most one of them, and enqueue and dequeue act on one list at a time as  *)
(* module PriorityQueue says.                                              *)
(***************************************************************************)
EXTENDS PriorityQueue

CONSTANTS Procs, Lists, Prio

VARIABLE queue    \* queue[l]: the PROCs of list l, head first

Queued == UNION {ToSet(queue[l]) : l \in Lists}

Init == queue = [l \in Lists |-> <<>>]

Enq == \E l \in Lists, p \in Procs \ Queued :
         queue' = [queue EXCEPT ![l] = Enqueue(Prio, @, p)]

Deq == \E l \in Lists :
         /\ queue[l] # <<>>
         /\ queue' = [queue EXCEPT ![l] = Tail(@)]

Spec == Init /\ [][Enq \/ Deq]_queue

=============================================================================
