--------------------------- MODULE PriorityQueue ---------------------------
(***************************************************************************)
(* The operations of the kernels' queue.c on a list of PROCs, as operators *)
(* on the sequence that the list's next pointers spell out, head first.    *)
(* An element is a PROC; prio[p] is its priority field.                    *)
(* Module LinkedQueue shows that the pointer code does this to the lists.  *)
(***************************************************************************)
EXTENDS Naturals, Sequences, SequencesExt

(***************************************************************************)
(* Where enqueue puts p: behind the longest prefix of q whose priorities   *)
(* are all at least p's, which is where the pointer walk stops.            *)
(***************************************************************************)
Slot(prio, q, p) ==
  CHOOSE i \in 1 .. Len(q) + 1 :
    /\ \A j \in 1 .. i - 1 : prio[q[j]] >= prio[p]
    /\ i <= Len(q) => prio[q[i]] < prio[p]

\* Faults of Enqueue: the priority is not looked at; the newest goes first.
EnqueueAtTail(prio, q, p)  == Append(q, p)
EnqueueInFront(prio, q, p) == <<p>> \o q

Enqueue(prio, q, p) == InsertAt(q, Slot(prio, q, p), p)

(***************************************************************************)
(* The kernels' loops "for each PROC of s in turn, enqueue it if ...":     *)
(* the members of s that are in W, enqueued one by one.                    *)
(***************************************************************************)
EnqueueEach(prio, q, s, W) ==
  LET after[i \in 0 .. Len(s)] ==
        IF i = 0 THEN q
        ELSE IF s[i] \in W THEN Enqueue(prio, after[i - 1], s[i])
        ELSE after[i - 1]
  IN  after[Len(s)]

\* The order a list built by enqueue alone is in.
SortedByPriority(prio, q) ==
  \A i, j \in 1 .. Len(q) : i < j => prio[q[i]] >= prio[q[j]]

=============================================================================
