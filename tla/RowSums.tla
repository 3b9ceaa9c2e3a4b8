------------------------------ MODULE RowSums ------------------------------
(***************************************************************************)
(* The matrix sum of pre-Lab4/C4-1.c: main() adds the rows up alone, then  *)
(* has one thread a row do it, each adding its row to total under a mutex, *)
(* joins them and adds the array sum, which nobody has written.            *)
(* An int wraps (the row sums of the program's matrix do not fit in one);  *)
(* it is taken as the nonnegative number that is the same modulo Wrap.     *)
(***************************************************************************)
EXTENDS Integers

CONSTANTS
  M,        \* rows, and threads: 0 .. M-1
  Wrap,     \* an int counts modulo Wrap
  Row       \* what the elements of each row add up to

VARIABLES
  total, \* the global
  m,     \* the mutex: the thread that holds it, or Nobody
  temp,  \* each thread's local
  pc,    \* where each thread is
  main,  \* where main is
  i,     \* main's loop variable
  alone  \* what sumSequential() returned
vars == <<total, m, temp, pc, main, i, alone>>

Threads == 0 .. M - 1
Nobody  == M
Words   == 0 .. Wrap - 1

\* What the program's macros, its matrix and the machine's int are.
SizesOK == {M, Wrap} \subseteq Nat \ {0} /\ Row \in [Threads -> Words]

\* The sum of two ints.
Add(a, b) == IF a + b < Wrap THEN a + b ELSE a + b - Wrap

Init ==
  /\ total = 0 /\ alone = 0
  /\ m = Nobody
  /\ temp = [t \in Threads |-> 0]
  /\ pc = [t \in Threads |-> "none"]
  /\ main = "sequential" /\ i = 0

-----------------------------------------------------------------------------
(* main().                                                                 *)

\* One turn of a loop over the rows; after the last one main goes on to next.
Turn(next) == IF i + 1 < M THEN i' = i + 1 /\ main' = main ELSE i' = 0 /\ main' = next

\* sumSequential(): a row is added; after the last, sumThread() starts from 0.
Sequential ==
  /\ main = "sequential" /\ Turn("create")
  /\ IF i + 1 < M THEN total' = Add(total, Row[i]) /\ alone' = alone
                  ELSE total' = 0 /\ alone' = Add(total, Row[i])
  /\ UNCHANGED <<m, temp, pc>>

Create ==
  /\ main = "create" /\ Turn("join")
  /\ pc' = [pc EXCEPT ![i] = "compute"]
  /\ UNCHANGED <<total, m, temp, alone>>

\* pthread_join(thread[i]).  sum[i], which is added afterwards, is 0.
Join ==
  /\ main = "join" /\ pc[i] = "exit" /\ Turn("done")
  /\ UNCHANGED <<total, m, temp, pc, alone>>

-----------------------------------------------------------------------------
(* func(): the thread of row t.                                            *)

Goto(t, from, to) == pc[t] = from /\ pc' = [pc EXCEPT ![t] = to]

Lock(t) ==
  /\ Goto(t, "compute", "load")
  /\ m = Nobody /\ m' = t
  /\ UNCHANGED <<total, temp, main, i, alone>>

Load(t) ==
  /\ Goto(t, "load", "sleep")
  /\ temp' = [temp EXCEPT ![t] = Add(total, Row[t])]
  /\ UNCHANGED <<total, m, main, i, alone>>

\* After sleep(1), in which any other thread may run.
Store(t) ==
  /\ Goto(t, "sleep", "unlock")
  /\ total' = temp[t]
  /\ UNCHANGED <<m, temp, main, i, alone>>

Unlock(t) ==
  /\ Goto(t, "unlock", "exit")
  /\ m' = Nobody
  /\ UNCHANGED <<total, temp, main, i, alone>>

Thread(t) == Lock(t) \/ Load(t) \/ Store(t) \/ Unlock(t)

Next == Sequential \/ Create \/ Join \/ \E t \in Threads : Thread(t)

Spec == Init /\ [][Next]_vars

-----------------------------------------------------------------------------
(***************************************************************************)
(* No update is lost: between a thread's read of total and its write, no   *)
(* other thread has written, so what it is about to write is the total of  *)
(* now and its row (C4-1.c:28-33).                                         *)
(***************************************************************************)
NoLostUpdate == \A t \in Threads : pc[t] = "sleep" => temp[t] = Add(total, Row[t])

(***************************************************************************)
(* The threads' total is the one that main computed alone, whatever order  *)
(* they took the mutex in and although an int wraps.                       *)
(***************************************************************************)
TotalsAgree == main = "done" => total = alone

=============================================================================
