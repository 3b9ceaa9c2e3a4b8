-------------------------------- MODULE MTX1 --------------------------------
(***************************************************************************)
(* The first multitasking kernel, src/pre-Lab3/MTX1 (t.c, queue.c, ts.s):  *)
(* fork, switch, exit and jesus.  A process that exits stays a ZOMBIE      *)
(* until a jesus revives it; nobody waits for it and no PROC is freed.     *)
(* Processes, lists and steps are represented as in module MTX2; ppid is   *)
(* only printed here and left out.                                         *)
(***************************************************************************)
EXTENDS Integers, PriorityQueue

CONSTANT NPROC    \* number of PROCs

ASSUME NPROCAssumption == NPROC \in Nat /\ NPROC >= 2

Procs  == 0 .. NPROC - 1
NULL   == -1
Status == {"FREE", "READY", "ZOMBIE"}

VARIABLES
  status,       \* status[p]: PROC.status
  priority,     \* priority[p]: PROC.priority
  freeList,     \* the free PROCs
  readyQueue,   \* the priority queue of READY PROCs
  running       \* the running PROC

vars == <<status, priority, freeList, readyQueue, running>>

\* main() has called init() and kfork(): P0 runs, P1 is ready.
Init ==
  /\ status = [p \in Procs |-> IF p \in {0, 1} THEN "READY" ELSE "FREE"]
  /\ priority = [p \in Procs |-> IF p = 1 THEN 1 ELSE 0]
  /\ freeList = [i \in 1 .. NPROC - 2 |-> i + 1]
  /\ readyQueue = <<1>>
  /\ running = 0

\* The end of scheduler(), with q the ready queue it dequeues from.
Dispatch(q) ==
  /\ running' = IF q = <<>> THEN NULL ELSE Head(q)
  /\ readyQueue' = IF q = <<>> THEN q ELSE Tail(q)

\* main(): P0 switches whenever some process is ready, and spins if none.
P0Switch ==
  /\ running = 0
  /\ readyQueue # <<>>
  /\ Dispatch(Enqueue(priority, readyQueue, 0))
  /\ UNCHANGED <<status, priority, freeList>>

\* body(): every process but P0 is at the prompt while it runs.
AtPrompt == running # 0

\* kfork(): without a free PROC it fails and changes nothing.
Kfork ==
  /\ AtPrompt
  /\ freeList # <<>>
  /\ LET p == Head(freeList) IN
       /\ freeList' = Tail(freeList)
       /\ status' = [status EXCEPT ![p] = "READY"]
       /\ priority' = [priority EXCEPT ![p] = 1]
       /\ readyQueue' = Enqueue(priority', readyQueue, p)
  /\ UNCHANGED running

Switch ==
  /\ AtPrompt
  /\ Dispatch(Enqueue(priority, readyQueue, running))
  /\ UNCHANGED <<status, priority, freeList>>

Kexit ==
  /\ AtPrompt
  /\ status' = [status EXCEPT ![running] = "ZOMBIE"]
  /\ Dispatch(readyQueue)
  /\ UNCHANGED <<priority, freeList>>

\* Fault: the loop of do_jesus() stops one PROC short.
ZombiesButLast == {p \in 1 .. NPROC - 2 : status[p] = "ZOMBIE"}

\* do_jesus(): every ZOMBIE, in pid order, becomes ready to run again.
Zombies == {p \in Procs \ {0} : status[p] = "ZOMBIE"}

Jesus ==
  /\ AtPrompt
  /\ status' = [p \in Procs |-> IF p \in Zombies THEN "READY" ELSE status[p]]
  /\ readyQueue' = EnqueueEach(priority, readyQueue, [p \in 1 .. NPROC - 1 |-> p], Zombies)
  /\ UNCHANGED <<priority, freeList, running>>

Next == P0Switch \/ Kfork \/ Switch \/ Kexit \/ Jesus

Spec == Init /\ [][Next]_vars

\* The operator keeps entering commands, and some of them do something.
FairSpec == Spec /\ WF_vars(Next)

-----------------------------------------------------------------------------
TypeOK ==
  /\ status \in [Procs -> Status]
  /\ priority \in [Procs -> {0, 1}]
  /\ freeList \in Seq(Procs)
  /\ readyQueue \in Seq(Procs)
  /\ running \in Procs

(***************************************************************************)
(* A process is in the list its status names, once, and in no other one,   *)
(* so its one next pointer never has to link two lists.                    *)
(***************************************************************************)
ListsMatchStatus ==
  /\ IsInjective(freeList) /\ IsInjective(readyQueue)
  /\ ToSet(freeList) = {p \in Procs : status[p] = "FREE"}
  /\ ToSet(readyQueue) = {p \in Procs : status[p] = "READY"} \ {running}
  /\ status[running] = "READY"

(***************************************************************************)
(* P0 never leaves READY, so scheduler() (t.c:184) never dequeues a NULL   *)
(* running; the ready queue is in priority order, P0 behind all others.    *)
(***************************************************************************)
P0Last ==
  /\ status[0] = "READY"
  /\ \A p \in Procs : status[p] # "FREE" => priority[p] = (IF p = 0 THEN 0 ELSE 1)
  /\ SortedByPriority(priority, readyQueue)

(***************************************************************************)
(* The kernel's tables are in order: what every list operation and every   *)
(* tswitch() of the code takes for granted of the PROCs and lists it finds.*)
(***************************************************************************)
KernelOK == TypeOK /\ ListsMatchStatus /\ P0Last

\* Every ready process but P0 runs eventually.
ReadyRuns ==
  \A p \in Procs \ {0} : (status[p] = "READY") ~> (running = p)

\* This kernel, too, is a CooperativeKernel, one in which nobody sleeps.
Kernel == INSTANCE CooperativeKernel WITH
  Idle <- 0, First <- 1,
  free <- ToSet(freeList), ready <- ToSet(readyQueue),
  asleep <- {}, zombie <- {p \in Procs : status[p] = "ZOMBIE"}

ImplementsKernel == Kernel!Spec

=============================================================================
