-------------------------------- MODULE MTX2 --------------------------------
(***************************************************************************)
(* The multitasking kernel of src/pre-Lab3/MTX2 (t.c, wait.c, queue.c,     *)
(* ts.s): NPROC PROCs that run one at a time until they give the CPU up,   *)
(* with fork, switch, exit, jesus, sleep, wakeup and wait.                 *)
(*                                                                         *)
(* A PROC is its pid; a list of PROCs is the sequence its next (or         *)
(* sibling) pointers spell out.  One action is what the running process    *)
(* does from one return to its prompt, or from being switched in, until it *)
(* is back at the prompt or has called tswitch: nothing else runs in       *)
(* between.  The saved kernel stack of a process is abstracted to the one  *)
(* thing on it that matters, the local "child" of a wait that is blocked   *)
(* in sleep (waiting).  A field that is written and never read (parent, a  *)
(* mirror of ppid) or only printed is left out; exitCode always is the     *)
(* pid of the process that exits (t.c:180).                                *)
(***************************************************************************)
EXTENDS Integers, PriorityQueue

CONSTANTS
  NPROC,    \* number of PROCs
  Events    \* the event values typed at the prompts of sleep and wakeup

ASSUME NPROCAssumption == NPROC \in Nat /\ NPROC >= 2
ASSUME EventsAssumption == Events \subseteq Int

Procs  == 0 .. NPROC - 1
NULL   == -1
Status == {"FREE", "READY", "SLEEP", "ZOMBIE"}

VARIABLES
  status,       \* status[p]: PROC.status
  priority,     \* priority[p]: PROC.priority
  ppid,         \* ppid[p]: PROC.ppid
  event,        \* event[p]: PROC.event
  child,        \* child[p]: the list at PROC.child, linked by sibling
  freeList,     \* the free PROCs
  readyQueue,   \* the priority queue of READY PROCs
  sleepList,    \* the list of SLEEP PROCs
  running,      \* the running PROC
  P1,           \* the global P1, NULL until process 1 enters body()
  waiting       \* waiting[p]: "child" of the wait that p is blocked in, or NULL

vars == <<status, priority, ppid, event, child, freeList, readyQueue,
          sleepList, running, P1, waiting>>

-----------------------------------------------------------------------------
(***************************************************************************)
(* main() has called init() and kfork(): P0 runs, P1 is ready.             *)
(***************************************************************************)
Init ==
  /\ status = [p \in Procs |-> IF p \in {0, 1} THEN "READY" ELSE "FREE"]
  /\ priority = [p \in Procs |-> IF p = 1 THEN 1 ELSE 0]
  /\ ppid = [p \in Procs |-> 0]
  /\ event = [p \in Procs |-> 0]
  /\ child = [p \in Procs |-> IF p = 0 THEN <<1>> ELSE <<>>]
  /\ freeList = [i \in 1 .. NPROC - 2 |-> i + 1]
  /\ readyQueue = <<1>>
  /\ sleepList = <<>>
  /\ running = 0
  /\ P1 = NULL
  /\ waiting = [p \in Procs |-> NULL]

(***************************************************************************)
(* The end of scheduler(), with q the ready queue it dequeues from.        *)
(* Process 1 sets the global P1 when it is switched in to body() for the   *)
(* first time.                                                             *)
(***************************************************************************)
Dispatch(q) ==
  /\ running' = IF q = <<>> THEN NULL ELSE Head(q)
  /\ readyQueue' = IF q = <<>> THEN q ELSE Tail(q)
  /\ P1' = IF running' = 1 THEN 1 ELSE P1

\* Fault: a wait() that was woken is back at the prompt.
AtPromptAfterSleep == running # 0

\* The running process is at the prompt of body().
AtPrompt == running # 0 /\ waiting[running] = NULL

(***************************************************************************)
(* wakeup(e): the sleepers it wakes, and the three things it changes.      *)
(***************************************************************************)
\* Fault: only the head of the sleep list is looked at.
WokenHead(e) == {p \in ToSet(sleepList) : p = Head(sleepList) /\ event[p] = e}

Woken(e) == {p \in ToSet(sleepList) : event[p] = e}
ReadyAfterWakeup(e) == EnqueueEach(priority, readyQueue, sleepList, Woken(e))
SleepAfterWakeup(e) == EnqueueEach(priority, <<>>, sleepList, Procs \ Woken(e))

\* Fault: wakeup() moves the sleepers and leaves them SLEEP.
StatusKept(st, e) == st

StatusAfterWakeup(st, e) ==
  [p \in Procs |-> IF p \in Woken(e) THEN "READY" ELSE st[p]]

-----------------------------------------------------------------------------
(***************************************************************************)
(* main(): P0 switches whenever some process is ready, and spins if none.  *)
(***************************************************************************)

P0Switch ==
  /\ running = 0
  /\ readyQueue # <<>>
  /\ Dispatch(Enqueue(priority, readyQueue, 0))
  /\ UNCHANGED <<status, priority, ppid, event, child, freeList, sleepList, waiting>>

\* kfork(): without a free PROC it fails and changes nothing.
Kfork ==
  /\ AtPrompt
  /\ freeList # <<>>
  /\ LET p == Head(freeList) IN
       /\ freeList' = Tail(freeList)
       /\ status' = [status EXCEPT ![p] = "READY"]
       /\ priority' = [priority EXCEPT ![p] = 1]
       /\ ppid' = [ppid EXCEPT ![p] = running]
       /\ readyQueue' = Enqueue(priority', readyQueue, p)
       /\ child' = [child EXCEPT ![running] = Append(@, p)]
  /\ UNCHANGED <<event, sleepList, running, P1, waiting>>

\* do_switch()
Switch ==
  /\ AtPrompt
  /\ Dispatch(Enqueue(priority, readyQueue, running))
  /\ UNCHANGED <<status, priority, ppid, event, child, freeList, sleepList, waiting>>

(***************************************************************************)
(* kexit(): process 1 never exits.  The children are given to P1 when P1   *)
(* has a child of its own to append them to, and otherwise stay.           *)
(***************************************************************************)
Adopted == IF child[P1] # <<>> THEN ToSet(child[running]) ELSE {}

Kexit ==
  /\ AtPrompt
  /\ running # 1
  /\ ppid' = [p \in Procs |-> IF p \in Adopted THEN P1 ELSE ppid[p]]
  /\ child' = IF Adopted = {} THEN child
              ELSE [child EXCEPT ![P1] = @ \o child[running],
                                 ![running] = <<>>]
  /\ LET e == ppid'[running] IN
       /\ status' = StatusAfterWakeup([status EXCEPT ![running] = "ZOMBIE"], e)
       /\ sleepList' = SleepAfterWakeup(e)
       /\ Dispatch(ReadyAfterWakeup(e))
  /\ UNCHANGED <<priority, event, freeList, waiting>>

\* Fault: the loop of do_jesus() stops one PROC short.
ZombiesButLast == {p \in 1 .. NPROC - 2 : status[p] = "ZOMBIE"}

\* do_jesus(): every ZOMBIE, in pid order, becomes ready to run again.
Zombies == {p \in Procs \ {0} : status[p] = "ZOMBIE"}

Jesus ==
  /\ AtPrompt
  /\ status' = [p \in Procs |-> IF p \in Zombies THEN "READY" ELSE status[p]]
  /\ readyQueue' = EnqueueEach(priority, readyQueue, [p \in 1 .. NPROC - 1 |-> p], Zombies)
  /\ UNCHANGED <<priority, ppid, event, child, freeList, sleepList, running, P1, waiting>>

(***************************************************************************)
(* sleep(e), called from the prompt or from wait().                        *)
(***************************************************************************)
GoToSleep(e) ==
  /\ event' = [event EXCEPT ![running] = e]
  /\ status' = [status EXCEPT ![running] = "SLEEP"]
  /\ sleepList' = Enqueue(priority, sleepList, running)
  /\ Dispatch(readyQueue)

Sleep ==
  /\ AtPrompt
  /\ \E e \in Events : GoToSleep(e)
  /\ UNCHANGED <<priority, ppid, child, freeList, waiting>>

Wakeup ==
  /\ AtPrompt
  /\ \E e \in Events :
       /\ status' = StatusAfterWakeup(status, e)
       /\ sleepList' = SleepAfterWakeup(e)
       /\ readyQueue' = ReadyAfterWakeup(e)
  /\ UNCHANGED <<priority, ppid, event, child, freeList, running, P1, waiting>>

-----------------------------------------------------------------------------
(***************************************************************************)
(* wait().  With no child it returns -1 and changes nothing.  Its loop     *)
(* looks at one child after the other and sleeps after each one that is    *)
(* not a ZOMBIE; Examined is the child it looks at now, either the first   *)
(* one or the one left for when it is woken.                               *)
(***************************************************************************)
InWait == running # 0 /\ child[running] # <<>>

Examined == IF waiting[running] = NULL THEN Head(child[running])
            ELSE waiting[running]

Position(s, c) == CHOOSE i \in DOMAIN s : s[i] = c

\* Fault: the buried child stays in the list.
LetgoNothing(s, c) == s

\* letgo(): a child without a younger sibling takes the whole list with it.
Letgo(s, c) ==
  IF c = Last(s) THEN <<>> ELSE RemoveAt(s, Position(s, c))

\* Fault: a sleeping child is taken for a dead one.
FoundIdle == status[Examined] \in {"ZOMBIE", "SLEEP"}

FoundZombie == status[Examined] = "ZOMBIE"

\* letgo(), freeZomb(), enqueue to freeList, wakeup(ppid), return the pid.
WaitBury ==
  /\ InWait
  /\ FoundZombie
  /\ child' = [child EXCEPT ![running] = Letgo(@, Examined)]
  /\ ppid' = [ppid EXCEPT ![Examined] = 0]
  /\ freeList' = Enqueue(priority, freeList, Examined)
  /\ LET e == ppid'[running] IN
       /\ status' = StatusAfterWakeup([status EXCEPT ![Examined] = "FREE"], e)
       /\ sleepList' = SleepAfterWakeup(e)
       /\ readyQueue' = ReadyAfterWakeup(e)
  /\ waiting' = [waiting EXCEPT ![running] = NULL]
  /\ UNCHANGED <<priority, event, running, P1>>

\* The child after c, or the first one again.
NextChild(s, c) == IF c = Last(s) THEN Head(s) ELSE s[Position(s, c) + 1]

WaitSleep ==
  /\ InWait
  /\ ~FoundZombie
  /\ waiting' = [waiting EXCEPT ![running] = NextChild(child[running], Examined)]
  /\ GoToSleep(running)
  /\ UNCHANGED <<priority, ppid, child, freeList>>

-----------------------------------------------------------------------------
Next ==
  \/ P0Switch
  \/ Kfork
  \/ Switch
  \/ Kexit
  \/ Jesus
  \/ Sleep
  \/ Wakeup
  \/ WaitBury
  \/ WaitSleep

Spec == Init /\ [][Next]_vars

\* The operator keeps entering commands, and some of them do something.
FairSpec == Spec /\ WF_vars(Next)

-----------------------------------------------------------------------------
(* What the kernel guarantees.                                             *)

TypeOK ==
  /\ status \in [Procs -> Status]
  /\ priority \in [Procs -> {0, 1}]
  /\ ppid \in [Procs -> Procs]
  /\ event \in [Procs -> Int]
  /\ child \in [Procs -> Seq(Procs)]
  /\ freeList \in Seq(Procs)
  /\ readyQueue \in Seq(Procs)
  /\ sleepList \in Seq(Procs)
  /\ running \in Procs
  /\ P1 \in {NULL, 1}
  /\ waiting \in [Procs -> Procs \cup {NULL}]

(***************************************************************************)
(* A process is in the list its status names and in no other one, and in   *)
(* no list twice: the one next pointer of a PROC is never asked to link    *)
(* two lists (enqueue, queue.c:11-24, would then lose or loop a list).     *)
(***************************************************************************)
ListsMatchStatus ==
  /\ IsInjective(freeList) /\ IsInjective(readyQueue) /\ IsInjective(sleepList)
  /\ ToSet(freeList) = {p \in Procs : status[p] = "FREE"}
  /\ ToSet(readyQueue) = {p \in Procs : status[p] = "READY"} \ {running}
  /\ ToSet(sleepList) = {p \in Procs : status[p] = "SLEEP"}
  /\ status[running] = "READY"

(***************************************************************************)
(* P0 never leaves READY, so scheduler() (t.c:225) never dequeues a NULL   *)
(* running; and the ready queue is in priority order, with P0, the only    *)
(* process of priority 0, behind all others.                               *)
(***************************************************************************)
P0Last ==
  /\ status[0] = "READY"
  /\ \A p \in Procs : status[p] # "FREE" => priority[p] = (IF p = 0 THEN 0 ELSE 1)
  /\ SortedByPriority(priority, readyQueue)

(***************************************************************************)
(* The kernel's tables are in order: what every list operation and every   *)
(* tswitch() of the code takes for granted of the PROCs and lists it finds.*)
(***************************************************************************)
KernelOK == TypeOK /\ ListsMatchStatus /\ P0Last

(***************************************************************************)
(* Families: a process in a child list is not FREE, has the list's owner   *)
(* as its parent (so it is in no other list) and is there once; kexit can  *)
(* use P1 (wait.c:45) because process 1 runs before any other one exits.   *)
(***************************************************************************)
FamilyOK ==
  /\ \A p \in Procs :
       /\ IsInjective(child[p])
       /\ \A c \in ToSet(child[p]) : ppid[c] = p /\ status[c] # "FREE" /\ c # 0
  /\ running # 0 => P1 = 1

(***************************************************************************)
(* The "child" pointer that a wait() keeps across its sleep still points   *)
(* at a child of the sleeper when it is used (wait.c:96): nobody else      *)
(* buried it or gave it away meanwhile.  Only a process that sleeps or is  *)
(* about to resume has one.                                                *)
(***************************************************************************)
WaitCursorOK ==
  \A p \in Procs : waiting[p] # NULL =>
    /\ waiting[p] \in ToSet(child[p])
    /\ status[p] \in {"SLEEP", "READY"}

(***************************************************************************)
(* A PROC becomes FREE only as a ZOMBIE buried by the process that is its  *)
(* parent at that moment.                                                  *)
(***************************************************************************)
BuriedByParent ==
  [][\A p \in Procs :
       status[p] # "FREE" /\ status'[p] = "FREE"
         => status[p] = "ZOMBIE" /\ ppid[p] = running]_vars

(***************************************************************************)
(* When a process dies, its parent is not left blocked in wait(): a parent *)
(* asleep on its own pid is ready again.                                   *)
(***************************************************************************)
DeathWakesParent ==
  [][\A p \in Procs :
       status[p] # "ZOMBIE" /\ status'[p] = "ZOMBIE"
         => LET parent == ppid[p] IN
              ~ (status'[parent] = "SLEEP" /\ event'[parent] = parent)]_vars

(***************************************************************************)
(* Cooperative scheduling is fair: every ready process runs eventually     *)
(* (P0 excepted, which waits until it is alone).                           *)
(***************************************************************************)
ReadyRuns ==
  \A p \in Procs \ {0} : (status[p] = "READY") ~> (running = p)

\* The kernel is a CooperativeKernel; the places are read off the lists.
Kernel == INSTANCE CooperativeKernel WITH
  Idle <- 0, First <- 1,
  free <- ToSet(freeList), ready <- ToSet(readyQueue),
  asleep <- ToSet(sleepList), zombie <- {p \in Procs : status[p] = "ZOMBIE"}

ImplementsKernel == Kernel!Spec

-----------------------------------------------------------------------------
(* What comments of the code say of it, and the code does not do.          *)

(***************************************************************************)
(* wait.c:99 "unlink": burying a child leaves its siblings children of     *)
(* the process that waited.                                                *)
(***************************************************************************)
BuryUnlinksOneChild ==
  [][WaitBury => ToSet(child'[running]) = ToSet(child[running]) \ {Examined}]_vars

=============================================================================
