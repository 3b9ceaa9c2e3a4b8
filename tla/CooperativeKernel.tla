-------------------------- MODULE CooperativeKernel --------------------------
(***************************************************************************)
(* What both multitasking kernels promise about their processes, without   *)
(* lists, priorities, families or events: every process is in exactly one  *)
(* place, moves between the places only in these ways, and the idle        *)
(* process runs only when no other process can.                            *)
(***************************************************************************)
EXTENDS FiniteSets

CONSTANTS
  Procs,    \* the processes
  Idle,     \* the process that runs when nothing else can
  First     \* the process the idle process creates

VARIABLES
  free, ready, asleep, zombie,   \* the processes that are not running
  running                        \* the one that is

vars == <<free, ready, asleep, zombie, running>>

Init ==
  /\ free = Procs \ {Idle, First}
  /\ ready = {First}
  /\ asleep = {}
  /\ zombie = {}
  /\ running = Idle

\* The CPU goes to a member of r, to Idle only when it is alone in r.
Dispatch(r) ==
  \E p \in r :
    /\ p = Idle => r = {Idle}
    /\ running' = p
    /\ ready' = r \ {p}

Create ==
  \E p \in free :
    /\ free' = free \ {p}
    /\ ready' = ready \cup {p}
    /\ UNCHANGED <<asleep, zombie, running>>

Yield ==
  /\ Dispatch(ready \cup {running})
  /\ UNCHANGED <<free, asleep, zombie>>

Block ==
  /\ running # Idle
  /\ asleep' = asleep \cup {running}
  /\ Dispatch(ready)
  /\ UNCHANGED <<free, zombie>>

Wake ==
  \E W \in SUBSET asleep :
    /\ asleep' = asleep \ W
    /\ ready' = ready \cup W
    /\ UNCHANGED <<free, zombie, running>>

\* The running process dies; whom its death wakes is left open.
Die ==
  /\ running # Idle
  /\ zombie' = zombie \cup {running}
  /\ \E W \in SUBSET asleep :
       /\ asleep' = asleep \ W
       /\ Dispatch(ready \cup W)
  /\ UNCHANGED free

\* A dead process is buried and may be created again.
Bury ==
  \E z \in zombie, W \in SUBSET asleep :
    /\ zombie' = zombie \ {z}
    /\ free' = free \cup {z}
    /\ asleep' = asleep \ W
    /\ ready' = ready \cup W
    /\ UNCHANGED running

Raise ==
  /\ zombie' = {}
  /\ ready' = ready \cup zombie
  /\ UNCHANGED <<free, asleep, running>>

Next == Create \/ Yield \/ Block \/ Wake \/ Die \/ Bury \/ Raise

Spec == Init /\ [][Next]_vars

=============================================================================
