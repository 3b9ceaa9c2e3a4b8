------------------------------ MODULE Pipeline ------------------------------
(***************************************************************************)
(* A pipeline of the shell of Lab3.  main() forks a process for the line   *)
(* and waits for it; exe() makes a pipe, forks a process that does the     *)
(* same for all but the last command, and becomes the last command.        *)
(*                                                                         *)
(* The commands of a line are numbered from the left; pipe k leads from    *)
(* command k to command k + 1.  A program reads and writes in any order,   *)
(* and ends when it likes: what it does is not the shell's business, who   *)
(* holds which end of a pipe is.                                           *)
(***************************************************************************)
EXTENDS Integers

CONSTANTS
  N,         \* commands on the line
  Capacity   \* what fits in a pipe

VARIABLES
  shell,     \* where main() is
  at,        \* where the process of each command is
  in, out,   \* its descriptors 0 and 1
  rd, wr,    \* the pipes of which its other descriptors are the ends: pd[0], pd[1]
  held       \* how much is in each pipe
vars == <<shell, at, in, out, rd, wr, held>>

Commands == 1 .. N
Pipes    == 1 .. N - 1

\* What a descriptor can be but the end of a pipe.
Terminal == 0
File     == -1
Closed   == -2

\* A line has a command, and a pipe holds something.
SizesOK == {N, Capacity} \subseteq Nat \ {0}

Living(k)  == at[k] \notin {"none", "ended"}
Readers(p) == {k \in Commands : in[k] = p \/ p \in rd[k]}
Writers(p) == {k \in Commands : out[k] = p \/ p \in wr[k]}

Goto(k, from, to) == at[k] = from /\ at' = [at EXCEPT ![k] = to]

\* All descriptors of a process that ends are closed.
End(k) ==
  /\ at' = [at EXCEPT ![k] = "ended"]
  /\ in' = [in EXCEPT ![k] = Closed] /\ out' = [out EXCEPT ![k] = Closed]
  /\ rd' = [rd EXCEPT ![k] = {}] /\ wr' = [wr EXCEPT ![k] = {}]
  /\ UNCHANGED <<shell, held>>

-----------------------------------------------------------------------------
(* main().                                                                 *)

Run ==
  /\ shell = "prompt" /\ shell' = "waits"
  /\ at' = [at EXCEPT ![N] = "exe"]
  /\ in' = [in EXCEPT ![N] = Terminal] /\ out' = [out EXCEPT ![N] = Terminal]
  /\ UNCHANGED <<rd, wr, held>>

\* wait(): the only child of the shell is the last command.
Wait ==
  /\ shell = "waits" /\ at[N] = "ended" /\ shell' = "done"
  /\ UNCHANGED <<at, in, out, rd, wr, held>>

-----------------------------------------------------------------------------
(* exe() in the process of command k.                                      *)

\* No bar is left on the line.
Single(k) ==
  /\ k = 1 /\ Goto(k, "exe", "redirect")
  /\ UNCHANGED <<shell, in, out, rd, wr, held>>

\* pipe() and fork(): the process of what is left of the bar has a copy of
\* every descriptor.
Fork(k) ==
  /\ k > 1 /\ at[k] = "exe"
  /\ at'  = [at  EXCEPT ![k] = "parent", ![k - 1] = "child"]
  /\ in'  = [in  EXCEPT ![k - 1] = in[k]]
  /\ out' = [out EXCEPT ![k - 1] = out[k]]
  /\ rd'  = [rd  EXCEPT ![k] = rd[k] \cup {k - 1}, ![k - 1] = rd[k] \cup {k - 1}]
  /\ wr'  = [wr  EXCEPT ![k] = wr[k] \cup {k - 1}, ![k - 1] = wr[k] \cup {k - 1}]
  /\ UNCHANGED <<shell, held>>

\* pd[1] is closed, 0 becomes a copy of pd[0].
Parent(k) ==
  /\ Goto(k, "parent", "redirect")
  /\ wr' = [wr EXCEPT ![k] = @ \ {k - 1}] /\ in' = [in EXCEPT ![k] = k - 1]
  /\ UNCHANGED <<shell, out, rd, held>>

\* pd[0] is closed, 1 becomes a copy of pd[1]; pd[1] stays, and so do those
\* that came with the fork.
Child(k) ==
  /\ Goto(k, "child", "exe")
  /\ rd' = [rd EXCEPT ![k] = @ \ {k}] /\ out' = [out EXCEPT ![k] = k]
  /\ UNCHANGED <<shell, in, wr, held>>

\* The first <, > or >> of the command.  A file that cannot be opened leaves
\* the descriptor closed.
Redirect(k) ==
  /\ Goto(k, "redirect", "exec")
  /\ \/ UNCHANGED <<in, out>>
     \/ \E x \in {File, Closed} : in'  = [in  EXCEPT ![k] = x] /\ UNCHANGED out
     \/ \E x \in {File, Closed} : out' = [out EXCEPT ![k] = x] /\ UNCHANGED in
  /\ UNCHANGED <<shell, rd, wr, held>>

\* execve() along PATH.  Where the command is nowhere found exe() returns, and
\* main() ends the process.
Exec(k) ==
  \/ Goto(k, "exec", "runs") /\ UNCHANGED <<shell, in, out, rd, wr, held>>
  \/ at[k] = "exec" /\ End(k)

-----------------------------------------------------------------------------
(* A program.                                                              *)

Chooses(k) ==
  \/ \E next \in {"reads", "writes"} :
       Goto(k, "runs", next) /\ UNCHANGED <<shell, in, out, rd, wr, held>>
  \/ at[k] = "runs" /\ End(k)

\* A pipe that is empty has an end when nobody can write to it any more.
Reads(k) ==
  /\ Goto(k, "reads", "runs")
  /\ \/ in[k] \notin Pipes /\ UNCHANGED held
     \/ \E p \in Pipes : in[k] = p /\ held[p] > 0 /\ held' = [held EXCEPT ![p] = @ - 1]
     \/ \E p \in Pipes : in[k] = p /\ held[p] = 0 /\ Writers(p) = {} /\ UNCHANGED held
  /\ UNCHANGED <<shell, in, out, rd, wr>>

\* SIGPIPE ends a process that writes to a pipe that nobody can read.
Writes(k) ==
  \/ /\ Goto(k, "writes", "runs")
     /\ \/ out[k] \notin Pipes /\ UNCHANGED held
        \/ \E p \in Pipes : /\ out[k] = p /\ Readers(p) # {}
                            /\ held[p] < Capacity /\ held' = [held EXCEPT ![p] = @ + 1]
     /\ UNCHANGED <<shell, in, out, rd, wr>>
  \/ at[k] = "writes" /\ out[k] \in Pipes /\ Readers(out[k]) = {} /\ End(k)

-----------------------------------------------------------------------------
Init ==
  /\ shell = "prompt"
  /\ at = [k \in Commands |-> "none"]
  /\ in = [k \in Commands |-> Closed] /\ out = [k \in Commands |-> Closed]
  /\ rd = [k \in Commands |-> {}] /\ wr = [k \in Commands |-> {}]
  /\ held = [p \in Pipes |-> 0]

Exe(k)     == Single(k) \/ Fork(k) \/ Parent(k) \/ Child(k) \/ Redirect(k) \/ Exec(k)
Program(k) == Chooses(k) \/ Reads(k) \/ Writes(k)

Next == Run \/ Wait \/ \E k \in Commands : Exe(k) \/ Program(k)

Spec == Init /\ [][Next]_vars

-----------------------------------------------------------------------------
(***************************************************************************)
(* A command that reads from a pipe gets to the end of it when all the     *)
(* commands to the left have ended, and not before: not when the one that  *)
(* wrote to it has, as those further left hold copies of its pd[1].        *)
(***************************************************************************)
EndOfPipe ==
  \A k \in Commands : at[k] = "reads" /\ in[k] \in Pipes =>
    Writers(in[k]) = {j \in 1 .. k - 1 : Living(j)}

(***************************************************************************)
(* A command that writes to a pipe does so for its right-hand neighbour    *)
(* and for nobody else, which is what SIGPIPE relies on.                   *)
(***************************************************************************)
OneReader ==
  \A k \in Commands : at[k] = "writes" /\ out[k] \in Pipes =>
    out[k] = k /\ Readers(k) = IF Living(k + 1) THEN {k + 1} ELSE {}

\* What keeps a process from going on.
Blocked(k) ==
  \/ at[k] = "reads"  /\ \E p \in Pipes : in[k] = p  /\ held[p] = 0 /\ Writers(p) # {}
  \/ at[k] = "writes" /\ \E p \in Pipes : out[k] = p /\ held[p] = Capacity /\ Readers(p) # {}

(***************************************************************************)
(* The commands of a line never all wait for one another, whatever order   *)
(* they read and write in, wherever their input and output are redirected  *)
(* to, and whichever of them could not be started or have ended.           *)
(***************************************************************************)
NotAllBlocked ==
  (\E k \in Commands : Living(k)) => \E k \in Commands : Living(k) /\ ~Blocked(k)

=============================================================================
