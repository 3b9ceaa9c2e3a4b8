---------------------------- MODULE ProcessProofs ----------------------------
(***************************************************************************)
(* Proofs about the two programs whose processes or threads run side by    *)
(* side and meet in what they share: Pipeline, for a line of any number of *)
(* commands and pipes of any capacity, and RowSums, for any number of      *)
(* threads, any matrix and any width of an int.                            *)
(*                                                                         *)
(* Pipeline's inductive invariant says what the descriptors of a process   *)
(* are at each place in exe(), and that the processes come one after the   *)
(* other from the right.                                                   *)
(***************************************************************************)
EXTENDS Pipeline, WellFoundedInduction, TLAPS

\* A set of naturals that has an element has a least one.
LEMMA LeastNumber ==
  ASSUME NEW T \in SUBSET Nat, T # {}
  PROVE  \E m \in T : \A k \in T : m <= k
<1>1. PICK m \in T : \A k \in T : <<k, m>> \notin OpToRel(<, Nat)
  BY WFMin, NatLessThanWellFounded
<1>2. \A k \in T : ~(k < m)
  BY <1>1 DEF OpToRel
<1>3. QED
  BY <1>2

Started == {"redirect", "exec", "runs", "reads", "writes"}

TypeOK ==
  /\ shell \in {"prompt", "waits", "done"}
  /\ at \in [Commands -> {"none", "child", "exe", "parent", "ended"} \cup Started]
  /\ in \in [Commands -> Int] /\ out \in [Commands -> Int]
  /\ rd \in [Commands -> SUBSET Pipes] /\ wr \in [Commands -> SUBSET Pipes]
  /\ held \in [Pipes -> 0 .. Capacity]

\* Where the output of command k goes, unless it is redirected.
Output(k) == IF k < N THEN k ELSE Terminal

Without(k) == in[k] = Closed /\ out[k] = Closed /\ rd[k] = {} /\ wr[k] = {}

Descriptors(k) ==
  /\ at[k] \in {"none", "ended"} => Without(k)
  /\ at[k] = "child" =>
       k < N /\ in[k] = Terminal /\ out[k] = Output(k + 1) /\ rd[k] = {k} /\ wr[k] = k .. N - 1
  /\ at[k] = "exe" =>
       in[k] = Terminal /\ out[k] = Output(k) /\ rd[k] = {} /\ wr[k] = k .. N - 1
  /\ at[k] = "parent" =>
       k > 1 /\ in[k] = Terminal /\ out[k] = Output(k) /\ rd[k] = {k - 1} /\ wr[k] = k - 1 .. N - 1
  /\ at[k] \in Started =>
       /\ in[k] \in {k - 1, File, Closed} /\ out[k] \in {Output(k), File, Closed}
       /\ rd[k] = {k - 1} \cap Pipes /\ wr[k] = k .. N - 1

\* The process of a command is made by that of its right-hand neighbour.
InTurn(k) == at[k] = "none" <=> at[k + 1] \in {"none", "exe", "child"}

IInv ==
  /\ TypeOK
  /\ shell = "prompt" <=> at[N] = "none"
  /\ \A k \in Commands : Descriptors(k)
  /\ \A k \in Pipes : InTurn(k)

LEMMA Numbers ==
  ASSUME SizesOK
  PROVE  /\ N \in Nat \ {0} /\ N \in Commands /\ Capacity \in Nat \ {0}
         /\ \A k \in Commands : k \in Nat /\ 1 <= k /\ k <= N
         /\ \A k \in Commands : k # N => k \in Pipes /\ k + 1 \in Commands
         /\ \A p \in Pipes : p \in Commands /\ p \in Nat /\ 1 <= p /\ p < N /\ p + 1 \in Commands
         /\ \A k \in Commands : k > 1 => k - 1 \in Commands /\ k - 1 \in Pipes
BY DEF SizesOK, Commands, Pipes

-----------------------------------------------------------------------------
(* What the invariant says of the ends of a pipe.                          *)

LEMMA EndsOfCommand ==
  ASSUME SizesOK, IInv, NEW k \in Commands
  PROVE  /\ Living(k) => \A p \in Pipes : p >= k => p \in wr[k]
         /\ ~Living(k) => Without(k)
         /\ \A p \in wr[k] : p >= k \/ (p = k - 1 /\ at[k] = "parent")
         /\ \A p \in rd[k] : p = k - 1 \/ (p = k /\ at[k] = "child")
         /\ Living(k) /\ at[k] \notin {"exe", "child"} /\ k > 1 => k - 1 \in rd[k]
         /\ in[k] \in Pipes => in[k] = k - 1
         /\ out[k] \in Pipes => out[k] >= k
<1> USE Numbers
<1>0. Terminal \notin Pipes /\ File \notin Pipes /\ Closed \notin Pipes
  BY DEF Terminal, File, Closed
<1>1. CASE at[k] \in {"none", "ended"}
  BY <1>0, <1>1 DEF IInv, Descriptors, Without, Living
<1>2. CASE at[k] = "child"
  BY <1>0, <1>2 DEF IInv, Descriptors, Living, Output, Pipes
<1>3. CASE at[k] = "exe"
  BY <1>0, <1>3 DEF IInv, Descriptors, Living, Output, Pipes
<1>4. CASE at[k] = "parent"
  BY <1>0, <1>4 DEF IInv, Descriptors, Living, Output, Pipes
<1>5. CASE at[k] \in Started
  <2>1. /\ in[k] \in {k - 1, File, Closed} /\ out[k] \in {Output(k), File, Closed}
        /\ rd[k] = {k - 1} \cap Pipes /\ wr[k] = k .. N - 1
    BY <1>5 DEF IInv, Descriptors
  <2>2. Living(k) /\ at[k] \notin {"parent", "child"}
    BY <1>5 DEF Started, Living
  <2>3. \A p \in Pipes : p >= k <=> p \in k .. N - 1
    BY DEF Pipes
  <2>4. out[k] \in Pipes => out[k] = k
    BY <1>0, <2>1 DEF Output
  <2>5. in[k] \in Pipes => in[k] = k - 1
    BY <1>0, <2>1
  <2>6. QED
    BY <2>1, <2>2, <2>3, <2>4, <2>5
<1>6. QED
  BY <1>1, <1>2, <1>3, <1>4, <1>5 DEF IInv, TypeOK

LEMMA WritersOfPipe ==
  ASSUME SizesOK, IInv, NEW p \in Pipes, at[p + 1] \in Started
  PROVE  Writers(p) = {j \in 1 .. p : Living(j)}
<1> USE Numbers
<1>1. ASSUME NEW j \in Commands, j <= p
      PROVE  j \in Writers(p) <=> Living(j)
  <2>1. CASE Living(j)
    <3>1. p \in wr[j]
      BY <1>1, <2>1, EndsOfCommand
    <3>2. QED
      BY <2>1, <3>1 DEF Writers
  <2>2. CASE ~Living(j)
    BY <2>2 DEF IInv, Descriptors, Living, Without, Writers, Closed
  <2>3. QED
    BY <2>1, <2>2
<1>2. ASSUME NEW j \in Commands, j > p
      PROVE  j \notin Writers(p)
  <2>1. p \notin wr[j]
    <3>1. p = j - 1 => at[j] # "parent"
      BY DEF Started
    <3>2. QED
      BY <1>2, <3>1, EndsOfCommand
  <2>2. out[j] # p
    BY <1>2, EndsOfCommand
  <2>3. QED
    BY <2>1, <2>2 DEF Writers
<1>3. Writers(p) \subseteq Commands /\ 1 .. p \subseteq Commands
  BY DEF Writers, Commands
<1>4. \A j \in 1 .. p : j \in Commands /\ j <= p
  BY <1>3
<1>5. \A j \in Commands : j <= p => j \in 1 .. p
  BY DEF Commands
<1>6. QED
  BY <1>1, <1>2, <1>3, <1>4, <1>5

LEMMA ReadersOfPipe ==
  ASSUME SizesOK, IInv, NEW p \in Pipes, at[p] \in Started
  PROVE  Readers(p) = IF Living(p + 1) THEN {p + 1} ELSE {}
<1> USE Numbers
<1>1. at[p + 1] \notin {"none", "exe", "child"}
  BY DEF IInv, InTurn, Started
<1>2. ASSUME NEW j \in Commands, j # p + 1
      PROVE  j \notin Readers(p)
  <2>1. p \notin rd[j]
    BY <1>2, EndsOfCommand DEF Started
  <2>2. in[j] # p
    BY <1>2, EndsOfCommand
  <2>3. QED
    BY <2>1, <2>2 DEF Readers
<1>3. p + 1 \in Readers(p) <=> Living(p + 1)
  <2>1. CASE Living(p + 1)
    <3>1. p \in rd[p + 1]
      <4>1. p + 1 > 1 /\ (p + 1) - 1 = p /\ p + 1 \in Commands
        OBVIOUS
      <4>2. QED
        BY <1>1, <2>1, <4>1, EndsOfCommand
    <3>2. QED
      BY <2>1, <3>1 DEF Readers
  <2>2. CASE ~Living(p + 1)
    BY <2>2 DEF IInv, Descriptors, Living, Without, Readers, Closed
  <2>3. QED
    BY <2>1, <2>2
<1>4. Readers(p) \subseteq Commands
  BY DEF Readers
<1>5. QED
  BY <1>2, <1>3, <1>4

LEMMA InvEndOfPipe ==
  SizesOK /\ IInv => EndOfPipe
<1> SUFFICES ASSUME SizesOK, IInv, NEW k \in Commands, at[k] = "reads", in[k] \in Pipes
             PROVE  Writers(in[k]) = {j \in 1 .. k - 1 : Living(j)}
  BY DEF EndOfPipe
<1>1. in[k] = k - 1 /\ k - 1 \in Pipes
  BY EndsOfCommand
<1>2. (k - 1) + 1 = k
  BY Numbers
<1>3. QED
  BY <1>1, <1>2, WritersOfPipe DEF Started

LEMMA InvOneReader ==
  SizesOK /\ IInv => OneReader
<1> SUFFICES ASSUME SizesOK, IInv, NEW k \in Commands, at[k] = "writes", out[k] \in Pipes
             PROVE  out[k] = k /\ Readers(k) = IF Living(k + 1) THEN {k + 1} ELSE {}
  BY DEF OneReader
<1>1. out[k] = k
  BY Numbers DEF IInv, Descriptors, Started, Output, Terminal, File, Closed
<1>2. QED
  BY <1>1, ReadersOfPipe DEF Started

\* The leftmost living process is not waiting for input.  If all are blocked,
\* the rightmost of those that are blocked in a write has a reader, which
\* cannot be blocked in a read, nor in a write.
LEMMA InvNotAllBlocked ==
  SizesOK /\ IInv => NotAllBlocked
<1> SUFFICES ASSUME SizesOK, IInv, NEW some \in Commands, Living(some),
                    \A k \in Commands : Living(k) => Blocked(k)
             PROVE  FALSE
  BY DEF NotAllBlocked
<1> USE Numbers
<1> DEFINE Full == {k \in Commands : at[k] = "writes" /\ Blocked(k)}
<1>1. ASSUME NEW k \in Commands, Living(k), at[k] # "writes"
      PROVE  /\ at[k] = "reads" /\ k - 1 \in Pipes /\ held[k - 1] = 0
             /\ \E j \in Commands : j < k /\ Living(j)
  <2>1. PICK p \in Pipes : at[k] = "reads" /\ in[k] = p /\ held[p] = 0 /\ Writers(p) # {}
    BY <1>1 DEF Blocked
  <2>2. Writers(in[k]) = {j \in 1 .. k - 1 : Living(j)}
    BY <2>1, InvEndOfPipe DEF EndOfPipe
  <2>3. PICK j \in 1 .. k - 1 : Living(j)
    BY <2>1, <2>2
  <2>4. j \in Commands /\ j < k
    BY DEF Commands
  <2>5. in[k] = k - 1
    BY <2>1 DEF IInv, Descriptors, Started, File, Closed
  <2>6. QED
    BY <2>1, <2>3, <2>4, <2>5
<1>2. ASSUME NEW k \in Full
      PROVE  k + 1 \in Full
  <2>1. PICK p \in Pipes : out[k] = p /\ held[p] = Capacity /\ Readers(p) # {}
    BY <1>2 DEF Blocked
  <2>2. out[k] = k /\ Living(k + 1)
    <3>1. at[k] = "writes" /\ out[k] \in Pipes
      BY <1>2, <2>1
    <3>2. out[k] = k /\ Readers(k) = IF Living(k + 1) THEN {k + 1} ELSE {}
      BY <3>1, InvOneReader DEF OneReader
    <3>3. QED
      BY <2>1, <3>2
  <2>3. k + 1 \in Commands /\ held[k] # 0
    BY <2>1, <2>2
  <2>4. at[k + 1] = "writes"
    BY <1>1, <2>2, <2>3
  <2>5. QED
    BY <2>2, <2>3, <2>4
<1>3. Full # {}
  <2>1. {k \in Commands : Living(k)} \in SUBSET Nat
    OBVIOUS
  <2>2. PICK m \in Commands : Living(m) /\ \A k \in Commands : Living(k) => m <= k
    <3>1. {k \in Commands : Living(k)} # {}
      OBVIOUS
    <3>2. QED
      BY <2>1, <3>1, LeastNumber
  <2>3. at[m] = "writes"
    BY <1>1, <2>2
  <2>4. QED
    BY <2>2, <2>3
<1>4. QED
  <2> DEFINE Gaps == {N - k : k \in Full}
  <2>1. Gaps \in SUBSET Nat /\ Gaps # {}
    BY <1>3
  <2>2. PICK g \in Gaps : \A h \in Gaps : g <= h
    BY <2>1, LeastNumber
  <2>3. PICK k \in Full : g = N - k
    OBVIOUS
  <2>4. N - (k + 1) \in Gaps
    BY <1>2
  <2>5. g <= N - (k + 1)
    BY <2>2, <2>4
  <2>6. QED
    BY <2>3, <2>5

-----------------------------------------------------------------------------
(* The steps keep the invariant.                                           *)

LEMMA InitHolds ==
  SizesOK /\ Init => IInv
<1> SUFFICES ASSUME SizesOK, Init PROVE IInv
  OBVIOUS
<1> USE Numbers DEF Init
<1>1. TypeOK
  BY DEF TypeOK, Closed
<1>2. \A k \in Commands : Descriptors(k)
  BY DEF Descriptors, Without, Started
<1>3. \A k \in Pipes : InTurn(k)
  BY DEF InTurn
<1>4. QED
  BY <1>1, <1>2, <1>3 DEF IInv

LEMMA SameDescriptors ==
  ASSUME NEW j \in Commands, Descriptors(j), at'[j] = at[j], in'[j] = in[j],
         out'[j] = out[j], rd'[j] = rd[j], wr'[j] = wr[j]
  PROVE  Descriptors(j)'
<1>1. Without(j)' <=> Without(j)
  BY DEF Without
<1>2. QED
  BY <1>1 DEF Descriptors

\* A step of one process, that neither begins nor leaves its turn of exe().
LEMMA OneStep ==
  ASSUME SizesOK, IInv, NEW k \in Commands, TypeOK', UNCHANGED shell,
         \A j \in Commands \ {k} : /\ at'[j] = at[j] /\ in'[j] = in[j] /\ out'[j] = out[j]
                                   /\ rd'[j] = rd[j] /\ wr'[j] = wr[j],
         at[k] # "none", at'[k] # "none",
         k = 1 \/ (at'[k] \in {"exe", "child"} <=> at[k] \in {"exe", "child"}),
         Descriptors(k)'
  PROVE  IInv'
<1> USE Numbers
<1>1. ASSUME NEW j \in Commands PROVE Descriptors(j)'
  <2>1. CASE j = k
    BY <2>1
  <2>2. CASE j # k
    <3>1. Descriptors(j) /\ at'[j] = at[j] /\ in'[j] = in[j] /\ out'[j] = out[j]
          /\ rd'[j] = rd[j] /\ wr'[j] = wr[j]
      BY <2>2 DEF IInv
    <3>2. QED
      BY <3>1, SameDescriptors
  <2>3. QED
    BY <2>1, <2>2
<1>2. ASSUME NEW j \in Pipes PROVE InTurn(j)'
  <2>1. InTurn(j) /\ j \in Commands /\ j + 1 \in Commands /\ j + 1 # j /\ j + 1 # 1
    BY DEF IInv
  <2>2. CASE j = k
    <3>1. at'[j + 1] = at[j + 1]
      BY <2>1, <2>2
    <3>2. QED
      BY <2>1, <2>2, <3>1 DEF InTurn
  <2>3. CASE j + 1 = k
    <3>1. at'[j] = at[j]
      BY <2>1, <2>3
    <3>2. QED
      BY <2>1, <2>3, <3>1 DEF InTurn
  <2>4. CASE j # k /\ j + 1 # k
    BY <2>1, <2>4 DEF InTurn
  <2>5. QED
    BY <2>2, <2>3, <2>4
<1>3. shell' = "prompt" <=> at'[N] = "none"
  BY DEF IInv
<1>4. QED
  BY <1>1, <1>2, <1>3 DEF IInv

\* A step that changes no descriptor.
LEMMA MovesOn ==
  ASSUME SizesOK, IInv, NEW k \in Commands, NEW from \in Started, NEW to \in Started,
         Goto(k, from, to), UNCHANGED <<shell, in, out, rd, wr>>,
         held' \in [Pipes -> 0 .. Capacity]
  PROVE  IInv'
<1>1. at'[k] = to /\ at[k] = from /\ \A j \in Commands \ {k} : at'[j] = at[j]
  BY DEF Goto, IInv, TypeOK
<1>2. TypeOK'
  BY DEF IInv, TypeOK, Goto
<1>3. Descriptors(k)'
  BY <1>1 DEF IInv, Descriptors, Started
<1>4. QED
  BY <1>1, <1>2, <1>3, OneStep DEF Started

LEMMA EndKeeps ==
  ASSUME SizesOK, IInv, NEW k \in Commands, at[k] \in Started, End(k)
  PROVE  IInv'
<1>1. TypeOK'
  BY DEF IInv, TypeOK, End, Closed
<1>2. /\ at'[k] = "ended" /\ Without(k)'
      /\ \A j \in Commands \ {k} : /\ at'[j] = at[j] /\ in'[j] = in[j] /\ out'[j] = out[j]
                                    /\ rd'[j] = rd[j] /\ wr'[j] = wr[j]
  BY DEF IInv, TypeOK, End, Without
<1>3. Descriptors(k)'
  BY <1>2 DEF Descriptors, Started
<1>4. UNCHANGED shell
  BY DEF End
<1>5. QED
  BY <1>1, <1>2, <1>3, <1>4, OneStep DEF Started

LEMMA RunKeeps ==
  ASSUME SizesOK, IInv, Run
  PROVE  IInv'
<1> USE Numbers DEF Run
<1>1. at[N] = "none"
  BY DEF IInv
<1>2. TypeOK'
  BY DEF IInv, TypeOK, Terminal
<1>3. /\ at'[N] = "exe" /\ in'[N] = Terminal /\ out'[N] = Terminal
      /\ \A j \in Commands \ {N} : at'[j] = at[j] /\ in'[j] = in[j] /\ out'[j] = out[j]
  BY DEF IInv, TypeOK
<1>4. ASSUME NEW j \in Commands PROVE Descriptors(j)'
  <2>1. CASE j = N
    <3>1. rd'[N] = {} /\ wr'[N] = {} /\ N .. N - 1 = {}
      BY <1>1 DEF IInv, Descriptors, Without
    <3>2. QED
      BY <1>3, <2>1, <3>1 DEF Descriptors, Output, Started
  <2>2. CASE j # N
    BY <1>3, <2>2 DEF IInv, Descriptors, Without
  <2>3. QED
    BY <2>1, <2>2
<1>5. ASSUME NEW j \in Pipes PROVE InTurn(j)'
  <2>1. InTurn(j) /\ j \in Commands /\ j # N /\ j + 1 \in Commands
    BY DEF IInv
  <2>2. CASE j + 1 = N
    BY <1>1, <1>3, <2>1, <2>2 DEF InTurn
  <2>3. CASE j + 1 # N
    BY <1>3, <2>1, <2>3 DEF InTurn
  <2>4. QED
    BY <2>2, <2>3
<1>6. QED
  BY <1>2, <1>3, <1>4, <1>5 DEF IInv

LEMMA ForkKeeps ==
  ASSUME SizesOK, IInv, NEW k \in Commands, Fork(k)
  PROVE  IInv'
<1> USE Numbers DEF Fork
<1>1. k - 1 \in Commands /\ k - 1 \in Pipes /\ k - 1 # k /\ (k - 1) + 1 = k
  OBVIOUS
<1>2. /\ in[k] = Terminal /\ out[k] = Output(k) /\ rd[k] = {} /\ wr[k] = k .. N - 1
      /\ at[k - 1] = "none"
  BY <1>1 DEF IInv, Descriptors, InTurn
<1>3. TypeOK'
  BY <1>1 DEF IInv, TypeOK, Started
<1>4. /\ at'[k] = "parent" /\ in'[k] = in[k] /\ out'[k] = out[k]
      /\ rd'[k] = {k - 1} /\ wr'[k] = wr[k] \cup {k - 1}
  BY <1>1, <1>2 DEF IInv, TypeOK
<1>5. /\ at'[k - 1] = "child" /\ in'[k - 1] = in[k] /\ out'[k - 1] = out[k]
      /\ rd'[k - 1] = {k - 1} /\ wr'[k - 1] = wr[k] \cup {k - 1}
  BY <1>1, <1>2 DEF IInv, TypeOK
<1>6. \A j \in Commands \ {k, k - 1} : /\ at'[j] = at[j] /\ in'[j] = in[j] /\ out'[j] = out[j]
                                        /\ rd'[j] = rd[j] /\ wr'[j] = wr[j]
  BY <1>1 DEF IInv, TypeOK
<1>7. wr[k] \cup {k - 1} = k - 1 .. N - 1
  BY <1>1, <1>2 DEF Pipes
<1>8. ASSUME NEW j \in Commands PROVE Descriptors(j)'
  <2>1. CASE j = k
    BY <1>2, <1>4, <1>7, <2>1 DEF Descriptors, Started
  <2>2. CASE j = k - 1
    BY <1>1, <1>2, <1>5, <1>7, <2>2 DEF Descriptors, Started
  <2>3. CASE j \notin {k, k - 1}
    <3>1. Descriptors(j) /\ at'[j] = at[j] /\ in'[j] = in[j] /\ out'[j] = out[j]
          /\ rd'[j] = rd[j] /\ wr'[j] = wr[j]
      BY <1>6, <2>3 DEF IInv
    <3>2. QED
      BY <3>1, SameDescriptors
  <2>4. QED
    BY <2>1, <2>2, <2>3
<1>9. ASSUME NEW j \in Pipes PROVE InTurn(j)'
  <2>1. InTurn(j) /\ j \in Commands /\ j + 1 \in Commands
    BY DEF IInv
  <2>2. CASE j = k
    <3>1. at'[j + 1] = at[j + 1]
      <4>1. j + 1 \notin {k, k - 1}
        BY <2>2
      <4>2. QED
        BY <1>6, <2>1, <4>1
    <3>2. QED
      BY <1>4, <2>1, <2>2, <3>1 DEF InTurn
  <2>3. CASE j = k - 1
    BY <1>1, <1>4, <1>5, <2>3 DEF InTurn
  <2>4. CASE j + 1 = k - 1
    <3>1. at'[j] = at[j]
      <4>1. j \notin {k, k - 1}
        BY <2>1, <2>4
      <4>2. QED
        BY <1>6, <2>1, <4>1
    <3>2. QED
      BY <1>2, <1>5, <2>1, <2>4, <3>1 DEF InTurn
  <2>5. CASE j \notin {k, k - 1} /\ j + 1 \notin {k, k - 1}
    BY <1>6, <2>1, <2>5 DEF InTurn
  <2>6. j + 1 = k => j = k - 1
    BY <2>1
  <2>7. QED
    BY <2>2, <2>3, <2>4, <2>5, <2>6
<1>10. shell' = "prompt" <=> at'[N] = "none"
  <2>1. CASE k = N
    BY <1>4, <2>1 DEF IInv
  <2>2. CASE k # N
    <3>1. N \notin {k, k - 1}
      BY <2>2
    <3>2. QED
      BY <1>6, <3>1 DEF IInv
  <2>3. QED
    BY <2>1, <2>2
<1>11. QED
  BY <1>3, <1>8, <1>9, <1>10 DEF IInv

LEMMA SetUpKeeps ==
  ASSUME SizesOK, IInv, NEW k \in Commands, Single(k) \/ Parent(k) \/ Child(k) \/ Redirect(k)
  PROVE  IInv'
<1> USE Numbers
<1>1. CASE Single(k)
  <2>1. at'[k] = "redirect" /\ \A j \in Commands \ {k} : at'[j] = at[j]
    BY <1>1 DEF Single, Goto, IInv, TypeOK
  <2>2. TypeOK'
    BY <1>1 DEF Single, Goto, IInv, TypeOK, Started
  <2>3. Descriptors(k)'
    <3>1. {k - 1} \cap Pipes = {} /\ k - 1 = Terminal
      BY <1>1 DEF Single, Terminal
    <3>2. QED
      BY <1>1, <2>1, <3>1 DEF Single, Goto, IInv, Descriptors, Started
  <2>4. QED
    BY <1>1, <2>1, <2>2, <2>3, OneStep DEF Single, Goto
<1>2. CASE Parent(k)
  <2>1. /\ at[k] = "parent" /\ at'[k] = "redirect" /\ in'[k] = k - 1 /\ wr'[k] = wr[k] \ {k - 1}
        /\ \A j \in Commands \ {k} : at'[j] = at[j] /\ in'[j] = in[j] /\ wr'[j] = wr[j]
    BY <1>2 DEF Parent, Goto, IInv, TypeOK
  <2>2. TypeOK'
    BY <1>2 DEF Parent, Goto, IInv, TypeOK, Started
  <2>3. /\ k > 1 /\ out[k] = Output(k) /\ rd[k] = {k - 1} /\ wr[k] = k - 1 .. N - 1
    BY <2>1 DEF IInv, Descriptors
  <2>4. Descriptors(k)'
    <3>1. wr'[k] = k .. N - 1 /\ {k - 1} \cap Pipes = {k - 1}
      BY <2>1, <2>3
    <3>2. QED
      BY <1>2, <2>1, <2>3, <3>1 DEF Parent, Descriptors, Started
  <2>5. QED
    BY <1>2, <2>1, <2>2, <2>4, OneStep DEF Parent
<1>3. CASE Child(k)
  <2>1. /\ at[k] = "child" /\ at'[k] = "exe" /\ out'[k] = k /\ rd'[k] = rd[k] \ {k}
        /\ \A j \in Commands \ {k} : at'[j] = at[j] /\ out'[j] = out[j] /\ rd'[j] = rd[j]
    BY <1>3 DEF Child, Goto, IInv, TypeOK
  <2>2. TypeOK'
    BY <1>3 DEF Child, Goto, IInv, TypeOK
  <2>3. Descriptors(k)'
    BY <1>3, <2>1 DEF Child, IInv, Descriptors, Output, Started
  <2>4. QED
    BY <1>3, <2>1, <2>2, <2>3, OneStep DEF Child
<1>4. CASE Redirect(k)
  <2>1. /\ at[k] = "redirect" /\ at'[k] = "exec"
        /\ in'[k] \in {in[k], File, Closed} /\ out'[k] \in {out[k], File, Closed}
        /\ \A j \in Commands \ {k} : at'[j] = at[j] /\ in'[j] = in[j] /\ out'[j] = out[j]
    BY <1>4 DEF Redirect, Goto, IInv, TypeOK
  <2>2. TypeOK'
    <3>1. File \in Int /\ Closed \in Int
      BY DEF File, Closed
    <3>2. in' \in [Commands -> Int] /\ out' \in [Commands -> Int]
      BY <1>4, <3>1 DEF Redirect, IInv, TypeOK
    <3>3. at' \in [Commands -> {"none", "child", "exe", "parent", "ended"} \cup Started]
      BY <1>4 DEF Redirect, Goto, IInv, TypeOK, Started
    <3>4. QED
      BY <1>4, <3>2, <3>3 DEF Redirect, IInv, TypeOK
  <2>3. Descriptors(k)'
    BY <1>4, <2>1 DEF Redirect, IInv, Descriptors, Started
  <2>4. QED
    BY <1>4, <2>1, <2>2, <2>3, OneStep DEF Redirect
<1>5. QED
  BY <1>1, <1>2, <1>3, <1>4

LEMMA ProgramKeeps ==
  ASSUME SizesOK, IInv, NEW k \in Commands, Exec(k) \/ Program(k)
  PROVE  IInv'
<1> USE Numbers
<1>0. held \in [Pipes -> 0 .. Capacity]
  BY DEF IInv, TypeOK
<1>1. CASE Exec(k)
  BY <1>0, <1>1, MovesOn, EndKeeps DEF Exec, Started
<1>2. CASE Chooses(k)
  BY <1>0, <1>2, MovesOn, EndKeeps DEF Chooses, Started
<1>3. CASE Reads(k)
  <2>1. held' \in [Pipes -> 0 .. Capacity]
    BY <1>0, <1>3 DEF Reads
  <2>2. QED
    BY <1>3, <2>1, MovesOn DEF Reads, Started
<1>4. CASE Writes(k)
  <2>1. ASSUME Goto(k, "writes", "runs"), UNCHANGED <<shell, in, out, rd, wr>>,
               \/ UNCHANGED held
               \/ \E p \in Pipes : held[p] < Capacity /\ held' = [held EXCEPT ![p] = held[p] + 1]
        PROVE  IInv'
    <3>1. held' \in [Pipes -> 0 .. Capacity]
      BY <1>0, <2>1
    <3>2. QED
      BY <2>1, <3>1, MovesOn DEF Started
  <2>2. ASSUME at[k] = "writes", End(k) PROVE IInv'
    BY <2>2, EndKeeps DEF Started
  <2>3. QED
    BY <1>4, <2>1, <2>2 DEF Writes
<1>5. QED
  BY <1>1, <1>2, <1>3, <1>4 DEF Program

LEMMA NextKeeps ==
  SizesOK /\ IInv /\ [Next]_vars => IInv'
<1> SUFFICES ASSUME SizesOK, IInv, [Next]_vars PROVE IInv'
  OBVIOUS
<1>1. CASE Wait \/ UNCHANGED vars
  <2>1. /\ UNCHANGED <<at, in, out, rd, wr, held>>
        /\ shell' = shell \/ (shell = "waits" /\ shell' = "done")
    BY <1>1 DEF Wait, vars
  <2>2. TypeOK'
    BY <2>1 DEF IInv, TypeOK
  <2>3. (\A k \in Commands : Descriptors(k)') /\ (\A k \in Pipes : InTurn(k)')
    BY <2>1 DEF IInv, Descriptors, Without, InTurn
  <2>4. QED
    BY <2>1, <2>2, <2>3 DEF IInv
<1>2. ASSUME NEW k \in Commands, Exe(k) \/ Program(k) PROVE IInv'
  BY <1>2, ForkKeeps, SetUpKeeps, ProgramKeeps DEF Exe
<1>3. QED
  BY <1>1, <1>2, RunKeeps DEF Next

-----------------------------------------------------------------------------
(* The theorems.                                                           *)

LEMMA Inductive ==
  ASSUME SizesOK
  PROVE  Spec => []IInv
<1>1. Init => IInv
  BY InitHolds
<1>2. IInv /\ [Next]_vars => IInv'
  BY NextKeeps
<1>3. QED
  BY <1>1, <1>2, PTL DEF Spec

\* exe() of mysh.c, for a line of any number of commands: a command comes to
\* the end of its input when all commands to its left have ended, not sooner.
THEOREM EndOfInput ==
  ASSUME SizesOK
  PROVE  Spec => []EndOfPipe
<1>1. IInv => EndOfPipe
  BY InvEndOfPipe
<1>2. QED
  BY <1>1, Inductive, PTL

\* The end of a command's output is held by its right-hand neighbour alone, so
\* that a write is refused when that has ended.
THEOREM OutputHasOneReader ==
  ASSUME SizesOK
  PROVE  Spec => []OneReader
<1>1. IInv => OneReader
  BY InvOneReader
<1>2. QED
  BY <1>1, Inductive, PTL

\* However exe() has set the commands up, whatever they do and wherever their
\* input and output go, some command that lives can go on.
THEOREM PipelineGoesOn ==
  ASSUME SizesOK
  PROVE  Spec => []NotAllBlocked
<1>1. IInv => NotAllBlocked
  BY InvNotAllBlocked
<1>2. QED
  BY <1>1, Inductive, PTL

-----------------------------------------------------------------------------
(***************************************************************************)
(* RowSums: no update of total is lost, and the threads' total is main's.  *)
(***************************************************************************)
CONSTANTS M, Wrap, Row
VARIABLES total, mutex, temp, pc, main, turn, alone

Sums == INSTANCE RowSums WITH m <- mutex, i <- turn

\* Induction, with the set of the numbers it is true of.
LEMMA RowInduction ==
  ASSUME NEW T, 0 \in T, \A n \in Nat : n \in T => n + 1 \in T
  PROVE  Nat \subseteq T
<1> DEFINE U == Nat \ T
<1>1. SUFFICES ASSUME U # {} PROVE FALSE
  OBVIOUS
<1>2. PICK least \in U : \A k \in U : least <= k
  BY <1>1, LeastNumber
<1>3. least \in Nat /\ least # 0 /\ least - 1 \in Nat /\ ~(least <= least - 1)
  BY <1>2
<1>4. least - 1 \in T
  BY <1>2, <1>3
<1>5. QED
  BY <1>3, <1>4

-----------------------------------------------------------------------------
(* Sums over sets of rows.                                                 *)

\* S gives each set of rows below n its sum.
SumsTo(S, n) ==
  /\ S \in [SUBSET (0 .. n - 1) -> Sums!Words]
  /\ S[{}] = 0
  /\ \A D \in SUBSET (0 .. n - 1), t \in 0 .. n - 1 :
       t \notin D => S[D \cup {t}] = Sums!Add(S[D], Row[t])

\* The sum of two ints is an int, and the order of two summands does not matter.
LEMMA AddProperties ==
  ASSUME Sums!SizesOK
  PROVE  /\ \A a, b \in Sums!Words : Sums!Add(a, b) \in Sums!Words
         /\ \A a, b, c \in Sums!Words : Sums!Add(Sums!Add(a, b), c) = Sums!Add(Sums!Add(a, c), b)
BY DEF Sums!SizesOK, Sums!Words, Sums!Add

\* If the sets of rows below n have sums, so have those below n + 1.
LEMMA SumsStep ==
  ASSUME Sums!SizesOK, NEW n \in Nat, n < M, NEW S, SumsTo(S, n)
  PROVE  \E R : SumsTo(R, n + 1)
<1> DEFINE R == [D \in SUBSET (0 .. n) |-> IF n \in D THEN Sums!Add(S[D \ {n}], Row[n]) ELSE S[D]]
<1>1. n + 1 - 1 = n /\ n \in Sums!Threads /\ Row[n] \in Sums!Words /\ n \notin 0 .. n - 1
  BY DEF Sums!SizesOK, Sums!Threads
<1>2. \A D \in SUBSET (0 .. n) : /\ D \ {n} \in SUBSET (0 .. n - 1)
                                 /\ n \notin D => D \in SUBSET (0 .. n - 1)
  OBVIOUS
<1>3. \A D \in SUBSET (0 .. n - 1) : S[D] \in Sums!Words
  BY DEF SumsTo
<1>4. R \in [SUBSET (0 .. n) -> Sums!Words]
  <2>1. ASSUME NEW D \in SUBSET (0 .. n)
        PROVE  (IF n \in D THEN Sums!Add(S[D \ {n}], Row[n]) ELSE S[D]) \in Sums!Words
    BY <1>1, <1>2, <1>3, AddProperties
  <2> QED BY <2>1
<1>5. R[{}] = 0
  BY DEF SumsTo
<1>6. ASSUME NEW D \in SUBSET (0 .. n), NEW t \in 0 .. n, t \notin D
      PROVE  R[D \cup {t}] = Sums!Add(R[D], Row[t])
  <2>0. D \cup {t} \in SUBSET (0 .. n)
    OBVIOUS
  <2>1. CASE t = n
    <3>1. (D \cup {t}) \ {n} = D /\ n \in D \cup {t} /\ n \notin D
      BY <1>6, <2>1
    <3>2. R[D \cup {t}] = Sums!Add(S[D], Row[n])  BY <2>0, <3>1
    <3>3. R[D] = S[D]  BY <3>1
    <3> QED BY <2>1, <3>2, <3>3
  <2>2. CASE t # n /\ n \in D
    <3> DEFINE E == D \ {n}
    <3>1. E \in SUBSET (0 .. n - 1) /\ t \in 0 .. n - 1 /\ t \notin E
      BY <1>2, <1>6, <2>2
    <3>2. (D \cup {t}) \ {n} = E \cup {t}  BY <2>2
    <3>3. S[E \cup {t}] = Sums!Add(S[E], Row[t])  BY <3>1 DEF SumsTo
    <3>4. R[D \cup {t}] = Sums!Add(Sums!Add(S[E], Row[t]), Row[n])  BY <2>0, <2>2, <3>2, <3>3
    <3>5. R[D] = Sums!Add(S[E], Row[n])  BY <2>2
    <3>6. S[E] \in Sums!Words /\ Row[t] \in Sums!Words
      BY <1>3, <3>1 DEF Sums!SizesOK, Sums!Threads
    <3>7. Sums!Add(Sums!Add(S[E], Row[t]), Row[n]) = Sums!Add(Sums!Add(S[E], Row[n]), Row[t])
      <4> HIDE DEF E, R
      <4> QED BY <1>1, <3>6, AddProperties
    <3> HIDE DEF E, R
    <3> QED BY <3>4, <3>5, <3>7
  <2>3. CASE t # n /\ n \notin D
    <3>1. D \in SUBSET (0 .. n - 1) /\ t \in 0 .. n - 1 /\ n \notin D \cup {t}
      BY <1>2, <2>3
    <3>2. S[D \cup {t}] = Sums!Add(S[D], Row[t])  BY <1>6, <3>1 DEF SumsTo
    <3> QED BY <2>0, <2>3, <3>1, <3>2
  <2> QED BY <2>1, <2>2, <2>3
<1> HIDE DEF R
<1>7. SumsTo(R, n + 1)
  BY <1>1, <1>4, <1>5, <1>6 DEF SumsTo
<1> QED BY <1>7

\* Every set of rows has a sum.
LEMMA SumsExist == ASSUME Sums!SizesOK PROVE \E S : SumsTo(S, M)
<1> DEFINE T == {n \in Nat : n <= M => \E S : SumsTo(S, n)}
<1>1. 0 \in T
  <2> DEFINE S == [D \in SUBSET (0 .. 0 - 1) |-> 0]
  <2>1. 0 .. 0 - 1 = {} /\ 0 \in Sums!Words  BY DEF Sums!SizesOK, Sums!Words
  <2>2. SumsTo(S, 0)  BY <2>1 DEF SumsTo
  <2> QED BY <2>2
<1>2. ASSUME NEW n \in Nat, n \in T PROVE n + 1 \in T
  <2>1. SUFFICES ASSUME n + 1 <= M PROVE \E S : SumsTo(S, n + 1)
    OBVIOUS
  <2>2. n < M /\ n <= M  BY <2>1 DEF Sums!SizesOK
  <2>3. PICK S : SumsTo(S, n)  BY <1>2, <2>2
  <2> QED BY <2>2, <2>3, SumsStep
<1> HIDE DEF T
<1>3. Nat \subseteq T
  BY <1>1, <1>2, RowInduction
<1>4. M \in T /\ M <= M
  BY <1>3 DEF Sums!SizesOK
<1> QED BY <1>4 DEF T

Sum == CHOOSE S : SumsTo(S, M)

LEMMA SumProperties ==
  ASSUME Sums!SizesOK
  PROVE  /\ Sum \in [SUBSET Sums!Threads -> Sums!Words]
         /\ Sum[{}] = 0
         /\ \A D \in SUBSET Sums!Threads, t \in Sums!Threads :
              t \notin D => Sum[D \cup {t}] = Sums!Add(Sum[D], Row[t])
<1>1. SumsTo(Sum, M)  BY SumsExist DEF Sum
<1> QED BY <1>1 DEF SumsTo, Sums!Threads

-----------------------------------------------------------------------------
(* The inductive invariant.                                                *)

States == {"none", "compute", "load", "sleep", "unlock", "exit"}

Types ==
  /\ total \in Sums!Words
  /\ mutex \in Sums!Threads \cup {Sums!Nobody}
  /\ temp \in [Sums!Threads -> Sums!Words]
  /\ pc \in [Sums!Threads -> States]
  /\ main \in {"sequential", "create", "join", "done"}
  /\ turn \in Sums!Threads

\* The mutex is held by the one thread that is between lock and unlock.
Exclusive == \A t \in Sums!Threads : pc[t] \in {"load", "sleep", "unlock"} <=> mutex = t

\* Threads are created, and joined, in the order of their rows.
InOrder ==
  /\ main = "sequential" => \A t \in Sums!Threads : pc[t] = "none"
  /\ main = "create" => \A t \in Sums!Threads : t >= turn => pc[t] = "none"
  /\ main = "join" => \A t \in Sums!Threads : t < turn => pc[t] = "exit"
  /\ main = "done" => \A t \in Sums!Threads : pc[t] = "exit"

\* total is at any time the sum of the rows that are in it.
Stored == {t \in Sums!Threads : pc[t] \in {"unlock", "exit"}}
SumSoFar ==
  IF main = "sequential" THEN total = Sum[0 .. turn - 1]
                         ELSE total = Sum[Stored] /\ alone = Sum[Sums!Threads]

SumsInv == Types /\ Exclusive /\ InOrder /\ Sums!NoLostUpdate /\ SumSoFar

LEMMA InitSumsInv == ASSUME Sums!SizesOK PROVE Sums!Init => SumsInv
<1>1. 0 \in Sums!Words /\ 0 \in Sums!Threads /\ 0 .. 0 - 1 = {}
  BY DEF Sums!SizesOK, Sums!Words, Sums!Threads
<1>2. \A t \in Sums!Threads : Sums!Nobody # t
  BY DEF Sums!SizesOK, Sums!Nobody, Sums!Threads
<1> QED BY <1>1, <1>2, SumProperties
        DEF Sums!Init, SumsInv, Types, States, Exclusive, InOrder, Sums!NoLostUpdate, SumSoFar

\* main adds a row alone.
LEMMA SequentialKeepsSumsInv == ASSUME Sums!SizesOK, SumsInv, Sums!Sequential PROVE SumsInv'
<1> USE DEF SumsInv, Types, States
<1>1. /\ M \in Nat /\ turn \in Nat /\ 0 \in Sums!Threads
      /\ 0 \in Sums!Words /\ Row[turn] \in Sums!Words
      /\ \A t \in Sums!Threads : t \in Nat
  BY DEF Sums!SizesOK, Sums!Threads, Sums!Words
<1>2. /\ 0 .. turn - 1 \in SUBSET Sums!Threads /\ turn \notin 0 .. turn - 1
      /\ 0 .. turn = (0 .. turn - 1) \cup {turn}
  BY <1>1 DEF Sums!Threads
<1>3. Sum[0 .. turn] = Sums!Add(total, Row[turn])
  <2>1. total = Sum[0 .. turn - 1]
    BY DEF Sums!Sequential, SumSoFar
  <2>2. Sum[(0 .. turn - 1) \cup {turn}] = Sums!Add(Sum[0 .. turn - 1], Row[turn])
    BY <1>2, SumProperties
  <2> QED BY <1>2, <2>1, <2>2
<1>4. Sums!Add(total, Row[turn]) \in Sums!Words
  BY <1>1, AddProperties
<1>5. CASE turn + 1 < M
  <2>1. turn' = turn + 1 /\ main' = "sequential" /\ total' = Sums!Add(total, Row[turn])
    BY <1>5 DEF Sums!Sequential, Sums!Turn
  <2>2. turn' \in Sums!Threads /\ turn' - 1 = turn
    BY <1>1, <1>5, <2>1 DEF Sums!Threads
  <2>3. SumSoFar'  BY <1>3, <2>1, <2>2 DEF SumSoFar
  <2>4. Sums!NoLostUpdate' /\ Exclusive' /\ InOrder'
    BY <2>1 DEF Sums!Sequential, Sums!NoLostUpdate, Exclusive, InOrder
  <2> QED BY <1>4, <2>1, <2>2, <2>3, <2>4 DEF Sums!Sequential
<1>6. CASE ~ (turn + 1 < M)
  <2>1. turn' = 0 /\ main' = "create" /\ total' = 0 /\ alone' = Sums!Add(total, Row[turn])
    BY <1>6 DEF Sums!Sequential, Sums!Turn
  <2>2. 0 .. turn = Sums!Threads
    BY <1>1, <1>6 DEF Sums!Threads
  <2>3. Stored' = {}
    BY DEF Stored, Sums!Sequential, InOrder
  <2>4. SumSoFar'  BY <1>3, <2>1, <2>2, <2>3, SumProperties DEF SumSoFar
  <2>5. Sums!NoLostUpdate' /\ Exclusive' /\ InOrder'
    BY <2>1 DEF Sums!Sequential, Sums!NoLostUpdate, Exclusive, InOrder
  <2> QED BY <1>1, <2>1, <2>4, <2>5 DEF Sums!Sequential
<1> QED BY <1>5, <1>6

\* main starts a thread.
LEMMA CreateKeepsSumsInv == ASSUME Sums!SizesOK, SumsInv, Sums!Create PROVE SumsInv'
<1> USE DEF SumsInv, Types, States
<1>1. main = "create" /\ pc[turn] = "none" /\ turn \in Nat /\ M \in Nat /\ 0 \in Sums!Threads
  BY DEF Sums!Create, InOrder, Sums!Threads, Sums!SizesOK
<1>2. /\ turn' \in Sums!Threads /\ main' \in {"create", "join"}
      /\ main' = "create" => turn' = turn + 1
      /\ main' = "join" => turn' = 0
  BY <1>1 DEF Sums!Create, Sums!Turn, Sums!Threads
<1>3. pc' = [pc EXCEPT ![turn] = "compute"] /\ UNCHANGED <<total, mutex, temp, alone>>
  BY DEF Sums!Create
<1>4. Exclusive'  BY <1>1, <1>3 DEF Exclusive
<1>5. Sums!NoLostUpdate'  BY <1>1, <1>3 DEF Sums!NoLostUpdate
<1>6. InOrder'
  <2>1. \A t \in Sums!Threads : t \in Nat  BY DEF Sums!Threads
  <2> QED BY <1>1, <1>2, <1>3, <2>1 DEF InOrder
<1>7. Stored' = Stored  BY <1>1, <1>3 DEF Stored
<1>8. SumSoFar'  BY <1>1, <1>2, <1>3, <1>7 DEF SumSoFar
<1> QED BY <1>2, <1>3, <1>4, <1>5, <1>6, <1>8

\* main waits for a thread.
LEMMA JoinKeepsSumsInv == ASSUME Sums!SizesOK, SumsInv, Sums!Join PROVE SumsInv'
<1> USE DEF SumsInv, Types, States
<1>1. main = "join" /\ pc[turn] = "exit" /\ turn \in Nat /\ M \in Nat /\ 0 \in Sums!Threads
  BY DEF Sums!Join, Sums!Threads, Sums!SizesOK
<1>2. /\ turn' \in Sums!Threads /\ main' \in {"join", "done"}
      /\ main' = "join" => turn' = turn + 1
      /\ main' = "done" => ~ (turn + 1 < M)
  BY <1>1 DEF Sums!Join, Sums!Turn, Sums!Threads
<1>3. UNCHANGED <<total, mutex, temp, pc, alone>>
  BY DEF Sums!Join
<1>4. InOrder'
  <2>1. \A t \in Sums!Threads : t \in Nat /\ t < M  BY <1>1 DEF Sums!Threads
  <2> QED BY <1>1, <1>2, <1>3, <2>1 DEF InOrder
<1>5. Stored' = Stored  BY <1>3 DEF Stored
<1>6. SumSoFar'  BY <1>1, <1>2, <1>3, <1>5 DEF SumSoFar
<1> QED BY <1>2, <1>3, <1>4, <1>6 DEF Exclusive, Sums!NoLostUpdate

\* A thread's step, one by one.
LEMMA ThreadKeepsSumsInv ==
  ASSUME Sums!SizesOK, SumsInv, NEW t \in Sums!Threads, Sums!Thread(t)
  PROVE  SumsInv'
<1> USE DEF SumsInv, Types, States, Sums!Goto
<1>0. Sums!Nobody \notin Sums!Threads  BY DEF Sums!SizesOK, Sums!Nobody, Sums!Threads
<1>1. InOrder'
  BY DEF Sums!Thread, Sums!Lock, Sums!Load, Sums!Store, Sums!Unlock, InOrder
<1>2. main # "sequential" /\ UNCHANGED <<main, turn, alone>>
  BY DEF Sums!Thread, Sums!Lock, Sums!Load, Sums!Store, Sums!Unlock, InOrder
<1>3. CASE Sums!Lock(t)
  <2>1. Stored' = Stored  BY <1>3 DEF Sums!Lock, Stored
  <2>2. SumSoFar'  BY <1>2, <1>3, <2>1 DEF Sums!Lock, SumSoFar
  <2> QED BY <1>0, <1>1, <1>3, <2>2 DEF Sums!Lock, Exclusive, Sums!NoLostUpdate
<1>4. CASE Sums!Load(t)
  <2>1. Row[t] \in Sums!Words  BY DEF Sums!SizesOK
  <2>2. Sums!Add(total, Row[t]) \in Sums!Words  BY <2>1, AddProperties
  <2>3. Sums!NoLostUpdate'  BY <1>4 DEF Sums!Load, Sums!NoLostUpdate
  <2>4. Stored' = Stored  BY <1>4 DEF Sums!Load, Stored
  <2>5. SumSoFar'  BY <1>2, <1>4, <2>4 DEF Sums!Load, SumSoFar
  <2> QED BY <1>1, <1>4, <2>2, <2>3, <2>5 DEF Sums!Load, Exclusive
<1>5. CASE Sums!Store(t)
  <2>1. \A u \in Sums!Threads : pc'[u] = "sleep" => pc[u] = "sleep" /\ u # t
    BY <1>5 DEF Sums!Store
  <2>2. \A u \in Sums!Threads : u # t => pc[u] # "sleep"
    BY <1>5 DEF Sums!Store, Exclusive
  <2>3. Sums!NoLostUpdate'  BY <2>1, <2>2 DEF Sums!NoLostUpdate
  <2>4. temp[t] \in Sums!Words /\ temp[t] = Sums!Add(total, Row[t])
    BY <1>5 DEF Sums!Store, Sums!NoLostUpdate
  <2>5. Stored' = Stored \cup {t} /\ t \notin Stored /\ Stored \in SUBSET Sums!Threads
    BY <1>5 DEF Sums!Store, Stored
  <2>6. SumSoFar'
    BY <1>2, <1>5, <2>4, <2>5, SumProperties DEF Sums!Store, SumSoFar
  <2> QED BY <1>1, <1>5, <2>3, <2>4, <2>6 DEF Sums!Store, Exclusive
<1>6. CASE Sums!Unlock(t)
  <2>1. Stored' = Stored  BY <1>6 DEF Sums!Unlock, Stored
  <2>2. SumSoFar'  BY <1>2, <1>6, <2>1 DEF Sums!Unlock, SumSoFar
  <2> QED BY <1>0, <1>1, <1>6, <2>2 DEF Sums!Unlock, Exclusive, Sums!NoLostUpdate
<1> QED BY <1>3, <1>4, <1>5, <1>6 DEF Sums!Thread

LEMMA NextKeepsSumsInv == ASSUME Sums!SizesOK PROVE SumsInv /\ [Sums!Next]_(Sums!vars) => SumsInv'
<1> SUFFICES ASSUME SumsInv, [Sums!Next]_(Sums!vars) PROVE SumsInv'
    OBVIOUS
<1>1. CASE Sums!Sequential  BY <1>1, SequentialKeepsSumsInv
<1>2. CASE Sums!Create  BY <1>2, CreateKeepsSumsInv
<1>3. CASE Sums!Join  BY <1>3, JoinKeepsSumsInv
<1>4. CASE \E t \in Sums!Threads : Sums!Thread(t)  BY <1>4, ThreadKeepsSumsInv
<1>5. CASE UNCHANGED Sums!vars
  BY <1>5 DEF Sums!vars, SumsInv, Types, Exclusive, InOrder, Sums!NoLostUpdate, SumSoFar, Stored
<1> QED BY <1>1, <1>2, <1>3, <1>4, <1>5 DEF Sums!Next

-----------------------------------------------------------------------------
(***************************************************************************)
(* For every number of threads: between a thread's read of total and its   *)
(* write no other thread writes (C4-1.c:28-33).                            *)
(***************************************************************************)
THEOREM NoUpdateIsLost == ASSUME Sums!SizesOK PROVE Sums!Spec => []Sums!NoLostUpdate
<1>1. Sums!Init => SumsInv  BY InitSumsInv
<1>2. SumsInv /\ [Sums!Next]_(Sums!vars) => SumsInv'  BY NextKeepsSumsInv
<1>3. SumsInv => Sums!NoLostUpdate  BY DEF SumsInv
<1> QED BY <1>1, <1>2, <1>3, PTL DEF Sums!Spec

(***************************************************************************)
(* For every number of threads, every matrix and every width of an int:    *)
(* what is printed after the last join is what main had computed alone.    *)
(***************************************************************************)
THEOREM ThreadsAddUp == ASSUME Sums!SizesOK PROVE Sums!Spec => []Sums!TotalsAgree
<1>1. Sums!Init => SumsInv  BY InitSumsInv
<1>2. SumsInv /\ [Sums!Next]_(Sums!vars) => SumsInv'  BY NextKeepsSumsInv
<1>3. SumsInv => Sums!TotalsAgree
  <2> SUFFICES ASSUME SumsInv, main = "done" PROVE total = alone
      BY DEF Sums!TotalsAgree
  <2>1. Stored = Sums!Threads  BY DEF SumsInv, InOrder, Stored
  <2> QED BY <2>1 DEF SumsInv, SumSoFar
<1> QED BY <1>1, <1>2, <1>3, PTL DEF Sums!Spec

=============================================================================
