--------------------------- MODULE NodeTreeProofs ---------------------------
(***************************************************************************)
(* The pointers of Lab2 stay a tree, its cwd stays a directory from which  *)
(* one gets up to the root, and its commands do to the paths what PathTree *)
(* says, for any bound on the nodes and any pathnames.                     *)
(***************************************************************************)
EXTENDS NodeTree, FiniteSetTheorems, SequenceTheorems, WellFoundedInduction, TLAPS

-----------------------------------------------------------------------------
(* Loops and recursions.                                                   *)

\* The least element of a set of naturals.
LEMMA MinIsIn ==
  ASSUME NEW T \in SUBSET Nat, T # {}
  PROVE  Min(T) \in T /\ \A k \in T : Min(T) <= k
<1>1. PICK m \in T : \A k \in T : <<k, m>> \notin OpToRel(<, Nat)
  BY WFMin, NatLessThanWellFounded
<1>2. \A k \in T : ~(k < m)
  BY <1>1 DEF OpToRel
<1>3. \E n \in T : \A k \in T : n <= k
  BY <1>2
<1>4. QED
  BY <1>3 DEF Min

\* Induction up to n, with the set of the numbers it is true of.
LEMMA LoopInduction ==
  ASSUME NEW n \in Nat, NEW T, 0 \in T, \A k \in 1 .. n : k - 1 \in T => k \in T
  PROVE  n \in T
<1> DEFINE U == {k \in 0 .. n : k \notin T}
<1>1. SUFFICES ASSUME U # {} PROVE FALSE
  BY DEF U
<1>2. Min(U) \in U /\ \A k \in U : Min(U) <= k
  BY <1>1, MinIsIn
<1>3. PICK m \in U : \A k \in U : m <= k
  BY <1>2
<1>4. m \in 1 .. n /\ m - 1 \in 0 .. n /\ ~(m <= m - 1)
  BY <1>3
<1>5. m - 1 \in T
  BY <1>3, <1>4
<1>6. QED
  BY <1>3, <1>4, <1>5

LEMMA BoundFacts == NNodes \in Nat /\ NNodes > 0 /\ root \in Nodes /\ NULL \notin Nodes
BY PathsAssumption DEF root, NULL, Nodes

\* A turn of one of the loops, on x.
Turn(loop, c, x, k) ==
  IF loop = "reach" THEN UNION {{n} \cup Leads(c.h, c.ways, n) : n \in x}
  ELSE IF loop = "walk" THEN Into(c.h, x, c.names[k])
  ELSE IF loop = "load" THEN ReadLine(x, c[k])
  ELSE CdStep(x, c[k])

Turns(g, loop, c, start, n) ==
  g = [k \in 0 .. n |-> IF k = 0 THEN start ELSE Turn(loop, c, g[k - 1], k)]

\* A loop of n turns has its values.
LEMMA TurnsExist ==
  ASSUME NEW loop, NEW c, NEW start, NEW n \in Nat
  PROVE  \E g : Turns(g, loop, c, start, n)
<1> DEFINE T == {m \in Nat : \E g : Turns(g, loop, c, start, m)}
<1>1. 0 \in T
  <2>1. Turns([k \in 0 .. 0 |-> start], loop, c, start, 0)
    BY DEF Turns
  <2>2. QED
    BY <2>1
<1>2. ASSUME NEW m \in 1 .. n, m - 1 \in T
      PROVE  m \in T
  <2>1. PICK g : Turns(g, loop, c, start, m - 1)
    BY <1>2
  <2> DEFINE f == [k \in 0 .. m |-> IF k = 0 THEN start ELSE Turn(loop, c, g[k - 1], k)]
  <2>2. \A k \in 0 .. m - 1 : g[k] = f[k]
    BY <2>1 DEF Turns
  <2>3. \A k \in 0 .. m : k # 0 => k - 1 \in 0 .. m - 1
    OBVIOUS
  <2>4. \A k \in 0 .. m : f[k] = IF k = 0 THEN start ELSE Turn(loop, c, f[k - 1], k)
    BY <2>2, <2>3
  <2>5. f = [k \in 0 .. m |-> f[k]]
    OBVIOUS
  <2> HIDE DEF f
  <2>6. Turns(f, loop, c, start, m)
    BY <2>4, <2>5 DEF Turns
  <2>7. QED
    BY <2>6
<1> HIDE DEF T
<1>3. n \in T
  BY <1>1, <1>2, LoopInduction
<1>4. QED
  BY <1>3 DEF T

\* What a recursion over the pointers of h makes of the place e.
Value(what, h, f, e) ==
  IF what = "chain"
  THEN IF e[1] = 0 \/ e[2] = NULL THEN <<>>
       ELSE <<e[2]>> \o f[<<e[1] - 1, h[e[2]].siblingPtr>>]
  ELSE IF what = "path"
  THEN IF e[1] = 0 \/ e[2] = NULL \/ h[e[2]].parentPtr = NULL THEN <<>>
       ELSE Append(f[<<e[1] - 1, h[e[2]].parentPtr>>], h[e[2]].name)
  ELSE IF what = "lines"
  THEN IF e[1] = 0 \/ e[2] = NULL THEN <<>>
       ELSE InPreorder(Line(h, e[2]), f[<<e[1] - 1, h[e[2]].childPtr>>],
                                      f[<<e[1] - 1, h[e[2]].siblingPtr>>])
  ELSE IF e[1] = 0 \/ e[2] = NULL THEN {}
       ELSE {e[2]} \cup f[<<e[1] - 1, h[e[2]].childPtr>>] \cup f[<<e[1] - 1, h[e[2]].siblingPtr>>]

Values(f, what, h, n) ==
  f = [e \in (0 .. n) \X (Nodes \cup {NULL}) |-> Value(what, h, f, e)]

\* The names of nodes, those of NewTree included.
Names == STRING \cup {"", "/"}
Types == {"-", "D", "F"}

IsNode(x) ==
  x \in [type : Types, name : Names, parentPtr : Nodes \cup {NULL},
         childPtr : Nodes \cup {NULL}, siblingPtr : Nodes \cup {NULL}]

IsHeap(h) == DOMAIN h = Nodes /\ \A n \in Nodes : IsNode(h[n])

\* The value of a place with k nodes ahead is made of values of places with k - 1.
LEMMA ValueOfFewer ==
  ASSUME NEW what, NEW h, IsHeap(h), NEW k \in Nat, NEW f, NEW g,
         \A x \in Nodes \cup {NULL} : k # 0 => f[<<k - 1, x>>] = g[<<k - 1, x>>],
         NEW m \in Nodes \cup {NULL}
  PROVE  Value(what, h, f, <<k, m>>) = Value(what, h, g, <<k, m>>)
<1>1. CASE k = 0 \/ m = NULL
  BY <1>1 DEF Value
<1>2. CASE k # 0 /\ m # NULL
  <2>1. {h[m].siblingPtr, h[m].parentPtr, h[m].childPtr} \subseteq Nodes \cup {NULL}
    BY <1>2 DEF IsHeap, IsNode
  <2>2. /\ f[<<k - 1, h[m].siblingPtr>>] = g[<<k - 1, h[m].siblingPtr>>]
        /\ f[<<k - 1, h[m].parentPtr>>] = g[<<k - 1, h[m].parentPtr>>]
        /\ f[<<k - 1, h[m].childPtr>>] = g[<<k - 1, h[m].childPtr>>]
    BY <1>2, <2>1
  <2>3. QED
    BY <2>2 DEF Value
<1>3. QED
  BY <1>1, <1>2

\* The recursions have their values.
LEMMA ValuesExist ==
  ASSUME NEW what, NEW h, IsHeap(h)
  PROVE  \E f : Values(f, what, h, NNodes)
<1> DEFINE T == {n \in Nat : \E f : Values(f, what, h, n)}
           M == Nodes \cup {NULL}
<1>1. 0 \in T
  <2> DEFINE none == IF what \in {"chain", "path", "lines"} THEN <<>> ELSE {}
             f == [e \in (0 .. 0) \X M |-> none]
  <2>1. \A e \in (0 .. 0) \X M : e[1] = 0
    OBVIOUS
  <2>2. \A e \in (0 .. 0) \X M : Value(what, h, f, e) = none
    BY <2>1 DEF Value
  <2> HIDE DEF none
  <2> HIDE DEF M
  <2>3. f = [e \in (0 .. 0) \X M |-> Value(what, h, f, e)]
    <3>1. f = [e \in (0 .. 0) \X M |-> f[e]] /\ \A e \in (0 .. 0) \X M : f[e] = none
      OBVIOUS
    <3> HIDE DEF f
    <3>2. QED
      BY <2>2, <3>1
  <2> HIDE DEF f
  <2>4. Values(f, what, h, 0)
    BY <2>3 DEF Values, M
  <2>5. QED
    BY <2>4
<1>2. ASSUME NEW n \in 1 .. NNodes, n - 1 \in T
      PROVE  n \in T
  <2>1. PICK f : Values(f, what, h, n - 1)
    BY <1>2
  <2> DEFINE g == [e \in (0 .. n) \X M |-> Value(what, h, f, e)]
  <2>2. \A k \in 0 .. n, x \in M : g[<<k, x>>] = Value(what, h, f, <<k, x>>)
    OBVIOUS
  <2>3. \A k \in 0 .. n - 1, x \in M : f[<<k, x>>] = Value(what, h, f, <<k, x>>)
    BY <2>1 DEF Values
  <2>4. g = [e \in (0 .. n) \X M |-> g[e]]
    OBVIOUS
  <2> HIDE DEF g
  <2>5. \A k \in 0 .. n, x \in M : k # 0 => g[<<k - 1, x>>] = f[<<k - 1, x>>]
    <3>1. \A k \in 0 .. n : k # 0 => k - 1 \in 0 .. n /\ k - 1 \in 0 .. n - 1
      OBVIOUS
    <3>2. QED
      BY <2>2, <2>3, <3>1
  <2>6. \A k \in 0 .. n, x \in M : g[<<k, x>>] = Value(what, h, g, <<k, x>>)
    <3>1. ASSUME NEW k \in 0 .. n, NEW x \in M
          PROVE  Value(what, h, f, <<k, x>>) = Value(what, h, g, <<k, x>>)
      <4>1. k \in Nat
        OBVIOUS
      <4>2. \A y \in M : k # 0 => f[<<k - 1, y>>] = g[<<k - 1, y>>]
        BY <2>5
      <4>3. QED
        BY <4>1, <4>2, ValueOfFewer
    <3>2. QED
      BY <2>2, <3>1
  <2>7. g = [e \in (0 .. n) \X M |-> Value(what, h, g, e)]
    <3>1. \A e \in (0 .. n) \X M : g[e] = Value(what, h, g, e)
      BY <2>6
    <3>2. QED
      BY <2>4, <3>1
  <2>8. Values(g, what, h, n)
    BY <2>7 DEF Values
  <2>9. QED
    BY <2>8
<1> HIDE DEF T
<1>3. NNodes \in T
  BY <1>1, <1>2, LoopInduction, BoundFacts
<1>4. QED
  BY <1>3 DEF T

\* What a recursion makes of a place is in V if it makes it of what is in V.
LEMMA ValuesTyped ==
  ASSUME NEW what, NEW h, IsHeap(h), NEW f, Values(f, what, h, NNodes), NEW V,
         \A k \in 0 .. NNodes, m \in Nodes \cup {NULL} :
           (\A x \in Nodes \cup {NULL} : k # 0 => f[<<k - 1, x>>] \in V)
             => Value(what, h, f, <<k, m>>) \in V
  PROVE  \A m \in Nodes \cup {NULL} : f[<<NNodes, m>>] \in V
<1> DEFINE M == Nodes \cup {NULL}
           T == {k \in 0 .. NNodes : \A m \in M : f[<<k, m>>] \in V}
<1> HIDE DEF M
<1>1. \A k \in 0 .. NNodes, m \in M : f[<<k, m>>] = Value(what, h, f, <<k, m>>)
  BY DEF Values, M
<1>2. \A k \in 0 .. NNodes, m \in M :
        (\A x \in M : k # 0 => f[<<k - 1, x>>] \in V) => f[<<k, m>>] \in V
  BY <1>1 DEF M
<1>3. 0 \in T
  BY <1>2, BoundFacts
<1>4. ASSUME NEW k \in 1 .. NNodes, k - 1 \in T
      PROVE  k \in T
  <2>1. k \in 0 .. NNodes /\ \A x \in M : f[<<k - 1, x>>] \in V
    BY <1>4
  <2>2. QED
    BY <1>2, <2>1
<1> HIDE DEF T
<1>5. NNodes \in T
  BY <1>3, <1>4, LoopInduction, BoundFacts
<1>6. QED
  BY <1>5 DEF T, M

\* The member of s at i, or NULL beside its ends.
At(s, i) == IF i \in 1 .. Len(s) THEN s[i] ELSE NULL

\* The pointers lead from n along s.
Follows(h, s, n) ==
  /\ n = At(s, 1)
  /\ \A i \in 1 .. Len(s) : h[s[i]].siblingPtr = At(s, i + 1)

LEMMA FollowsTail ==
  ASSUME NEW h, NEW s \in Seq(Nodes), s # <<>>, NEW n, Follows(h, s, n)
  PROVE  /\ n = s[1] /\ n \in Nodes
         /\ Tail(s) \in Seq(Nodes) /\ Len(Tail(s)) = Len(s) - 1
         /\ Follows(h, Tail(s), h[n].siblingPtr)
         /\ s = <<n>> \o Tail(s)
<1> DEFINE t == Tail(s)
<1>1. Len(s) \in Nat /\ Len(s) >= 1
  BY EmptySeq
<1>2. n = s[1] /\ n \in Nodes
  BY <1>1, ElementOfSeq DEF Follows, At
<1>3. t \in Seq(Nodes) /\ Len(t) = Len(s) - 1 /\ \A i \in 1 .. Len(t) : t[i] = s[i + 1]
  OBVIOUS
<1> HIDE DEF t
<1>4. \A i \in 0 .. Len(t) : At(t, i + 1) = At(s, i + 2)
  BY <1>1, <1>3 DEF At
<1>5. h[n].siblingPtr = At(t, 1)
  BY <1>1, <1>2, <1>3, <1>4, SMTT(40) DEF Follows
<1>6. \A i \in 1 .. Len(t) : h[t[i]].siblingPtr = At(t, i + 1)
  <2>1. SUFFICES ASSUME NEW i \in 1 .. Len(t) PROVE h[t[i]].siblingPtr = At(t, i + 1)
    OBVIOUS
  <2>2. i + 1 \in 1 .. Len(s) /\ t[i] = s[i + 1] /\ (i + 1) + 1 = i + 2
    BY <1>1, <1>3
  <2>3. h[s[i + 1]].siblingPtr = At(s, i + 2)
    BY <2>2 DEF Follows
  <2>4. QED
    BY <1>4, <2>2, <2>3
<1>7. s = <<n>> \o t
  BY <1>1, <1>2, <1>3
<1>8. QED
  BY <1>2, <1>3, <1>5, <1>6, <1>7 DEF Follows, t

\* Chain(h, n) is the sequence that the pointers lead along.
LEMMA ChainIs ==
  ASSUME NEW h, IsHeap(h), NEW s \in Seq(Nodes), Len(s) <= NNodes,
         NEW n, Follows(h, s, n)
  PROVE  Chain(h, n) = s
<1> DEFINE Froms(g) ==
             g = [e \in Places |-> IF e[1] = 0 \/ e[2] = NULL THEN <<>>
                                   ELSE <<e[2]>> \o g[<<e[1] - 1, h[e[2]].siblingPtr>>]]
           from == CHOOSE g : Froms(g)
           M == Nodes \cup {NULL}
<1>1. PICK g : Values(g, "chain", h, NNodes)
  BY ValuesExist
<1>2. Froms(g)
  BY <1>1 DEF Values, Value, Places
<1>3. Chain(h, n) = from[<<NNodes, n>>]
  BY DEF Chain
<1>4. Froms(from)
  <2> HIDE DEF Froms
  <2>1. QED
    BY <1>2
<1> HIDE DEF from, M
<1>5. \A k \in 0 .. NNodes, m \in M :
        from[<<k, m>>] = IF k = 0 \/ m = NULL THEN <<>>
                         ELSE <<m>> \o from[<<k - 1, h[m].siblingPtr>>]
  BY <1>4 DEF Places, M
<1> HIDE DEF Froms
<1> DEFINE T == {k \in 0 .. NNodes : \A t \in Seq(Nodes) : \A m :
                   Len(t) <= k /\ Follows(h, t, m) => m \in M /\ from[<<k, m>>] = t}
<1>6. ASSUME NEW t \in Seq(Nodes), NEW m, Follows(h, t, m), t = <<>>
      PROVE  m = NULL /\ m \in M
  BY <1>6 DEF Follows, At, M
<1>7. 0 \in T
  <2>1. ASSUME NEW t \in Seq(Nodes), NEW m, Len(t) <= 0, Follows(h, t, m)
        PROVE  m \in M /\ from[<<0, m>>] = t
    <3>1. t = <<>>
      BY <2>1
    <3>2. m \in M
      BY <2>1, <3>1, <1>6
    <3>3. QED
      <4>1. 0 \in 0 .. NNodes
        BY BoundFacts
      <4>2. from[<<0, m>>] = <<>>
        BY <1>5, <3>2, <4>1
      <4>3. QED
        BY <3>1, <3>2, <4>2
  <2>2. QED
    BY <2>1, BoundFacts
<1>8. ASSUME NEW k \in 1 .. NNodes, k - 1 \in T
      PROVE  k \in T
  <2>1. ASSUME NEW t \in Seq(Nodes), NEW m, Len(t) <= k, Follows(h, t, m)
        PROVE  m \in M /\ from[<<k, m>>] = t
    <3>0. k \in 0 .. NNodes /\ k # 0 /\ k - 1 \in 0 .. NNodes
      BY BoundFacts
    <3>1. CASE t = <<>>
      <4>1. m = NULL /\ m \in M
        BY <2>1, <3>1, <1>6
      <4>2. QED
        BY <1>5, <3>0, <3>1, <4>1
    <3>2. CASE t # <<>>
      <4>1. /\ m = t[1] /\ m \in Nodes
            /\ Tail(t) \in Seq(Nodes) /\ Len(Tail(t)) = Len(t) - 1
            /\ Follows(h, Tail(t), h[m].siblingPtr)
            /\ t = <<m>> \o Tail(t)
        BY <2>1, <3>2, FollowsTail
      <4>2. Len(Tail(t)) <= k - 1
        BY <2>1, <4>1
      <4>3. from[<<k - 1, h[m].siblingPtr>>] = Tail(t)
        BY <1>8, <4>1, <4>2
      <4>4. m \in M /\ m # NULL
        BY <4>1, BoundFacts DEF M
      <4>5. from[<<k, m>>] = <<m>> \o from[<<k - 1, h[m].siblingPtr>>]
        BY <1>5, <3>0, <4>4
      <4>6. QED
        BY <4>1, <4>3, <4>4, <4>5
    <3>3. QED
      BY <3>1, <3>2
  <2>2. QED
    BY <2>1
<1> HIDE DEF T
<1>9. NNodes \in T
  BY <1>7, <1>8, LoopInduction, BoundFacts
<1>10. QED
  BY <1>3, <1>9 DEF T

LEMMA PathIsNames ==
  ASSUME NEW h, IsHeap(h), NEW n \in Nodes \cup {NULL}
  PROVE  PathOf(h, n) \in Seq(Names)
<1> DEFINE Pathed(g) ==
             g = [e \in Places |->
                    IF e[1] = 0 \/ e[2] = NULL \/ h[e[2]].parentPtr = NULL THEN <<>>
                    ELSE Append(g[<<e[1] - 1, h[e[2]].parentPtr>>], h[e[2]].name)]
           path == CHOOSE g : Pathed(g)
           M == Nodes \cup {NULL}
<1>1. PICK g : Values(g, "path", h, NNodes)
  BY ValuesExist
<1>2. Pathed(g)
  BY <1>1 DEF Values, Value, Places
<1>3. PathOf(h, n) = path[<<NNodes, n>>]
  BY DEF PathOf
<1>4. Pathed(path)
  <2> HIDE DEF Pathed
  <2>1. QED
    BY <1>2
<1> HIDE DEF path
<1>5. Values(path, "path", h, NNodes)
  BY <1>4 DEF Values, Value, Places
<1> HIDE DEF Pathed, M
<1>6. ASSUME NEW k \in 0 .. NNodes, NEW m \in M,
             \A x \in M : k # 0 => path[<<k - 1, x>>] \in Seq(Names)
      PROVE  Value("path", h, path, <<k, m>>) \in Seq(Names)
  <2>1. CASE k = 0 \/ m = NULL \/ h[m].parentPtr = NULL
    <3>1. Value("path", h, path, <<k, m>>) = <<>>
      BY <2>1 DEF Value
    <3>2. <<>> \in Seq(Names)
      OBVIOUS
    <3>3. QED
      BY <3>1, <3>2, Zenon
  <2>2. CASE ~(k = 0 \/ m = NULL \/ h[m].parentPtr = NULL)
    <3>1. h[m].parentPtr \in M /\ h[m].name \in Names
      BY <2>2 DEF IsHeap, IsNode, M
    <3>2. path[<<k - 1, h[m].parentPtr>>] \in Seq(Names)
      BY <1>6, <2>2, <3>1
    <3>3. QED
      BY <2>2, <3>1, <3>2 DEF Value
  <2>3. QED
    BY <2>1, <2>2
<1>7. \A m \in M : path[<<NNodes, m>>] \in Seq(Names)
  BY <1>5, <1>6, ValuesTyped DEF M
<1>8. QED
  BY <1>3, <1>7 DEF M

Lines == Types \X Seq(Names)

LEMMA WritesLines ==
  ASSUME NEW h, IsHeap(h), NEW n \in Nodes \cup {NULL}
  PROVE  preOrderWrite(h, n) \in Seq(Lines)
<1> DEFINE Written(g) ==
             g = [e \in Places |->
                    IF e[1] = 0 \/ e[2] = NULL THEN <<>>
                    ELSE InPreorder(Line(h, e[2]), g[<<e[1] - 1, h[e[2]].childPtr>>],
                                                   g[<<e[1] - 1, h[e[2]].siblingPtr>>])]
           lines == CHOOSE g : Written(g)
           M == Nodes \cup {NULL}
<1>1. PICK g : Values(g, "lines", h, NNodes)
  BY ValuesExist
<1>2. Written(g)
  BY <1>1 DEF Values, Value, Places
<1>3. preOrderWrite(h, n) = lines[<<NNodes, n>>]
  BY DEF preOrderWrite
<1>4. Written(lines)
  <2> HIDE DEF Written
  <2>1. QED
    BY <1>2
<1> HIDE DEF lines
<1>5. Values(lines, "lines", h, NNodes)
  BY <1>4 DEF Values, Value, Places
<1> HIDE DEF Written, M
<1>6. ASSUME NEW k \in 0 .. NNodes, NEW m \in M,
             \A x \in M : k # 0 => lines[<<k - 1, x>>] \in Seq(Lines)
      PROVE  Value("lines", h, lines, <<k, m>>) \in Seq(Lines)
  <2>1. CASE k = 0 \/ m = NULL
    BY <2>1 DEF Value
  <2>2. CASE ~(k = 0 \/ m = NULL)
    <3>0. m \in Nodes /\ IsNode(h[m])
      BY <2>2 DEF IsHeap, M
    <3>1. h[m].childPtr \in M /\ h[m].siblingPtr \in M /\ h[m].type \in Types /\ m \in Nodes
      BY <3>0 DEF IsNode, M
    <3>2. Line(h, m) \in Lines
      BY <3>1, PathIsNames DEF Line, Lines
    <3>3. /\ lines[<<k - 1, h[m].childPtr>>] \in Seq(Lines)
          /\ lines[<<k - 1, h[m].siblingPtr>>] \in Seq(Lines)
      BY <1>6, <2>2, <3>1
    <3> DEFINE line == Line(h, m)
               below == lines[<<k - 1, h[m].childPtr>>]
               after == lines[<<k - 1, h[m].siblingPtr>>]
    <3>4. Value("lines", h, lines, <<k, m>>) = InPreorder(line, below, after)
      BY <2>2 DEF Value
    <3> HIDE DEF line, below, after
    <3>5. line \in Lines /\ below \in Seq(Lines) /\ after \in Seq(Lines)
      BY <3>2, <3>3 DEF line, below, after
    <3> HIDE DEF Lines
    <3>6. InPreorder(line, below, after) \in Seq(Lines)
      <4>1. <<line>> \in Seq(Lines)
        BY <3>5
      <4>2. <<line>> \o below \in Seq(Lines)
        BY <3>5, <4>1
      <4>3. QED
        BY <3>5, <4>2 DEF InPreorder
    <3>7. QED
      BY <3>4, <3>6
  <2>3. QED
    BY <2>1, <2>2
<1>7. \A m \in M : lines[<<NNodes, m>>] \in Seq(Lines)
  BY <1>5, <1>6, ValuesTyped DEF M
<1>8. QED
  BY <1>3, <1>7 DEF M

-----------------------------------------------------------------------------
(* What is reached is closed.                                              *)

\* One gets from a node only to nodes.
StaysIn(h, ways) == \A n \in Nodes : Leads(h, ways, n) \subseteq Nodes

Closed(h, ways, R) == \A n \in R : Leads(h, ways, n) \subseteq R

LEMMA NodesAreFinite == IsFiniteSet(Nodes) /\ Cardinality(Nodes) = NNodes
BY FS_Interval, BoundFacts DEF Nodes

\* As many rounds as there are nodes reach all that can be reached.
LEMMA ReachedIsClosed ==
  ASSUME NEW h, NEW ways, StaysIn(h, ways), NEW S \in SUBSET Nodes
  PROVE  /\ S \subseteq Reached(h, S, ways) /\ Reached(h, S, ways) \subseteq Nodes
         /\ Closed(h, ways, Reached(h, S, ways))
<1> DEFINE Afters(g) ==
             g = [k \in 0 .. NNodes |->
                    IF k = 0 THEN S ELSE UNION {{n} \cup Leads(h, ways, n) : n \in g[k - 1]}]
           after == CHOOSE g : Afters(g)
           Wider(R) == UNION {{n} \cup Leads(h, ways, n) : n \in R}
           c == [h |-> h, ways |-> ways]
<1>1. PICK g : Turns(g, "reach", c, S, NNodes)
  BY TurnsExist, BoundFacts
<1>2. Afters(g)
  BY <1>1, ZenonT(40) DEF Turns, Turn
<1>3. Reached(h, S, ways) = after[NNodes]
  BY DEF Reached
<1>4. Afters(after)
  <2> HIDE DEF Afters
  <2>1. QED
    BY <1>2
<1> HIDE DEF after
<1>5. after[0] = S /\ \A k \in 1 .. NNodes : after[k] = Wider(after[k - 1])
  <2>1. \A k \in 0 .. NNodes : after[k] = IF k = 0 THEN S ELSE Wider(after[k - 1])
    BY <1>4
  <2> HIDE DEF Wider, Afters
  <2>2. 0 \in 0 .. NNodes /\ \A k \in 1 .. NNodes : k \in 0 .. NNodes /\ k # 0
    BY BoundFacts
  <2>3. QED
    BY <2>1, <2>2
<1> HIDE DEF Afters
<1>6. ASSUME NEW R \in SUBSET Nodes
      PROVE  /\ R \subseteq Wider(R) /\ Wider(R) \subseteq Nodes
             /\ Wider(R) = R => Closed(h, ways, R)
             /\ Closed(h, ways, R) => Wider(R) = R
  BY DEF StaysIn, Closed
<1> HIDE DEF Wider
<1>7. ASSUME NEW R \in SUBSET Nodes
      PROVE  /\ Cardinality(R) \in Nat /\ Cardinality(R) <= NNodes
             /\ Cardinality(R) = NNodes => R = Nodes
             /\ Wider(R) = R \/ Cardinality(R) < Cardinality(Wider(R))
  <2>1. IsFiniteSet(R) /\ Cardinality(R) <= NNodes /\ (Cardinality(R) = NNodes => R = Nodes)
    BY NodesAreFinite, FS_Subset
  <2>2. IsFiniteSet(Wider(R)) /\ R \in SUBSET Wider(R)
    BY <1>6, NodesAreFinite, FS_Subset
  <2>3. /\ Cardinality(R) <= Cardinality(Wider(R))
        /\ Cardinality(R) = Cardinality(Wider(R)) => R = Wider(R)
    BY <2>2, FS_Subset
  <2>4. Cardinality(R) \in Nat /\ Cardinality(Wider(R)) \in Nat
    BY <2>1, <2>2, FS_CardinalityType
  <2>5. QED
    BY <2>1, <2>3, <2>4
<1> DEFINE T == {k \in 0 .. NNodes :
                   /\ S \subseteq after[k] /\ after[k] \subseteq Nodes
                   /\ Wider(after[k]) = after[k] \/ k <= Cardinality(after[k])}
<1>8. 0 \in T
  BY <1>5, <1>7, BoundFacts
<1>9. ASSUME NEW k \in 1 .. NNodes, k - 1 \in T
      PROVE  k \in T
  <2> DEFINE R == after[k - 1]
  <2>1. /\ S \subseteq R /\ R \in SUBSET Nodes
        /\ Wider(R) = R \/ k - 1 <= Cardinality(R)
    BY <1>9
  <2>2. after[k] = Wider(R)
    BY <1>5
  <2> HIDE DEF R
  <2>3. R \subseteq Wider(R) /\ Wider(R) \in SUBSET Nodes
    BY <1>6, <2>1
  <2>4. Wider(Wider(R)) = Wider(R) \/ k <= Cardinality(Wider(R))
    <3>1. CASE Wider(R) = R
      BY <3>1
    <3>2. CASE Wider(R) # R
      <4>1. /\ Cardinality(R) \in Nat /\ Cardinality(Wider(R)) \in Nat
            /\ Cardinality(R) < Cardinality(Wider(R))
        BY <1>7, <2>1, <2>3, <3>2
      <4>2. QED
        BY <2>1, <3>2, <4>1
    <3>3. QED
      BY <3>1, <3>2
  <2>5. S \subseteq Wider(R)
    BY <2>1, <2>3
  <2>6. k \in 0 .. NNodes
    BY BoundFacts
  <2>7. QED
    BY <2>2, <2>3, <2>4, <2>5, <2>6
<1> HIDE DEF T
<1>10. NNodes \in T
  BY <1>8, <1>9, LoopInduction, BoundFacts
<1> DEFINE R == after[NNodes]
<1>11. S \subseteq R /\ R \in SUBSET Nodes /\ (Wider(R) = R \/ NNodes <= Cardinality(R))
  BY <1>10 DEF T
<1> HIDE DEF R
<1>12. Closed(h, ways, R)
  <2>1. CASE Wider(R) = R
    BY <1>6, <1>11, <2>1
  <2>2. CASE NNodes <= Cardinality(R)
    <3>1. Cardinality(R) = NNodes
      BY <1>7, <1>11, <2>2, BoundFacts
    <3>2. R = Nodes
      BY <1>7, <1>11, <3>1
    <3>3. QED
      BY <3>2 DEF Closed, StaysIn
  <2>3. QED
    BY <1>11, <2>1, <2>2
<1>13. QED
  BY <1>3, <1>11, <1>12 DEF R

-----------------------------------------------------------------------------
(* A tree of pointers.                                                     *)

IsDir(h, n) == n \in Nodes /\ h[n].type = "D"

\* The nodes in s are the children of p.
Kids(h, p, s) ==
  /\ s \in Seq(Nodes)
  /\ Follows(h, s, h[p].childPtr)
  /\ \A i \in 1 .. Len(s) : h[s[i]].parentPtr = p
  /\ \A i, j \in 1 .. Len(s) : h[s[i]].name = h[s[j]].name => i = j
  /\ s # <<>> => h[p].type = "D"

ListsOfKids(h) == \A p \in Nodes : \E s : Kids(h, p, s)

\* All that is in the tree, or was, is a directory or a file, and its parent a directory.
BelowDirs(h) ==
  \A n \in Nodes \ {root} :
    h[n] # Blank => h[n].type \in {"D", "F"} /\ IsDir(h, h[n].parentPtr)

\* The ways up all lead to the root: a set that no way leads out of has the root in it.
UpClosed(h, S) == \A n \in S : h[n].parentPtr \in S \cup {NULL}

UpToRoot(h) ==
  \A S \in SUBSET Nodes : UpClosed(h, S) /\ (\E n \in S : h[n] # Blank) => root \in S

IsTree(h) ==
  /\ IsHeap(h)
  /\ IsDir(h, root) /\ h[root].parentPtr = NULL
  /\ ListsOfKids(h)
  /\ BelowDirs(h)
  /\ UpToRoot(h)

LEMMA BlankIsNode == /\ IsNode(Blank) /\ Blank.type = "-" /\ Blank.parentPtr = NULL
                     /\ Blank.childPtr = NULL /\ Blank.siblingPtr = NULL
BY DEF Blank, IsNode, Types, Names

\* No child stands in the list twice, so that the bound on a walk is no bound.
LEMMA ChildrenAre ==
  ASSUME NEW h, IsHeap(h), NEW p \in Nodes, NEW s, Kids(h, p, s)
  PROVE  Children(h, p) = s
<1>1. s \in Seq(Nodes) /\ Len(s) \in Nat /\ DOMAIN s = 1 .. Len(s)
  BY DEF Kids
<1>2. Len(s) <= NNodes
  <2>1. s \in [1 .. Len(s) -> Nodes]
    BY <1>1
  <2>2. \A i, j \in 1 .. Len(s) : s[i] = s[j] => i = j
    BY DEF Kids
  <2>3. s \in Injection(1 .. Len(s), Nodes)
    BY <2>1, <2>2 DEF Injection, IsInjective
  <2>4. Cardinality(1 .. Len(s)) <= Cardinality(Nodes)
    BY <2>3, NodesAreFinite, FS_Injection
  <2>5. Cardinality(1 .. Len(s)) = Len(s)
    BY <1>1, FS_Interval
  <2>6. QED
    BY <2>4, <2>5, NodesAreFinite
<1>3. QED
  BY <1>1, <1>2, ChainIs DEF Kids, Children

LEMMA KidsAre ==
  ASSUME NEW h, IsTree(h), NEW p \in Nodes
  PROVE  Kids(h, p, Children(h, p))
BY ChildrenAre DEF IsTree, ListsOfKids

\* A child is a node, in no other list, and not the root.
LEMMA AKid ==
  ASSUME NEW h, IsTree(h), NEW p \in Nodes, NEW s, Kids(h, p, s), NEW i \in 1 .. Len(s)
  PROVE  /\ s[i] \in Nodes \ {root} /\ h[s[i]].parentPtr = p /\ h[s[i]] # Blank
         /\ h[s[i]].type \in {"D", "F"} /\ IsDir(h, p)
<1>1. s \in Seq(Nodes) /\ s[i] \in Nodes /\ h[s[i]].parentPtr = p /\ s # <<>>
  BY DEF Kids
<1>2. p # NULL
  BY BoundFacts
<1>3. h[s[i]] # Blank /\ s[i] # root
  BY <1>1, <1>2, BlankIsNode DEF IsTree
<1>4. QED
  BY <1>1, <1>3 DEF IsTree, BelowDirs, Kids, IsDir

LEMMA PointersStayIn ==
  ASSUME NEW h, IsTree(h), NEW ways
  PROVE  StaysIn(h, ways)
<1>1. SUFFICES ASSUME NEW n \in Nodes PROVE Leads(h, ways, n) \subseteq Nodes
  BY DEF StaysIn
<1>2. h[n].parentPtr \in Nodes \cup {NULL}
  BY DEF IsTree, IsHeap, IsNode
<1>3. Children(h, n) \in Seq(Nodes)
  BY KidsAre DEF Kids
<1>4. ToSet(Children(h, n)) \subseteq Nodes
  BY <1>3 DEF ToSet
<1>5. QED
  BY <1>2, <1>4 DEF Leads

\* The first child of that name, if there is one.
LEMMA FindProperties ==
  ASSUME NEW h, IsTree(h), NEW p \in Nodes, NEW name, NEW types
  PROVE  LET n == Find(h, p, name, types)
             s == Children(h, p)
         IN  \/ /\ n = NULL
                /\ \A i \in 1 .. Len(s) : h[s[i]].type \in types => h[s[i]].name # name
             \/ /\ n \in Nodes /\ h[n].type \in types /\ h[n].name = name
                /\ \E i \in 1 .. Len(s) : s[i] = n
<1> DEFINE s == Children(h, p)
           found == {i \in DOMAIN s : h[s[i]].name = name /\ h[s[i]].type \in types}
<1>1. s \in Seq(Nodes)
  BY KidsAre DEF Kids
<1>2. Find(h, p, name, types) = IF found = {} THEN NULL ELSE s[Min(found)]
  BY DEF Find
<1> HIDE DEF s
<1>3. DOMAIN s = 1 .. Len(s) /\ Len(s) \in Nat /\ found \in SUBSET Nat
  BY <1>1
<1>4. CASE found = {}
  BY <1>2, <1>3, <1>4 DEF s
<1>5. CASE found # {}
  <2>1. Min(found) \in found
    BY <1>3, <1>5, MinIsIn
  <2>2. Find(h, p, name, types) = s[Min(found)] /\ Min(found) \in 1 .. Len(s)
    BY <1>2, <1>3, <1>5, <2>1
  <2>3. /\ s[Min(found)] \in Nodes /\ h[s[Min(found)]].type \in types
        /\ h[s[Min(found)]].name = name
    BY <1>1, <2>1, <2>2
  <2>4. QED
    BY <2>2, <2>3 DEF s
<1>6. QED
  BY <1>4, <1>5

\* A node without children, in any heap.
LEMMA NoKids ==
  ASSUME NEW h, NEW p, h[p].childPtr = NULL
  PROVE  Kids(h, p, <<>>)
<1>1. Len(<<>>) = 0 /\ <<>> \in Seq(Nodes)
  OBVIOUS
<1>2. At(<<>>, 1) = NULL /\ 1 .. Len(<<>>) = {}
  BY <1>1 DEF At
<1>3. QED
  BY <1>1, <1>2 DEF Kids, Follows

LEMMA NewTreeIsTree == IsTree(NewTree)
<1>1. /\ DOMAIN NewTree = Nodes
      /\ NewTree[root] = [Blank EXCEPT !.type = "D", !.name = "/"]
      /\ \A n \in Nodes \ {root} : NewTree[n] = Blank
  BY BoundFacts DEF NewTree
<1>2. /\ IsNode(NewTree[root]) /\ NewTree[root].type = "D"
      /\ NewTree[root].parentPtr = NULL /\ NewTree[root].childPtr = NULL
  BY <1>1, BlankIsNode DEF IsNode, Types, Names
<1> HIDE DEF root
<1>3. IsHeap(NewTree)
  BY <1>1, <1>2, BlankIsNode DEF IsHeap
<1>4. ListsOfKids(NewTree)
  <2>1. \A p \in Nodes : NewTree[p].childPtr = NULL
    BY <1>1, <1>2, BlankIsNode
  <2>2. QED
    BY <2>1, NoKids DEF ListsOfKids
<1>5. BelowDirs(NewTree) /\ UpToRoot(NewTree)
  BY <1>1 DEF BelowDirs, UpToRoot
<1>6. QED
  BY <1>2, <1>3, <1>4, <1>5, BoundFacts DEF IsTree, IsDir

\* What one gets to from the root and at.
LEMMA LiveIsClosed ==
  ASSUME NEW h, IsTree(h), NEW at \in Nodes
  PROVE  /\ root \in Live(h, at) /\ at \in Live(h, at) /\ Live(h, at) \subseteq Nodes
         /\ \A n \in Live(h, at) : /\ h[n].parentPtr \in Live(h, at) \cup {NULL}
                                   /\ ToSet(Children(h, n)) \subseteq Live(h, at)
<1> DEFINE ways == {"up", "down"}
           R == Reached(h, {root, at}, ways)
<1>1. StaysIn(h, ways) /\ {root, at} \in SUBSET Nodes
  BY PointersStayIn, BoundFacts
<1>2. {root, at} \subseteq R /\ R \subseteq Nodes /\ Closed(h, ways, R)
  BY <1>1, ReachedIsClosed
<1>3. Live(h, at) = R
  BY DEF Live
<1> HIDE DEF R
<1>4. \A n \in R : {h[n].parentPtr} \ {NULL} \subseteq R /\ ToSet(Children(h, n)) \subseteq R
  BY <1>2 DEF Closed, Leads
<1>5. QED
  BY <1>2, <1>3, <1>4

\* What Tidy leaves of a node.
LEMMA TidiedNode ==
  ASSUME NEW h, IsTree(h), NEW at \in Nodes, NEW n \in Nodes
  PROVE  LET t == Tidy(h, at)
         IN  /\ IsNode(t[n])
             /\ n \notin Live(h, at) => t[n] = Blank
             /\ n \in Live(h, at) => /\ t[n].type = h[n].type /\ t[n].name = h[n].name
                                     /\ t[n].parentPtr = h[n].parentPtr
                                     /\ t[n].childPtr = h[n].childPtr
                                     /\ h[n] = Blank => t[n] = Blank
             /\ (/\ n \in Live(h, at) /\ h[n].parentPtr # NULL
                 /\ n \in ToSet(Children(h, h[n].parentPtr)))
                  => t[n] = h[n]
<1> DEFINE in == h[n].parentPtr # NULL /\ n \in ToSet(Children(h, h[n].parentPtr))
           cut == [h[n] EXCEPT !.siblingPtr = NULL]
<1>1. Tidy(h, at)[n] = IF n \notin Live(h, at) THEN Blank ELSE IF in THEN h[n] ELSE cut
  BY DEF Tidy
<1>2. IsNode(h[n])
  BY DEF IsTree, IsHeap
<1>3. /\ IsNode(cut) /\ cut.type = h[n].type /\ cut.name = h[n].name
      /\ cut.parentPtr = h[n].parentPtr
      /\ cut.childPtr = h[n].childPtr /\ (h[n] = Blank => cut = Blank)
  BY <1>2, BlankIsNode DEF IsNode
<1> HIDE DEF in, cut
<1>4. QED
  BY <1>1, <1>2, <1>3, BlankIsNode DEF in

\* What cd and the other commands leave of a heap is a tree still, with the live nodes as they
\* were.
LEMMA TidyIsTree ==
  ASSUME NEW h, IsTree(h), NEW at, IsDir(h, at)
  PROVE  LET t == Tidy(h, at)
         IN  /\ IsTree(t) /\ IsDir(t, at)
             /\ \A n \in Live(h, at) : /\ t[n].type = h[n].type /\ t[n].name = h[n].name
                                       /\ t[n].parentPtr = h[n].parentPtr
                                       /\ Children(t, n) = Children(h, n)
<1> DEFINE t == Tidy(h, at)
           L == Live(h, at)
<1>1. /\ root \in L /\ at \in L /\ L \subseteq Nodes
      /\ \A n \in L : h[n].parentPtr \in L \cup {NULL} /\ ToSet(Children(h, n)) \subseteq L
  BY LiveIsClosed DEF IsDir
<1>2. \A n \in Nodes : /\ IsNode(t[n])
                       /\ n \notin L => t[n] = Blank
                       /\ n \in L => /\ t[n].type = h[n].type /\ t[n].name = h[n].name
                                     /\ t[n].parentPtr = h[n].parentPtr
                                     /\ t[n].childPtr = h[n].childPtr
                                     /\ h[n] = Blank => t[n] = Blank
  BY TidiedNode DEF IsDir
<1>3. \A n \in L : h[n].parentPtr # NULL /\ n \in ToSet(Children(h, h[n].parentPtr)) => t[n] = h[n]
  BY <1>1, TidiedNode DEF IsDir
<1>4. DOMAIN t = Nodes
  BY DEF Tidy
<1> HIDE DEF t, L
<1>5. IsHeap(t)
  BY <1>2, <1>4 DEF IsHeap
<1>6. IsDir(t, root) /\ t[root].parentPtr = NULL /\ IsDir(t, at)
  BY <1>1, <1>2 DEF IsTree, IsDir
<1>7. ASSUME NEW p \in L
      PROVE  Kids(t, p, Children(h, p))
  <2> DEFINE s == Children(h, p)
  <2>0. p \in Nodes
    BY <1>1
  <2>1. Kids(h, p, s)
    BY <2>0, KidsAre
  <2>2. ToSet(s) \subseteq L
    BY <1>1
  <2>3. ASSUME NEW i \in 1 .. Len(s)
        PROVE  t[s[i]] = h[s[i]]
    <3>1. s[i] \in ToSet(s)
      BY <2>1 DEF Kids, ToSet
    <3>2. h[s[i]].parentPtr = p /\ p # NULL
      BY <2>0, <2>1, BoundFacts DEF Kids
    <3>3. QED
      BY <1>3, <2>2, <3>1, <3>2
  <2> HIDE DEF s
  <2>4. t[p].childPtr = h[p].childPtr /\ t[p].type = h[p].type
    BY <1>2, <2>0
  <2>5. Kids(t, p, s)
    BY <2>1, <2>3, <2>4 DEF Kids, Follows
  <2>6. QED
    BY <2>5 DEF s
<1>8. ListsOfKids(t)
  <2>1. SUFFICES ASSUME NEW p \in Nodes PROVE \E s : Kids(t, p, s)
    BY DEF ListsOfKids
  <2>2. CASE p \notin L
    BY <1>2, <2>2, NoKids, BlankIsNode
  <2>3. QED
    BY <1>7, <2>2
<1>9. \A n \in L : Children(t, n) = Children(h, n)
  BY <1>1, <1>5, <1>7, ChildrenAre
<1>10. BelowDirs(t)
  <2>1. SUFFICES ASSUME NEW n \in Nodes \ {root}, t[n] # Blank
                 PROVE  t[n].type \in {"D", "F"} /\ IsDir(t, t[n].parentPtr)
    BY DEF BelowDirs
  <2>2. n \in L /\ h[n] # Blank
    BY <1>2, <2>1
  <2>3. h[n].type \in {"D", "F"} /\ IsDir(h, h[n].parentPtr)
    BY <2>1, <2>2 DEF IsTree, BelowDirs
  <2>4. h[n].parentPtr \in L
    BY <1>1, <2>2, <2>3, BoundFacts DEF IsDir
  <2>5. QED
    BY <1>1, <1>2, <2>2, <2>3, <2>4 DEF IsDir
<1>11. UpToRoot(t)
  <2>1. SUFFICES ASSUME NEW S \in SUBSET Nodes, UpClosed(t, S),
                        NEW n \in S, t[n] # Blank
                 PROVE  root \in S
    BY DEF UpToRoot
  <2>2. UpClosed(h, S \cap L)
    BY <1>1, <1>2, <2>1 DEF UpClosed
  <2>3. n \in S \cap L /\ h[n] # Blank
    BY <1>2, <2>1
  <2>4. root \in S \cap L
    BY <2>2, <2>3 DEF IsTree, UpToRoot
  <2>5. QED
    BY <2>4
<1>12. QED
  BY <1>1, <1>2, <1>5, <1>6, <1>10, <1>11, <1>8, <1>9 DEF IsTree, t, L

\* h and g differ in pointers to children and siblings only, but for x.
SameBut(h, g, x) ==
  \A n \in Nodes \ {x} : /\ g[n].type = h[n].type /\ g[n].name = h[n].name
                         /\ g[n].parentPtr = h[n].parentPtr
                         /\ h[n] = Blank <=> g[n] = Blank

\* g is h with a new last child of p.
Added(h, g, p, name, type, new) ==
  /\ new \in Nodes \ {root, p} /\ h[new] = Blank /\ SameBut(h, g, new)
  /\ g[new].type = type /\ g[new].name = name /\ g[new].parentPtr = p
  /\ \A q \in Nodes : Children(g, q) = IF q = new THEN <<>>
                                      ELSE IF q = p THEN Append(Children(h, p), new)
                                      ELSE Children(h, q)

DirsStay(h, g) == \A n : IsDir(h, n) => IsDir(g, n)

\* The list s with x at its end.
LEMMA AtAppend ==
  ASSUME NEW s \in Seq(Nodes), NEW x \in Nodes
  PROVE  /\ Append(s, x) \in Seq(Nodes) /\ Len(Append(s, x)) = Len(s) + 1
         /\ \A i \in 1 .. Len(s) : Append(s, x)[i] = s[i] /\ At(Append(s, x), i) = s[i]
         /\ Append(s, x)[Len(s) + 1] = x /\ At(Append(s, x), Len(s) + 1) = x
         /\ At(Append(s, x), Len(s) + 2) = NULL
<1>1. /\ Append(s, x) \in Seq(Nodes) /\ Len(Append(s, x)) = Len(s) + 1 /\ Len(s) \in Nat
      /\ \A i \in 1 .. Len(s) : Append(s, x)[i] = s[i]
      /\ Append(s, x)[Len(s) + 1] = x
  OBVIOUS
<1>2. QED
  BY <1>1 DEF At

\* The list with the new child at its end.
LEMMA KidsWithNew ==
  ASSUME NEW h, NEW p \in Nodes, NEW s, Kids(h, p, s), IsDir(h, p),
         NEW g, NEW x \in Nodes \ {p}, SameBut(h, g, x),
         \A i \in 1 .. Len(s) : s[i] # x /\ h[s[i]].name # g[x].name,
         g[p].childPtr = IF s = <<>> THEN x ELSE h[p].childPtr,
         \A i \in 1 .. Len(s) : g[s[i]].siblingPtr = IF i = Len(s) THEN x ELSE h[s[i]].siblingPtr,
         g[x].siblingPtr = NULL, g[x].parentPtr = p
  PROVE  Kids(g, p, Append(s, x))
<1> DEFINE t == Append(s, x)
<1>1. s \in Seq(Nodes) /\ Len(s) \in Nat /\ \A i \in 1 .. Len(s) : s[i] \in Nodes \ {x}
  BY DEF Kids
<1>2. /\ t \in Seq(Nodes) /\ Len(t) = Len(s) + 1
      /\ \A i \in 1 .. Len(s) : t[i] = s[i] /\ At(t, i) = s[i]
      /\ t[Len(s) + 1] = x /\ At(t, Len(s) + 1) = x /\ At(t, Len(s) + 2) = NULL
  BY <1>1, AtAppend
<1> HIDE DEF t
<1>3. g[p].childPtr = At(t, 1)
  <2>1. CASE s = <<>>
    BY <1>2, <2>1
  <2>2. CASE s # <<>>
    <3>1. 1 \in 1 .. Len(s)
      BY <1>1, <2>2
    <3>2. QED
      BY <1>2, <2>2, <3>1 DEF Kids, Follows, At
  <2>3. QED
    BY <2>1, <2>2
<1>4. ASSUME NEW i \in 1 .. Len(t)
      PROVE  g[t[i]].siblingPtr = At(t, i + 1) /\ g[t[i]].parentPtr = p
  <2>1. CASE i = Len(s) + 1
    <3>1. i + 1 = Len(s) + 2
      BY <1>1, <2>1
    <3>2. QED
      BY <1>2, <2>1, <3>1
  <2>2. CASE i \in 1 .. Len(s)
    <3>1. t[i] = s[i] /\ g[s[i]].parentPtr = p
      BY <1>1, <1>2, <2>2 DEF SameBut, Kids
    <3>2. g[s[i]].siblingPtr = At(t, i + 1)
      <4>1. CASE i = Len(s)
        BY <1>2, <2>2, <4>1
      <4>2. CASE i # Len(s)
        <5>1. i + 1 \in 1 .. Len(s)
          BY <1>1, <2>2, <4>2
        <5>2. h[s[i]].siblingPtr = At(s, i + 1)
          BY <2>2 DEF Kids, Follows
        <5>3. QED
          BY <1>2, <2>2, <4>2, <5>1, <5>2 DEF At
      <4>3. QED
        BY <4>1, <4>2
    <3>3. QED
      BY <3>1, <3>2
  <2>3. QED
    BY <1>1, <1>2, <2>1, <2>2
<1>5. \A i, j \in 1 .. Len(t) : g[t[i]].name = g[t[j]].name => i = j
  <2>1. \A i \in 1 .. Len(s) : g[t[i]].name = h[s[i]].name /\ g[t[i]].name # g[x].name
    BY <1>1, <1>2 DEF SameBut
  <2>2. \A i \in 1 .. Len(t) : i \in 1 .. Len(s) \/ i = Len(s) + 1
    BY <1>1, <1>2
  <2>3. QED
    BY <1>2, <2>1, <2>2 DEF Kids
<1>6. g[p].type = "D"
  BY DEF SameBut, IsDir
<1>7. QED
  BY <1>2, <1>3, <1>4, <1>5, <1>6 DEF Kids, Follows, t

\* make adds one node, as the last child of its parent.
LEMMA AttachIsTree ==
  ASSUME NEW h, IsTree(h), NEW p, IsDir(h, p), NEW name \in Names, NEW type \in {"D", "F"},
         \A i \in 1 .. Len(Children(h, p)) :
           h[Children(h, p)[i]].type \in {"D", "F"} => h[Children(h, p)[i]].name # name,
         Attach(h, p, name, type) # FULL
  PROVE  LET g == Attach(h, p, name, type)
         IN  IsTree(g) /\ DirsStay(h, g) /\ \E new : Added(h, g, p, name, type, new)
<1> DEFINE g == Attach(h, p, name, type)
           child == [Blank EXCEPT !.type = type, !.name = name, !.parentPtr = p]
           free == {n \in Nodes : h[n] = Blank}
           new == Min(free)
           s == Children(h, p)
           made == [h EXCEPT ![new] = child]
           kids(q) == IF q = new THEN <<>> ELSE IF q = p THEN Append(s, new) ELSE Children(h, q)
<1>1. /\ free # {}
      /\ g = IF s = <<>> THEN [made EXCEPT ![p].childPtr = new]
             ELSE [made EXCEPT ![Last(s)].siblingPtr = new]
  BY DEF Attach, AppendChild
<1>2. new \in Nodes /\ h[new] = Blank
  <2>1. free \in SUBSET Nat
    BY DEF Nodes
  <2>2. QED
    BY <1>1, <2>1, MinIsIn
<1>3. p \in Nodes \ {new} /\ root # new /\ DOMAIN h = Nodes
  BY <1>2, BlankIsNode DEF IsDir, IsTree, IsHeap
<1>4. /\ IsNode(child) /\ child.type = type /\ child.name = name /\ child.parentPtr = p
      /\ child.childPtr = NULL /\ child.siblingPtr = NULL /\ child # Blank
  BY <1>3, BlankIsNode DEF IsNode, Types
<1>5. /\ Kids(h, p, s) /\ s \in Seq(Nodes) /\ Len(s) \in Nat
      /\ \A i \in 1 .. Len(s) : s[i] \in Nodes \ {new} /\ h[s[i]].parentPtr = p
  <2>1. Kids(h, p, s)
    BY <1>3, KidsAre
  <2>2. \A i \in 1 .. Len(s) : s[i] \in Nodes /\ h[s[i]].parentPtr = p /\ h[s[i]] # Blank
    BY <1>3, <2>1, AKid
  <2> HIDE DEF new, s
  <2>3. QED
    BY <1>2, <2>1, <2>2 DEF Kids
<1>6. \A i \in 1 .. Len(s) : h[s[i]].name # name
  <2>1. \A i \in 1 .. Len(s) : h[s[i]].type \in {"D", "F"} => h[s[i]].name # name
    OBVIOUS
  <2> HIDE DEF s
  <2>2. QED
    BY <1>3, <1>5, <2>1, AKid
<1> HIDE DEF new, free, child, s
<1>7. s # <<>> => Last(s) = s[Len(s)] /\ Len(s) \in 1 .. Len(s)
  BY <1>5 DEF Last
<1>8. /\ DOMAIN g = Nodes /\ g[new] = child
      /\ \A n \in Nodes \ {new} :
           g[n] = IF s = <<>> /\ n = p THEN [h[n] EXCEPT !.childPtr = new]
                  ELSE IF s # <<>> /\ n = s[Len(s)] THEN [h[n] EXCEPT !.siblingPtr = new]
                  ELSE h[n]
  BY <1>1, <1>2, <1>3, <1>5, <1>7
<1> HIDE DEF g
<1>9. ASSUME NEW n \in Nodes \ {new}
      PROVE  /\ IsNode(g[n])
             /\ g[n].type = h[n].type /\ g[n].name = h[n].name /\ g[n].parentPtr = h[n].parentPtr
             /\ g[n].childPtr = IF s = <<>> /\ n = p THEN new ELSE h[n].childPtr
             /\ g[n].siblingPtr = IF s # <<>> /\ n = s[Len(s)] THEN new ELSE h[n].siblingPtr
  <2>1. IsNode(h[n])
    BY DEF IsTree, IsHeap
  <2>2. QED
    BY <1>2, <1>8, <2>1 DEF IsNode
<1>10. SameBut(h, g, new)
  <2>1. SUFFICES ASSUME NEW n \in Nodes \ {new} PROVE h[n] = Blank <=> g[n] = Blank
    BY <1>9 DEF SameBut
  <2>2. n = p => h[n].type = "D" /\ g[n].type = "D"
    BY <1>9 DEF IsDir
  <2>3. s # <<>> /\ n = s[Len(s)] => h[n].parentPtr = p /\ g[n].parentPtr = p /\ p # NULL
    BY <1>3, <1>5, <1>7, <1>9, BoundFacts
  <2>4. QED
    BY <1>8, <2>2, <2>3, BlankIsNode
<1>11. IsHeap(g)
  BY <1>4, <1>8, <1>9 DEF IsHeap
<1>12. IsDir(g, root) /\ g[root].parentPtr = NULL
  BY <1>3, <1>9 DEF IsTree, IsDir
<1>13. DirsStay(h, g)
  BY <1>2, <1>9, BlankIsNode DEF DirsStay, IsDir
<1>14. ASSUME NEW q \in Nodes
       PROVE  Kids(g, q, kids(q))
  <2>2. CASE q = new
    BY <1>4, <1>8, <2>2, NoKids
  <2>3. CASE q = p
    <3>1. \A i \in 1 .. Len(s) : g[s[i]].siblingPtr = IF i = Len(s) THEN new ELSE h[s[i]].siblingPtr
      <4>1. ASSUME NEW i \in 1 .. Len(s)
            PROVE  g[s[i]].siblingPtr = IF i = Len(s) THEN new ELSE h[s[i]].siblingPtr
        <5>1. s # <<>> /\ (s[i] = s[Len(s)] => i = Len(s))
          BY <1>5, <1>7 DEF Kids
        <5>2. QED
          BY <1>5, <1>9, <5>1
      <4>2. QED
        BY <4>1
    <3>2. /\ g[p].childPtr = IF s = <<>> THEN new ELSE h[p].childPtr
          /\ g[new].siblingPtr = NULL /\ g[new].parentPtr = p /\ g[new].name = name
      BY <1>3, <1>4, <1>8, <1>9
    <3>3. Kids(g, p, Append(s, new))
      BY <1>2, <1>3, <1>5, <1>6, <1>10, <3>1, <3>2, KidsWithNew
    <3>4. QED
      BY <1>3, <2>3, <3>3
  <2>4. CASE q # new /\ q # p
    <3> DEFINE t == Children(h, q)
    <3>1. Kids(h, q, t)
      BY KidsAre
    <3> HIDE DEF t
    <3>2. ASSUME NEW i \in 1 .. Len(t)
          PROVE  /\ g[t[i]].siblingPtr = h[t[i]].siblingPtr /\ g[t[i]].name = h[t[i]].name
                 /\ g[t[i]].parentPtr = h[t[i]].parentPtr
      <4>1. t[i] \in Nodes /\ h[t[i]].parentPtr = q /\ h[t[i]] # Blank
        BY <3>1, AKid
      <4>2. t[i] \in Nodes \ {new} /\ (s # <<>> => t[i] # s[Len(s)])
        BY <1>2, <1>5, <1>7, <2>4, <4>1
      <4>3. QED
        BY <1>9, <4>2
    <3>3. g[q].childPtr = h[q].childPtr /\ g[q].type = h[q].type
      BY <1>9, <2>4
    <3>4. Kids(g, q, t)
      BY <3>1, <3>2, <3>3 DEF Kids, Follows
    <3>5. QED
      BY <2>4, <3>4 DEF t
  <2>5. QED
    BY <2>2, <2>3, <2>4
<1>15. BelowDirs(g)
  <2>1. SUFFICES ASSUME NEW n \in Nodes \ {root}, g[n] # Blank
                 PROVE  g[n].type \in {"D", "F"} /\ IsDir(g, g[n].parentPtr)
    BY DEF BelowDirs
  <2>2. CASE n = new
    BY <1>4, <1>8, <1>13, <2>2 DEF DirsStay
  <2>3. CASE n # new
    <3>1. h[n] # Blank
      BY <1>10, <2>1, <2>3 DEF SameBut
    <3>2. h[n].type \in {"D", "F"} /\ IsDir(h, h[n].parentPtr)
      BY <3>1 DEF IsTree, BelowDirs
    <3>3. QED
      BY <1>9, <1>13, <2>3, <3>2 DEF DirsStay
  <2>4. QED
    BY <2>2, <2>3
<1>16. UpToRoot(g)
  <2>1. SUFFICES ASSUME NEW S \in SUBSET Nodes, UpClosed(g, S), NEW n \in S, g[n] # Blank
                 PROVE  root \in S
    BY DEF UpToRoot
  <2>2. \A m \in Nodes \ {new} : h[m].parentPtr # new
    <3>1. ~ IsDir(h, new)
      BY <1>2, BlankIsNode DEF IsDir
    <3>2. new # NULL
      BY <1>2, BoundFacts
    <3>3. SUFFICES ASSUME NEW m \in Nodes PROVE h[m].parentPtr # new
      OBVIOUS
    <3>4. CASE m = root \/ h[m] = Blank
      BY <3>2, <3>4, BlankIsNode DEF IsTree
    <3>5. CASE m # root /\ h[m] # Blank
      BY <3>1, <3>5 DEF IsTree, BelowDirs
    <3>6. QED
      BY <3>4, <3>5
  <2>3. UpClosed(h, S \ {new})
    BY <1>9, <2>1, <2>2 DEF UpClosed
  <2>4. \E m \in S \ {new} : h[m] # Blank
    <3>1. CASE n = new
      <4>1. p \in S
        BY <1>3, <1>4, <1>8, <2>1, <3>1, BoundFacts DEF UpClosed
      <4>2. QED
        BY <1>3, <4>1, BlankIsNode DEF IsDir
    <3>2. CASE n # new
      BY <1>10, <2>1, <3>2 DEF SameBut
    <3>3. QED
      BY <3>1, <3>2
  <2>5. root \in S \ {new}
    BY <2>3, <2>4 DEF IsTree, UpToRoot
  <2>6. QED
    BY <2>5
<1> HIDE DEF kids
<1>17. ListsOfKids(g) /\ \A q \in Nodes : Children(g, q) = kids(q)
  BY <1>11, <1>14, ChildrenAre DEF ListsOfKids
<1>18. Added(h, g, p, name, type, new)
  BY <1>2, <1>3, <1>4, <1>8, <1>10, <1>17 DEF Added, kids, s
<1>19. QED
  BY <1>11, <1>12, <1>13, <1>15, <1>16, <1>17, <1>18 DEF IsTree, g

\* s without its i-th member.
Without(s, i) == [j \in 1 .. Len(s) - 1 |-> IF j < i THEN s[j] ELSE s[j + 1]]

LEMMA AtWithout ==
  ASSUME NEW s \in Seq(Nodes), NEW i \in 1 .. Len(s)
  PROVE  /\ Without(s, i) \in Seq(Nodes) /\ Len(Without(s, i)) = Len(s) - 1
         /\ \A j \in 1 .. Len(s) - 1 :
              Without(s, i)[j] = IF j < i THEN s[j] ELSE s[j + 1]
         /\ \A j \in 1 .. Len(s) : At(Without(s, i), j) = IF j < i THEN s[j] ELSE At(s, j + 1)
<1> DEFINE t == Without(s, i)
<1>1. Len(s) \in Nat /\ Len(s) - 1 \in Nat /\ \A j \in 1 .. Len(s) : s[j] \in Nodes
  OBVIOUS
<1>2. \A j \in 1 .. Len(s) - 1 : j \in 1 .. Len(s) /\ j + 1 \in 1 .. Len(s)
  BY <1>1
<1>3. t \in [1 .. Len(s) - 1 -> Nodes]
  BY <1>1, <1>2 DEF Without
<1>4. t \in Seq(Nodes) /\ Len(t) = Len(s) - 1
  BY <1>1, <1>3
<1>5. \A j \in 1 .. Len(s) - 1 : t[j] = IF j < i THEN s[j] ELSE s[j + 1]
  BY DEF Without
<1> HIDE DEF t
<1>6. \A j \in 1 .. Len(s) : At(t, j) = IF j < i THEN s[j] ELSE At(s, j + 1)
  BY <1>1, <1>4, <1>5 DEF At
<1>7. QED
  BY <1>4, <1>5, <1>6 DEF t

\* The list that a child was taken out of.
LEMMA KidsWithout ==
  ASSUME NEW h, NEW p \in Nodes, NEW s, Kids(h, p, s), NEW i \in 1 .. Len(s),
         NEW g, SameBut(h, g, NULL),
         g[p].childPtr = IF i = 1 THEN h[s[i]].siblingPtr ELSE h[p].childPtr,
         \A j \in 1 .. Len(s) :
           g[s[j]].siblingPtr = IF j = i - 1 THEN h[s[i]].siblingPtr ELSE h[s[j]].siblingPtr
  PROVE  Kids(g, p, Without(s, i))
<1> DEFINE t == Without(s, i)
<1>1. s \in Seq(Nodes) /\ Len(s) \in Nat /\ \A j \in 1 .. Len(s) : s[j] \in Nodes \ {NULL}
  BY BoundFacts DEF Kids
<1>2. /\ t \in Seq(Nodes) /\ Len(t) = Len(s) - 1
      /\ \A j \in 1 .. Len(s) - 1 : t[j] = IF j < i THEN s[j] ELSE s[j + 1]
      /\ \A j \in 1 .. Len(s) : At(t, j) = IF j < i THEN s[j] ELSE At(s, j + 1)
  BY <1>1, AtWithout
<1> HIDE DEF t
<1>3. /\ h[p].childPtr = At(s, 1)
      /\ \A j \in 1 .. Len(s) : h[s[j]].siblingPtr = At(s, j + 1)
  BY DEF Kids, Follows
<1>4. g[p].childPtr = At(t, 1)
  <2>1. 1 \in 1 .. Len(s)
    BY <1>1
  <2>2. At(s, 1) = s[1]
    BY <2>1 DEF At
  <2>3. QED
    BY <1>2, <1>3, <2>1, <2>2
<1>5. ASSUME NEW j \in 1 .. Len(t)
      PROVE  /\ g[t[j]].siblingPtr = At(t, j + 1) /\ g[t[j]].parentPtr = p
             /\ \E k \in 1 .. Len(s) : /\ t[j] = s[k] /\ g[t[j]].name = h[s[k]].name
                                       /\ k = IF j < i THEN j ELSE j + 1
  <2> DEFINE k == IF j < i THEN j ELSE j + 1
  <2>1. k \in 1 .. Len(s) /\ t[j] = s[k] /\ j + 1 \in 1 .. Len(s) /\ j \in 1 .. Len(s)
    BY <1>1, <1>2
  <2>2. g[t[j]].parentPtr = p /\ g[t[j]].name = h[s[k]].name
    BY <1>1, <2>1 DEF SameBut, Kids
  <2>3. g[t[j]].siblingPtr = At(t, j + 1)
    <3>1. CASE j = i - 1
      <4>1. k = j /\ ~(j + 1 < i) /\ j + 1 = i
        BY <3>1
      <4>2. g[t[j]].siblingPtr = h[s[i]].siblingPtr
        BY <2>1, <3>1, <4>1
      <4>3. QED
        BY <1>2, <1>3, <2>1, <4>1, <4>2
    <3>2. CASE j < i - 1
      <4>1. k = j /\ j + 1 < i /\ j # i - 1
        BY <3>2
      <4>2. g[t[j]].siblingPtr = At(s, j + 1)
        BY <1>3, <2>1, <4>1
      <4>3. At(t, j + 1) = s[j + 1] /\ At(s, j + 1) = s[j + 1]
        BY <1>2, <2>1, <4>1 DEF At
      <4>4. QED
        BY <4>2, <4>3
    <3>3. CASE j >= i
      <4>1. k = j + 1 /\ ~(j + 1 < i) /\ k # i - 1 /\ k + 1 = (j + 1) + 1
        BY <3>3
      <4>2. g[t[j]].siblingPtr = At(s, k + 1)
        BY <1>3, <2>1, <4>1
      <4>3. At(t, j + 1) = At(s, (j + 1) + 1)
        BY <1>2, <2>1, <4>1
      <4>4. QED
        BY <4>1, <4>2, <4>3
    <3>4. QED
      BY <3>1, <3>2, <3>3
  <2> HIDE DEF k
  <2>4. QED
    BY <2>1, <2>2, <2>3 DEF k
<1>6. \A x, y \in 1 .. Len(t) : g[t[x]].name = g[t[y]].name => x = y
  <2>1. SUFFICES ASSUME NEW x \in 1 .. Len(t), NEW y \in 1 .. Len(t), g[t[x]].name = g[t[y]].name
                 PROVE  x = y
    OBVIOUS
  <2>2. PICK a \in 1 .. Len(s) : g[t[x]].name = h[s[a]].name /\ a = IF x < i THEN x ELSE x + 1
    BY <1>5
  <2>3. PICK b \in 1 .. Len(s) : g[t[y]].name = h[s[b]].name /\ b = IF y < i THEN y ELSE y + 1
    BY <1>5
  <2>4. a = b
    BY <2>1, <2>2, <2>3, ZenonT(40) DEF Kids
  <2>5. QED
    BY <2>2, <2>3, <2>4
<1>7. g[p].type = "D"
  <2>1. s # <<>>
    BY <1>1
  <2>2. QED
    BY <2>1, BoundFacts DEF SameBut, Kids
<1>8. QED
  BY <1>2, <1>4, <1>5, <1>6, <1>7 DEF Kids, Follows, t

\* g is h without the i-th child of p.
Removed(h, g, p, i) ==
  /\ SameBut(h, g, NULL)
  /\ \A q \in Nodes : Children(g, q) = IF q = p THEN Without(Children(h, p), i)
                                      ELSE Children(h, q)

\* rmdir and rm take one child out of its list, and change nothing else.
LEMMA DetachIsTree ==
  ASSUME NEW h, IsTree(h), NEW p \in Nodes, NEW i \in 1 .. Len(Children(h, p)),
         NEW n, n = Children(h, p)[i]
  PROVE  LET g == Detach(h, p, n)
         IN  IsTree(g) /\ DirsStay(h, g) /\ Removed(h, g, p, i)
<1> DEFINE g == Detach(h, p, n)
           s == Children(h, p)
           before == {k \in ToSet(s) : h[k].siblingPtr = n}
           prev == Prev(h, p, n)
           kids(q) == IF q = p THEN Without(s, i) ELSE Children(h, q)
<1>1. Kids(h, p, s)
  BY KidsAre
<1>2. prev = IF before = {} THEN NULL ELSE Min(before)
  BY DEF Prev
<1>3. g = IF prev = NULL THEN [h EXCEPT ![p].childPtr = h[n].siblingPtr]
          ELSE [h EXCEPT ![prev].siblingPtr = h[n].siblingPtr]
  BY DEF Detach
<1>4. n = s[i] /\ i \in 1 .. Len(s)
  OBVIOUS
<1> HIDE DEF s, g, prev
<1>5. /\ s \in Seq(Nodes) /\ Len(s) \in Nat /\ DOMAIN s = 1 .. Len(s) /\ n \in Nodes
      /\ \A j \in 1 .. Len(s) : /\ s[j] \in Nodes /\ s[j] # NULL /\ h[s[j]].parentPtr = p
                                /\ h[s[j]].siblingPtr = At(s, j + 1)
                                /\ h[s[j]] # Blank
      /\ \A j, k \in 1 .. Len(s) : s[j] = s[k] => j = k
  <2>1. s \in Seq(Nodes) /\ \A j, k \in 1 .. Len(s) : s[j] = s[k] => j = k
    BY <1>1 DEF Kids
  <2>2. \A j \in 1 .. Len(s) : s[j] \in Nodes /\ h[s[j]] # Blank
    BY <1>1, AKid
  <2>3. QED
    BY <1>1, <1>4, <2>1, <2>2, BoundFacts DEF Kids, Follows
<1>6. \A j \in 1 .. Len(s) : h[s[j]].siblingPtr = n <=> j = i - 1
  <2>1. SUFFICES ASSUME NEW j \in 1 .. Len(s) PROVE At(s, j + 1) = n <=> j + 1 = i
    BY <1>5
  <2>2. CASE j + 1 \in 1 .. Len(s)
    BY <1>4, <1>5, <2>2 DEF At
  <2>3. CASE j + 1 \notin 1 .. Len(s)
    BY <1>4, <1>5, <2>3 DEF At
  <2>4. QED
    BY <2>2, <2>3
<1>7. prev = IF i = 1 THEN NULL ELSE s[i - 1]
  <2>1. CASE i = 1
    <3>1. \A j \in 1 .. Len(s) : j # i - 1
      BY <2>1
    <3>2. before = {}
      BY <1>5, <1>6, <3>1 DEF ToSet
    <3>3. QED
      BY <1>2, <2>1, <3>2
  <2>2. CASE i # 1
    <3>1. i - 1 \in 1 .. Len(s)
      BY <1>4, <1>5, <2>2
    <3>2. before = {s[i - 1]}
      BY <1>5, <1>6, <3>1 DEF ToSet
    <3>3. {s[i - 1]} \in SUBSET Nat /\ {s[i - 1]} # {}
      BY <1>5, <3>1 DEF Nodes
    <3>4. Min({s[i - 1]}) = s[i - 1]
      BY <3>3, MinIsIn
    <3>5. QED
      BY <1>2, <2>2, <3>2, <3>4
  <2>3. QED
    BY <2>1, <2>2
<1>8. i # 1 => i - 1 \in 1 .. Len(s) /\ s[i - 1] \in Nodes /\ s[i - 1] # NULL
  BY <1>4, <1>5
<1> HIDE DEF before
<1>9. /\ DOMAIN g = Nodes
      /\ \A m \in Nodes :
           g[m] = IF i = 1 /\ m = p THEN [h[m] EXCEPT !.childPtr = h[n].siblingPtr]
                  ELSE IF i # 1 /\ m = s[i - 1] THEN [h[m] EXCEPT !.siblingPtr = h[n].siblingPtr]
                  ELSE h[m]
  <2>1. DOMAIN h = Nodes
    BY DEF IsTree, IsHeap
  <2>2. QED
    BY <1>3, <1>7, <1>8, <2>1
<1>10. ASSUME NEW m \in Nodes
       PROVE  /\ IsNode(g[m])
              /\ g[m].type = h[m].type /\ g[m].name = h[m].name /\ g[m].parentPtr = h[m].parentPtr
              /\ g[m].childPtr = IF i = 1 /\ m = p THEN h[n].siblingPtr ELSE h[m].childPtr
              /\ g[m].siblingPtr = IF i # 1 /\ m = s[i - 1]
                                   THEN h[n].siblingPtr ELSE h[m].siblingPtr
  <2>1. IsNode(h[m]) /\ IsNode(h[n])
    BY <1>5 DEF IsTree, IsHeap
  <2>2. QED
    BY <1>9, <2>1 DEF IsNode
<1>11. SameBut(h, g, NULL)
  <2>1. SUFFICES ASSUME NEW m \in Nodes PROVE h[m] = Blank <=> g[m] = Blank
    BY <1>10 DEF SameBut
  <2>2. h[p].type = "D" /\ g[p].type = "D"
    BY <1>1, <1>4, <1>10, AKid DEF IsDir
  <2>3. i # 1 /\ m = s[i - 1] => h[m].parentPtr = p /\ g[m].parentPtr = p /\ p # NULL
    BY <1>5, <1>8, <1>10, BoundFacts
  <2>4. QED
    BY <1>9, <2>2, <2>3, BlankIsNode
<1>12. IsHeap(g)
  BY <1>9, <1>10 DEF IsHeap
<1>13. IsDir(g, root) /\ g[root].parentPtr = NULL /\ DirsStay(h, g)
  BY <1>10 DEF IsTree, IsDir, DirsStay
<1>14. ASSUME NEW q \in Nodes
       PROVE  Kids(g, q, kids(q))
  <2>2. CASE q = p
    <3>1. \A j \in 1 .. Len(s) :
            g[s[j]].siblingPtr = IF j = i - 1 THEN h[s[i]].siblingPtr ELSE h[s[j]].siblingPtr
      <4>1. ASSUME NEW j \in 1 .. Len(s)
            PROVE  (i # 1 /\ s[j] = s[i - 1]) <=> j = i - 1
        BY <1>4, <1>5, <1>8
      <4>2. QED
        BY <1>4, <1>5, <1>10, <4>1
    <3>2. g[p].childPtr = IF i = 1 THEN h[s[i]].siblingPtr ELSE h[p].childPtr
      BY <1>4, <1>10
    <3>3. Kids(g, p, Without(s, i))
      BY <1>1, <1>4, <1>11, <3>1, <3>2, KidsWithout
    <3>4. QED
      BY <2>2, <3>3
  <2>3. CASE q # p
    <3> DEFINE t == Children(h, q)
    <3>1. Kids(h, q, t)
      BY KidsAre
    <3> HIDE DEF t
    <3>2. ASSUME NEW j \in 1 .. Len(t)
          PROVE  /\ g[t[j]].siblingPtr = h[t[j]].siblingPtr /\ g[t[j]].name = h[t[j]].name
                 /\ g[t[j]].parentPtr = h[t[j]].parentPtr
      <4>1. t[j] \in Nodes /\ h[t[j]].parentPtr = q
        BY <3>1, AKid
      <4>2. i # 1 => t[j] # s[i - 1]
        BY <1>5, <1>8, <2>3, <4>1
      <4>3. QED
        BY <1>10, <4>1, <4>2
    <3>3. g[q].childPtr = h[q].childPtr /\ g[q].type = h[q].type
      BY <1>10, <2>3
    <3>4. Kids(g, q, t)
      BY <3>1, <3>2, <3>3 DEF Kids, Follows
    <3>5. QED
      BY <2>3, <3>4 DEF t
  <2>4. QED
    BY <2>2, <2>3
<1>15. BelowDirs(g)
  <2>1. SUFFICES ASSUME NEW m \in Nodes \ {root}, g[m] # Blank
                 PROVE  g[m].type \in {"D", "F"} /\ IsDir(g, g[m].parentPtr)
    BY DEF BelowDirs
  <2>2. h[m] # Blank
    BY <1>11, <2>1, BoundFacts DEF SameBut
  <2>3. h[m].type \in {"D", "F"} /\ IsDir(h, h[m].parentPtr)
    BY <2>2 DEF IsTree, BelowDirs
  <2>4. QED
    BY <1>10, <1>13, <2>3 DEF DirsStay
<1>16. UpToRoot(g)
  <2>1. SUFFICES ASSUME NEW S \in SUBSET Nodes, UpClosed(g, S), NEW m \in S, g[m] # Blank
                 PROVE  root \in S
    BY DEF UpToRoot
  <2>2. UpClosed(h, S)
    BY <1>10, <2>1 DEF UpClosed
  <2>3. h[m] # Blank
    BY <1>11, <2>1, BoundFacts DEF SameBut
  <2>4. QED
    BY <2>2, <2>3 DEF IsTree, UpToRoot
<1> HIDE DEF kids
<1>17. ListsOfKids(g) /\ \A q \in Nodes : Children(g, q) = kids(q)
  BY <1>12, <1>14, ChildrenAre DEF ListsOfKids
<1>18. Removed(h, g, p, i)
  BY <1>11, <1>17 DEF Removed, kids, s
<1>19. QED
  BY <1>12, <1>13, <1>15, <1>16, <1>17, <1>18 DEF IsTree, g

-----------------------------------------------------------------------------
(* The commands keep the tree.                                             *)

IsPath(path) == path \in [abs : BOOLEAN, names : Seq(Names)]

DirOrNull(h, n) == n = NULL \/ IsDir(h, n)

\* The nodes that a walk along names comes through.
LEMMA WalkTurns ==
  ASSUME NEW h, NEW from, NEW names, Len(names) \in Nat
  PROVE  \E at : /\ Walk(h, from, names) = at[Len(names)] /\ at[0] = from
                 /\ \A k \in 1 .. Len(names) : at[k] = Into(h, at[k - 1], names[k])
<1> DEFINE N == Len(names)
           Walked(g) ==
             g = [k \in 0 .. N |-> IF k = 0 THEN from ELSE Into(h, g[k - 1], names[k])]
           at == CHOOSE g : Walked(g)
           c == [h |-> h, names |-> names]
<1>0. N \in Nat
  OBVIOUS
<1>1. Walk(h, from, names) = at[N]
  BY DEF Walk
<1> HIDE DEF N
<1>2. PICK g : Turns(g, "walk", c, from, N)
  BY <1>0, TurnsExist
<1>3. Walked(g)
  BY <1>2 DEF Turns, Turn
<1>4. Walked(at)
  <2> HIDE DEF Walked
  <2>1. QED
    BY <1>3
<1> HIDE DEF at
<1>5. at[0] = from /\ \A k \in 1 .. N : at[k] = Into(h, at[k - 1], names[k])
  BY <1>0, <1>4
<1> HIDE DEF Walked
<1>6. QED
  BY <1>1, <1>5 DEF N

LEMMA WalkProperties ==
  ASSUME NEW h, IsTree(h), NEW from, DirOrNull(h, from), NEW names \in Seq(Names)
  PROVE  DirOrNull(h, Walk(h, from, names))
<1> DEFINE N == Len(names)
<1>1. N \in Nat
  OBVIOUS
<1>2. PICK at : /\ Walk(h, from, names) = at[N] /\ at[0] = from
                /\ \A k \in 1 .. N : at[k] = Into(h, at[k - 1], names[k])
  BY <1>1, WalkTurns
<1> HIDE DEF N
<1> DEFINE T == {k \in Nat : DirOrNull(h, at[k])}
<1>3. ASSUME NEW k \in 1 .. N, k - 1 \in T
      PROVE  k \in T
  <2>1. CASE at[k - 1] = NULL
    BY <1>2, <2>1 DEF Into, DirOrNull
  <2>2. CASE at[k - 1] # NULL
    <3> DEFINE n == at[k - 1]
               m == Find(h, n, names[k], {"D"})
    <3>1. n \in Nodes
      BY <1>3, <2>2 DEF DirOrNull, IsDir
    <3>2. at[k] = m
      BY <1>2, <2>2 DEF Into
    <3> HIDE DEF n
    <3>3. m = NULL \/ (m \in Nodes /\ h[m].type \in {"D"})
      BY <3>1, FindProperties
    <3> HIDE DEF m
    <3>4. QED
      BY <3>2, <3>3 DEF DirOrNull, IsDir
  <2>3. QED
    BY <2>1, <2>2
<1>4. 0 \in T
  BY <1>2
<1> HIDE DEF T
<1>5. N \in T
  BY <1>1, <1>3, <1>4, LoopInduction
<1>6. QED
  BY <1>2, <1>5 DEF T

LEMMA NamesOfPath ==
  ASSUME NEW path, IsPath(path)
  PROVE  dirname(path) \in Seq(Names) /\ basename(path) \in Names
<1> DEFINE s == path.names
<1>1. s \in Seq(Names)
  BY DEF IsPath
<1> HIDE DEF s
<1>2. s # <<>> => Front(s) \in Seq(Names) /\ Last(s) \in Names
  BY <1>1 DEF Front, Last
<1>3. "" \in Names /\ <<>> \in Seq(Names)
  BY DEF Names
<1>4. QED
  BY <1>2, <1>3 DEF dirname, basename, s

\* What the commands may work on.
Usable(h) == IsTree(h) /\ IsDir(h, cwd)

LEMMA StartIsDir ==
  ASSUME NEW h, Usable(h), NEW path
  PROVE  DirOrNull(h, Start(path)) /\ DirOrNull(h, RmdirStart(path))
BY DEF Usable, IsTree, DirOrNull, Start, RmdirStart

LEMMA makeIsUsable ==
  ASSUME NEW h, Usable(h), NEW path, IsPath(path), NEW type \in {"D", "F"},
         make(h, path, type) # FULL
  PROVE  Usable(make(h, path, type))
<1> DEFINE p == Walk(h, Start(path), dirname(path))
           name == basename(path)
           n == Find(h, p, name, {"D", "F"})
<1>1. make(h, path, type) = IF p = NULL \/ n # NULL THEN h ELSE Attach(h, p, name, type)
  BY DEF make
<1>2. DirOrNull(h, p)
  BY WalkProperties, StartIsDir, NamesOfPath DEF Usable
<1>3. name \in Names
  BY NamesOfPath
<1> HIDE DEF p, name
<1>4. CASE p = NULL \/ n # NULL
  BY <1>1, <1>4
<1>5. CASE ~(p = NULL \/ n # NULL)
  <2> DEFINE s == Children(h, p)
  <2>1. IsDir(h, p) /\ p \in Nodes
    BY <1>2, <1>5 DEF DirOrNull, IsDir
  <2>2. \A i \in 1 .. Len(s) : h[s[i]].type \in {"D", "F"} => h[s[i]].name # name
    <3>1. n = NULL /\ NULL \notin Nodes
      BY <1>5, BoundFacts
    <3>2. QED
      BY <2>1, <3>1, FindProperties DEF Usable
  <2>3. Attach(h, p, name, type) # FULL
    BY <1>1, <1>5
  <2>4. IsTree(Attach(h, p, name, type)) /\ DirsStay(h, Attach(h, p, name, type))
    BY <1>3, <2>1, <2>2, <2>3, AttachIsTree DEF Usable
  <2>5. QED
    BY <1>1, <1>5, <2>4 DEF Usable, DirsStay
<1>6. QED
  BY <1>4, <1>5

LEMMA mkdirIsUsable ==
  ASSUME NEW h, Usable(h), NEW path, IsPath(path), mkdir(h, path) # FULL
  PROVE  Usable(mkdir(h, path))
BY makeIsUsable DEF mkdir

LEMMA creatIsUsable ==
  ASSUME NEW h, Usable(h), NEW path, IsPath(path), creat(h, path) # FULL
  PROVE  Usable(creat(h, path))
BY makeIsUsable DEF creat

LEMMA ReadLineIsUsable ==
  ASSUME NEW h, h = FULL \/ Usable(h), NEW line \in Lines
  PROVE  ReadLine(h, line) = FULL \/ Usable(ReadLine(h, line))
<1>1. CASE h = FULL
  BY <1>1 DEF ReadLine
<1>2. CASE h # FULL
  <2>1. line[2] \in Seq(Names) /\ <<>> \in Seq(Names)
    BY DEF Lines
  <2>2. IsPath(Pathname(line))
    BY <2>1 DEF Pathname, IsPath
  <2>3. ReadLine(h, line) \in {creat(h, Pathname(line)), mkdir(h, Pathname(line))}
    BY <1>2 DEF ReadLine
  <2>4. Usable(h)
    BY <1>2
  <2>5. CASE ReadLine(h, line) = creat(h, Pathname(line))
    BY <2>2, <2>4, <2>5, creatIsUsable
  <2>6. CASE ReadLine(h, line) = mkdir(h, Pathname(line))
    BY <2>2, <2>4, <2>6, mkdirIsUsable
  <2>7. QED
    BY <2>3, <2>5, <2>6
<1>3. QED
  BY <1>1, <1>2

\* The inductive invariant.
IInv == Usable(node) /\ file \in Seq(Lines)

LEMMA BecomesStep ==
  ASSUME IInv, NEW h, Becomes(h), Usable(h)
  PROVE  IInv'
<1>1. node' = Tidy(h, cwd) /\ cwd' = cwd /\ file' = file
  BY DEF Becomes
<1>2. IsTree(Tidy(h, cwd)) /\ IsDir(Tidy(h, cwd), cwd)
  BY TidyIsTree DEF Usable
<1>3. IsTree(node') /\ IsDir(node', cwd')
  BY <1>1, <1>2
<1>4. QED
  BY <1>1, <1>3 DEF IInv, Usable

LEMMA ExitStep ==
  ASSUME Exit, file' \in Seq(Lines)
  PROVE  IInv'
<1>1. node' = NewTree /\ cwd' = root
  BY DEF Exit
<1>2. IsTree(NewTree) /\ IsDir(NewTree, root)
  BY NewTreeIsTree DEF IsTree
<1>3. IsTree(node') /\ IsDir(node', cwd')
  BY <1>1, <1>2
<1>4. QED
  BY <1>3 DEF IInv, Usable

\* The heaps that reload comes through.
LEMMA ReloadTurns ==
  ASSUME Reload, Len(file) \in Nat
  PROVE  \E loaded : /\ Becomes(loaded[Len(file)]) /\ loaded[0] = node
                     /\ \A k \in 1 .. Len(file) : loaded[k] = ReadLine(loaded[k - 1], file[k])
<1> DEFINE N == Len(file)
           Loaded(g) == g = [k \in 0 .. N |-> IF k = 0 THEN node ELSE ReadLine(g[k - 1], file[k])]
           loaded == CHOOSE g : Loaded(g)
<1>1. Becomes(loaded[N])
  BY DEF Reload
<1> HIDE DEF N
<1>2. PICK g : Turns(g, "load", file, node, N)
  BY TurnsExist DEF N
<1>3. Loaded(g)
  BY <1>2 DEF Turns, Turn
<1>4. Loaded(loaded)
  <2> HIDE DEF Loaded
  <2>1. QED
    BY <1>3
<1> HIDE DEF loaded
<1>5. loaded[0] = node /\ \A k \in 1 .. N : loaded[k] = ReadLine(loaded[k - 1], file[k])
  <2>1. N \in Nat
    BY DEF N
  <2>2. QED
    BY <1>4, <2>1
<1>6. QED
  BY <1>1, <1>5 DEF N

LEMMA ReloadStep ==
  ASSUME IInv, Reload
  PROVE  IInv'
<1> DEFINE N == Len(file)
<1>1. N \in Nat /\ \A k \in 1 .. N : file[k] \in Lines
  BY DEF IInv
<1>2. PICK loaded : /\ Becomes(loaded[N]) /\ loaded[0] = node
                    /\ \A k \in 1 .. N : loaded[k] = ReadLine(loaded[k - 1], file[k])
  BY <1>1, ReloadTurns
<1> HIDE DEF N
<1> DEFINE T == {k \in Nat : loaded[k] = FULL \/ Usable(loaded[k])}
<1>3. ASSUME NEW k \in 1 .. N, k - 1 \in T
      PROVE  k \in T
  BY <1>1, <1>2, <1>3, ReadLineIsUsable
<1>4. 0 \in T
  BY <1>2 DEF IInv
<1> HIDE DEF T
<1>5. N \in T
  BY <1>1, <1>3, <1>4, LoopInduction
<1>6. Usable(loaded[N])
  BY <1>2, <1>5 DEF T, Becomes
<1>7. QED
  BY <1>2, <1>6, BecomesStep

\* A child of p is detached.
LEMMA DetachStep ==
  ASSUME IInv, NEW p, IsDir(node, p), NEW name, NEW types,
         Find(node, p, name, types) # NULL,
         Becomes(Detach(node, p, Find(node, p, name, types)))
  PROVE  IInv'
<1> DEFINE n == Find(node, p, name, types)
           s == Children(node, p)
<1>1. p \in Nodes /\ IsTree(node) /\ IsDir(node, cwd)
  BY DEF IsDir, IInv, Usable
<1>2. \E i \in 1 .. Len(s) : s[i] = n
  BY <1>1, FindProperties
<1> HIDE DEF n
<1>3. IsTree(Detach(node, p, n)) /\ DirsStay(node, Detach(node, p, n))
  BY <1>1, <1>2, DetachIsTree
<1>4. Usable(Detach(node, p, n))
  BY <1>1, <1>3 DEF Usable, DirsStay
<1>5. QED
  BY <1>4, BecomesStep DEF n

LEMMA RmdirStep ==
  ASSUME IInv, NEW path, IsPath(path), Rmdir(path)
  PROVE  IInv'
<1> DEFINE p == Walk(node, RmdirStart(path), dirname(path))
           n == Find(node, p, basename(path), {"D"})
<1>1. p # NULL /\ n # NULL /\ Becomes(Detach(node, p, n))
  BY DEF Rmdir
<1>2. DirOrNull(node, p)
  BY WalkProperties, StartIsDir, NamesOfPath DEF IInv, Usable
<1> HIDE DEF p
<1>3. QED
  BY <1>1, <1>2, DetachStep DEF DirOrNull

LEMMA RmStep ==
  ASSUME IInv, NEW path, IsPath(path), Rm(path)
  PROVE  IInv'
<1> DEFINE p == Walk(node, Start(path), dirname(path))
           n == Find(node, p, basename(path), {"F"})
<1>1. /\ p # NULL
      /\ (Exit /\ UNCHANGED file) \/ (n # NULL /\ Becomes(Detach(node, p, n)))
  BY DEF Rm
<1>2. DirOrNull(node, p)
  BY WalkProperties, StartIsDir, NamesOfPath DEF IInv, Usable
<1> HIDE DEF p
<1>3. CASE Exit /\ UNCHANGED file
  BY <1>3, ExitStep DEF IInv
<1>4. CASE n # NULL /\ Becomes(Detach(node, p, n))
  BY <1>1, <1>2, <1>4, DetachStep DEF DirOrNull
<1>5. QED
  BY <1>1, <1>3, <1>4

\* A step of cd() leads from a directory to its parent or to one of its directories.
LEMMA CdStepProperties ==
  ASSUME IInv, NEW n, n = CRASH \/ DirOrNull(node, n), NEW name
  PROVE  CdStep(n, name) = CRASH \/ DirOrNull(node, CdStep(n, name))
<1>0. IsTree(node)
  BY DEF IInv, Usable
<1>1. CASE n \in {NULL, CRASH}
  BY <1>1 DEF CdStep
<1>2. CASE n \notin {NULL, CRASH}
  <2>1. IsDir(node, n) /\ n \in Nodes
    BY <1>2 DEF DirOrNull, IsDir
  <2>2. CASE name = ".."
    <3>1. CdStep(n, name) = Above(n)
      BY <1>2, <2>2 DEF CdStep
    <3>2. n # root => IsDir(node, node[n].parentPtr)
      BY <1>0, <2>1, BlankIsNode DEF IsTree, BelowDirs, IsDir
    <3>3. QED
      BY <1>0, <3>1, <3>2 DEF Above, IsTree, DirOrNull
  <2>3. CASE name # ".."
    <3> DEFINE m == Find(node, n, name, {"D"})
    <3>1. CdStep(n, name) = m
      BY <1>2, <2>3 DEF CdStep
    <3>2. m = NULL \/ (m \in Nodes /\ node[m].type \in {"D"})
      BY <1>0, <2>1, FindProperties
    <3> HIDE DEF m
    <3>3. QED
      BY <3>1, <3>2 DEF DirOrNull, IsDir
  <2>4. QED
    BY <2>2, <2>3
<1>3. QED
  BY <1>1, <1>2

\* The nodes that cd comes through, and where it ends.
LEMMA CdTurns ==
  ASSUME NEW path, Cd(path), Len(path.names) \in Nat
  PROVE  \E at, to :
           /\ at[0] = Start(path)
           /\ \A k \in 1 .. Len(path.names) : at[k] = CdStep(at[k - 1], path.names[k])
           /\ to = root \/ to = at[Len(path.names)]
           /\ \/ Exit /\ UNCHANGED file
              \/ to \in Nodes /\ cwd' = to /\ node' = Tidy(node, to) /\ UNCHANGED file
<1> DEFINE N == Len(path.names)
           Walked(g) ==
             g = [k \in 0 .. N |-> IF k = 0 THEN Start(path) ELSE CdStep(g[k - 1], path.names[k])]
           at == CHOOSE g : Walked(g)
           to == IF path.names = <<>> THEN root ELSE at[N]
<1>1. \/ Exit /\ UNCHANGED file
      \/ to \in Nodes /\ cwd' = to /\ node' = Tidy(node, to) /\ UNCHANGED file
  BY DEF Cd
<1> HIDE DEF N
<1>2. PICK g : Turns(g, "cd", path.names, Start(path), N)
  BY TurnsExist DEF N
<1>3. Walked(g)
  BY <1>2 DEF Turns, Turn
<1>4. Walked(at)
  <2> HIDE DEF Walked
  <2>1. QED
    BY <1>3
<1> HIDE DEF at
<1>5. at[0] = Start(path) /\ \A k \in 1 .. N : at[k] = CdStep(at[k - 1], path.names[k])
  <2>1. N \in Nat
    BY DEF N
  <2>2. QED
    BY <1>4, <2>1
<1>6. to = root \/ to = at[N]
  OBVIOUS
<1> HIDE DEF to
<1>7. QED
  BY <1>1, <1>5, <1>6 DEF N

LEMMA CdKeepsTree ==
  ASSUME IInv, NEW path, IsPath(path), Cd(path)
  PROVE  IInv'
<1> DEFINE N == Len(path.names)
<1>1. N \in Nat
  BY DEF IsPath
<1>2. PICK at, to :
        /\ at[0] = Start(path) /\ \A k \in 1 .. N : at[k] = CdStep(at[k - 1], path.names[k])
        /\ to = root \/ to = at[N]
        /\ \/ Exit /\ UNCHANGED file
           \/ to \in Nodes /\ cwd' = to /\ node' = Tidy(node, to) /\ UNCHANGED file
  BY <1>1, CdTurns
<1> HIDE DEF N
<1> DEFINE T == {k \in Nat : at[k] = CRASH \/ DirOrNull(node, at[k])}
<1>3. ASSUME NEW k \in 1 .. N, k - 1 \in T
      PROVE  k \in T
  BY <1>1, <1>2, <1>3, CdStepProperties
<1>4. 0 \in T
  BY <1>2, StartIsDir DEF IInv
<1> HIDE DEF T
<1>5. N \in T
  BY <1>1, <1>3, <1>4, LoopInduction
<1>6. IsTree(node) /\ (to \in Nodes => IsDir(node, to))
  <2>1. IsTree(node) /\ IsDir(node, root)
    BY DEF IInv, Usable, IsTree
  <2>2. NULL \notin Nodes /\ CRASH \notin Nodes
    BY BoundFacts DEF CRASH, Nodes
  <2>3. QED
    BY <1>2, <1>5, <2>1, <2>2 DEF T, DirOrNull
<1>7. CASE Exit /\ UNCHANGED file
  BY <1>7, ExitStep DEF IInv
<1>8. CASE to \in Nodes /\ cwd' = to /\ node' = Tidy(node, to) /\ UNCHANGED file
  <2>1. IsTree(Tidy(node, to)) /\ IsDir(Tidy(node, to), to)
    BY <1>6, <1>8, TidyIsTree
  <2>2. IsTree(node') /\ IsDir(node', cwd')
    BY <1>8, <2>1
  <2>3. QED
    BY <1>8, <2>2 DEF IInv, Usable
<1>9. QED
  BY <1>2, <1>7, <1>8

LEMMA WrittenLines ==
  ASSUME IInv
  PROVE  preOrderWrite(node, node[root].childPtr) \in Seq(Lines)
<1>1. IsHeap(node) /\ node[root].childPtr \in Nodes \cup {NULL}
  BY BoundFacts DEF IInv, Usable, IsTree, IsHeap, IsNode
<1>2. QED
  BY <1>1, WritesLines

LEMMA KillStep ==
  ASSUME IInv, Kill
  PROVE  IInv'
<1> DEFINE lines == preOrderWrite(node, node[root].childPtr)
<1>1. Exit /\ (file' = file \/ \E k \in 0 .. Len(lines) : file' = SubSeq(lines, 1, k))
  BY DEF Kill
<1>2. lines \in Seq(Lines)
  BY WrittenLines
<1> HIDE DEF lines, Lines
<1>3. \A k \in 0 .. Len(lines) : SubSeq(lines, 1, k) \in Seq(Lines)
  BY <1>2
<1>4. file' \in Seq(Lines)
  BY <1>1, <1>3 DEF IInv
<1>5. QED
  BY <1>1, <1>4, ExitStep

LEMMA SeqOfMore ==
  ASSUME NEW S, NEW T, S \subseteq T, NEW s \in Seq(S)
  PROVE  s \in Seq(T)
OBVIOUS

LEMMA PathsArePaths ==
  ASSUME NEW path \in Paths \cup CdPaths
  PROVE  IsPath(path)
<1>1. path \in Path
  BY PathsAssumption
<1>2. path.names \in Seq(Names)
  <2>1. path.names \in Seq(STRING \ {""})
    BY <1>1 DEF Path
  <2>2. STRING \ {""} \subseteq Names
    BY DEF Names
  <2>3. QED
    BY <2>1, <2>2, SeqOfMore
<1>3. QED
  BY <1>1, <1>2 DEF Path, IsPath

LEMMA NextStep ==
  ASSUME IInv, [Next]_vars
  PROVE  IInv'
<1>1. ASSUME NEW path \in Paths, Mkdir(path)
      PROVE  IInv'
  <2>1. Becomes(mkdir(node, path)) /\ IsPath(path)
    BY <1>1, PathsArePaths DEF Mkdir
  <2>2. Usable(mkdir(node, path))
    BY <2>1, mkdirIsUsable DEF IInv, Becomes
  <2>3. QED
    BY <2>1, <2>2, BecomesStep
<1>2. ASSUME NEW path \in Paths, Creat(path)
      PROVE  IInv'
  <2>1. Becomes(creat(node, path)) /\ IsPath(path)
    BY <1>2, PathsArePaths DEF Creat
  <2>2. Usable(creat(node, path))
    BY <2>1, creatIsUsable DEF IInv, Becomes
  <2>3. QED
    BY <2>1, <2>2, BecomesStep
<1>3. ASSUME NEW path \in Paths, Rmdir(path)
      PROVE  IInv'
  BY <1>3, PathsArePaths, RmdirStep
<1>4. ASSUME NEW path \in Paths, Rm(path)
      PROVE  IInv'
  BY <1>4, PathsArePaths, RmStep
<1>5. ASSUME NEW path \in CdPaths, Cd(path)
      PROVE  IInv'
  BY <1>5, PathsArePaths, CdKeepsTree
<1>6. CASE Save
  <2>1. file' \in Seq(Lines) /\ node' = node /\ cwd' = cwd
    BY <1>6, WrittenLines DEF Save
  <2>2. QED
    BY <2>1 DEF IInv, Usable
<1>7. CASE Reload
  BY <1>7, ReloadStep
<1>8. CASE Quit
  BY <1>8, WrittenLines, ExitStep DEF Quit
<1>9. CASE Kill
  BY <1>9, KillStep
<1>10. CASE UNCHANGED vars
  BY <1>10 DEF vars, IInv, Usable
<1>11. QED
  BY <1>1, <1>2, <1>3, <1>4, <1>5, <1>6, <1>7, <1>8, <1>9, <1>10 DEF Next

LEMMA InitIsUsable == Init => IInv
<1>1. IsTree(NewTree) /\ IsDir(NewTree, root)
  BY NewTreeIsTree DEF IsTree
<1>2. <<>> \in Seq(Lines)
  OBVIOUS
<1>3. QED
  BY <1>1, <1>2 DEF Init, IInv, Usable

-----------------------------------------------------------------------------
LEMMA TreeIsOK ==
  ASSUME IInv
  PROVE  TreeOK
<1>1. SUFFICES ASSUME NEW p \in Live(node, cwd)
               PROVE  LET kids == Children(node, p)
                      IN  /\ \A i \in DOMAIN kids : node[kids[i]].parentPtr = p
                          /\ \A i, j \in DOMAIN kids :
                               node[kids[i]].name = node[kids[j]].name => i = j
                          /\ node[p].type = "F" => kids = <<>>
  BY DEF TreeOK
<1>2. p \in Nodes
  BY LiveIsClosed DEF IInv, Usable, IsDir
<1>3. Kids(node, p, Children(node, p))
  BY <1>2, KidsAre DEF IInv, Usable
<1>4. QED
  BY <1>3 DEF Kids

LEMMA CwdIsUsable ==
  ASSUME IInv
  PROVE  CwdUsable
<1> DEFINE R == Reached(node, {cwd}, {"up"})
<1>1. IsTree(node) /\ IsDir(node, cwd) /\ cwd \in Nodes
  BY DEF IInv, Usable, IsDir
<1>2. {cwd} \subseteq R /\ R \subseteq Nodes /\ Closed(node, {"up"}, R)
  BY <1>1, PointersStayIn, ReachedIsClosed
<1>3. Ancestors(node, cwd) = R
  BY DEF Ancestors
<1> HIDE DEF R
<1>4. UpClosed(node, R)
  BY <1>2 DEF Closed, Leads, UpClosed
<1>5. cwd \in R /\ node[cwd] # Blank
  BY <1>1, <1>2, BlankIsNode DEF IsDir
<1>6. root \in R
  BY <1>1, <1>2, <1>4, <1>5 DEF IsTree, UpToRoot
<1>7. QED
  BY <1>1, <1>3, <1>6 DEF CwdUsable, IsDir

(***************************************************************************)
(* The pointers of the tree agree, however many nodes there are and        *)
(* whatever is made, removed, saved and reloaded: no child is in two       *)
(* lists, none in its list twice, and no name is.                          *)
(***************************************************************************)
THEOREM TreeInvariant == Spec => []TreeOK
<1>1. Init => IInv
  BY InitIsUsable
<1>2. IInv /\ [Next]_vars => IInv'
  BY NextStep
<1>3. IInv => TreeOK
  BY TreeIsOK
<1>4. QED
  BY <1>1, <1>2, <1>3, PTL DEF Spec

(***************************************************************************)
(* The shell's directory stays a directory from which ".." leads up to the *)
(* root, also when rmdir has removed it.                                   *)
(***************************************************************************)
THEOREM CwdInvariant == Spec => []CwdUsable
<1>1. Init => IInv
  BY InitIsUsable
<1>2. IInv /\ [Next]_vars => IInv'
  BY NextStep
<1>3. IInv => CwdUsable
  BY CwdIsUsable
<1>4. QED
  BY <1>1, <1>2, <1>3, PTL DEF Spec

-----------------------------------------------------------------------------
(* What the root leads to.                                                 *)

\* The least set with the root in it, and with each node its children.
HasKids(h, X) == \A m \in X : ToSet(Children(h, m)) \subseteq X
Inside(h) == {n \in Nodes : \A X \in SUBSET Nodes : root \in X /\ HasKids(h, X) => n \in X}

\* Every node of the tree but the root is a child of one of its directories.
LEMMA InsideIs ==
  ASSUME NEW h, IsTree(h)
  PROVE  /\ root \in Inside(h) /\ Inside(h) \subseteq Nodes /\ HasKids(h, Inside(h))
         /\ h[root].parentPtr = NULL /\ h[root].type = "D"
         /\ \A n \in Inside(h) : h[n] # Blank /\ h[n].type \in {"D", "F"} /\ h[n].name \in Names
         /\ \A n \in Inside(h) \ {root} :
              /\ h[n].parentPtr \in Inside(h) /\ IsDir(h, h[n].parentPtr)
              /\ n \in ToSet(Children(h, h[n].parentPtr))
<1> DEFINE I == Inside(h)
<1>1. root \in I /\ I \subseteq Nodes
  BY BoundFacts DEF Inside
<1>2. HasKids(h, I)
  <2>1. SUFFICES ASSUME NEW m \in I, NEW c \in ToSet(Children(h, m)) PROVE c \in I
    BY DEF HasKids
  <2>2. c \in Nodes
    BY <1>1, <2>1, KidsAre DEF Kids, ToSet
  <2>3. ASSUME NEW X \in SUBSET Nodes, root \in X, HasKids(h, X)
        PROVE  c \in X
    BY <2>1, <2>3 DEF Inside, HasKids
  <2>4. QED
    BY <2>2, <2>3 DEF Inside
<1>3. ASSUME NEW p \in Nodes, NEW c \in ToSet(Children(h, p))
      PROVE  /\ c \in Nodes \ {root} /\ h[c].parentPtr = p /\ h[c] # Blank
             /\ h[c].type \in {"D", "F"} /\ IsDir(h, p)
  <2>1. Kids(h, p, Children(h, p))
    BY KidsAre
  <2>2. PICK i \in 1 .. Len(Children(h, p)) : Children(h, p)[i] = c
    BY <2>1 DEF Kids, ToSet
  <2>3. QED
    BY <2>1, <2>2, AKid
<1>4. ASSUME NEW n \in I \ {root}
      PROVE  \E p \in I : n \in ToSet(Children(h, p))
  <2>1. CASE \A p \in I : n \notin ToSet(Children(h, p))
    <3>1. HasKids(h, I \ {n}) /\ root \in I \ {n} /\ I \ {n} \in SUBSET Nodes
      BY <1>1, <1>2, <2>1 DEF HasKids
    <3>2. n \in I \ {n}
      BY <3>1 DEF Inside
    <3>3. QED
      BY <3>2
  <2>2. QED
    BY <2>1
<1>5. h[root].parentPtr = NULL /\ h[root].type = "D" /\ h[root] # Blank
  BY BlankIsNode DEF IsTree, IsDir
<1>6. \A n \in I : h[n].name \in Names
  BY <1>1 DEF IsTree, IsHeap, IsNode
<1> HIDE DEF I
<1>7. \A n \in I \ {root} : /\ h[n].parentPtr \in I /\ n \in ToSet(Children(h, h[n].parentPtr))
                            /\ h[n] # Blank /\ h[n].type \in {"D", "F"}
                            /\ IsDir(h, h[n].parentPtr)
  BY <1>1, <1>3, <1>4
<1>8. QED
  BY <1>1, <1>2, <1>5, <1>6, <1>7 DEF I

\* There is no other such set.
LEMMA InsideIsOne ==
  ASSUME NEW h, IsTree(h), NEW S \in SUBSET Nodes, root \in S, HasKids(h, S),
         \A n \in S \ {root} : /\ h[n].parentPtr \in S
                               /\ n \in ToSet(Children(h, h[n].parentPtr))
  PROVE  S = Inside(h)
<1>1. Inside(h) \subseteq S
  BY DEF Inside
<1>2. S \subseteq Inside(h)
  <2> DEFINE X == S \ Inside(h)
  <2>1. root \notin X /\ HasKids(h, Inside(h)) /\ h[root].parentPtr = NULL
    BY InsideIs
  <2>2. ASSUME NEW n \in X
        PROVE  h[n].parentPtr \in X /\ h[n] # Blank
    <3>1. n \in S \ {root} /\ n \in Nodes
      BY <2>1
    <3>2. h[n].parentPtr \in S /\ n \in ToSet(Children(h, h[n].parentPtr))
      BY <3>1
    <3>3. h[n].parentPtr \notin Inside(h)
      BY <2>1, <2>2, <3>2 DEF HasKids
    <3>4. h[n].parentPtr # NULL
      BY <3>2, BoundFacts
    <3>5. QED
      BY <3>2, <3>3, <3>4, BlankIsNode
  <2>3. X \in SUBSET Nodes
    OBVIOUS
  <2> HIDE DEF X
  <2>4. UpClosed(h, X)
    BY <2>2 DEF UpClosed
  <2>5. X = {}
    BY <2>1, <2>2, <2>3, <2>4 DEF IsTree, UpToRoot
  <2>6. QED
    BY <2>5 DEF X
<1>3. QED
  BY <1>1, <1>2

\* What the root has, and a node has when its parent does, all inside have.
LEMMA DownInduction ==
  ASSUME NEW h, IsTree(h), NEW P, root \in P,
         \A n \in Inside(h) \ {root} : h[n].parentPtr \in P => n \in P
  PROVE  Inside(h) \subseteq P
<1> DEFINE X == Inside(h) \cap P
<1>1. root \in X /\ X \in SUBSET Nodes
  BY InsideIs
<1>2. ASSUME NEW m \in X, NEW c \in ToSet(Children(h, m))
      PROVE  c \in X
  <2>1. c \in Inside(h) /\ m \in Nodes
    BY <1>2, InsideIs DEF HasKids
  <2>2. Kids(h, m, Children(h, m))
    BY <2>1, KidsAre
  <2>3. h[c].parentPtr = m /\ c # root
    BY <1>2, <2>1, <2>2, AKid DEF Kids, ToSet
  <2>4. QED
    BY <2>1, <2>3
<1> HIDE DEF X
<1>3. HasKids(h, X)
  BY <1>2 DEF HasKids
<1>4. Inside(h) \subseteq X
  BY <1>1, <1>3 DEF Inside
<1>5. QED
  BY <1>4 DEF X

\* When all ways up lead to the root, each node has its number of steps.
LEMMA Ranked ==
  ASSUME NEW S \in SUBSET Nodes, root \in S, NEW up,
         \A n \in S \ {root} : up[n] \in S,
         \A X \in SUBSET S : X # {} /\ (\A n \in X \ {root} : up[n] \in X) => root \in X
  PROVE  \E r : \A n \in S : r[n] \in 1 .. NNodes /\ (n # root => r[n] = r[up[n]] + 1)
<1> DEFINE Cl(X) == \A n \in X \ {root} : up[n] \in X
           B(n) == {m \in S : \A X \in SUBSET S : n \in X /\ Cl(X) => m \in X}
           r == [n \in S |-> Cardinality(B(n))]
<1>1. ASSUME NEW n \in S
      PROVE  /\ B(n) \in SUBSET S /\ n \in B(n) /\ Cl(B(n))
             /\ \A X \in SUBSET S : n \in X /\ Cl(X) => B(n) \subseteq X
  OBVIOUS
<1>2. B(root) = {root}
  <2>1. Cl({root}) /\ {root} \in SUBSET S
    OBVIOUS
  <2> HIDE DEF B, Cl
  <2>2. QED
    BY <1>1, <2>1
<1>3. ASSUME NEW n \in S \ {root}
      PROVE  up[n] \in S /\ B(n) = {n} \cup B(up[n])
  <2>1. up[n] \in S
    OBVIOUS
  <2> DEFINE X == {n} \cup B(up[n])
  <2>2. X \in SUBSET S /\ n \in X /\ up[n] \in B(up[n]) /\ Cl(B(up[n]))
    BY <1>1, <2>1
  <2>3. Cl(X)
    <3> HIDE DEF B
    <3>1. QED
      BY <2>2
  <2>4. up[n] \in B(n) /\ Cl(B(n)) /\ B(n) \in SUBSET S /\ n \in B(n)
    <3>1. Cl(B(n)) /\ B(n) \in SUBSET S /\ n \in B(n)
      BY <1>1
    <3> HIDE DEF B
    <3>2. QED
      BY <3>1
  <2> HIDE DEF X, B, Cl
  <2>5. B(n) \subseteq X /\ B(up[n]) \subseteq B(n)
    BY <1>1, <2>1, <2>2, <2>3, <2>4
  <2>6. QED
    BY <2>1, <2>4, <2>5 DEF X
<1>4. ASSUME NEW n \in S \ {root}
      PROVE  n \notin B(up[n])
  <2>1. SUFFICES ASSUME n \in B(up[n]) PROVE FALSE
    OBVIOUS
  <2> DEFINE X == {m \in B(n) : n \in B(m)}
  <2> HIDE DEF B
  <2>2. X \in SUBSET S /\ n \in X
    BY <1>1
  <2>3. ASSUME NEW m \in X \ {root}
        PROVE  up[m] \in X
    <3>1. m \in S \ {root} /\ m \in B(n) /\ n \in B(m)
      BY <2>2
    <3>2. up[m] \in B(n)
      BY <1>1, <3>1
    <3>3. n \in B(up[m])
      BY <1>3, <2>1, <3>1
    <3>4. QED
      BY <3>2, <3>3
  <2> HIDE DEF X
  <2>4. root \in X
    BY <2>2, <2>3
  <2>5. QED
    BY <1>2, <2>4 DEF X
<1> HIDE DEF B, Cl
<1>5. ASSUME NEW n \in S
      PROVE  IsFiniteSet(B(n)) /\ Cardinality(B(n)) \in 1 .. NNodes
  <2>1. B(n) \in SUBSET Nodes /\ n \in B(n)
    BY <1>1
  <2>2. IsFiniteSet(B(n)) /\ Cardinality(B(n)) <= NNodes
    BY <2>1, NodesAreFinite, FS_Subset
  <2>3. Cardinality(B(n)) \in Nat /\ Cardinality(B(n)) # 0
    BY <2>1, <2>2, FS_CardinalityType, FS_EmptySet
  <2>4. QED
    BY <2>2, <2>3, BoundFacts
<1>6. ASSUME NEW n \in S \ {root}
      PROVE  Cardinality(B(n)) = Cardinality(B(up[n])) + 1
  <2>1. IsFiniteSet(B(up[n])) /\ n \notin B(up[n]) /\ B(n) = {n} \cup B(up[n])
    BY <1>3, <1>4, <1>5
  <2>2. B(n) = B(up[n]) \cup {n}
    BY <2>1
  <2>3. QED
    BY <2>1, <2>2, FS_AddElement
<1>7. \A n \in S : r[n] \in 1 .. NNodes /\ (n # root => r[n] = r[up[n]] + 1)
  BY <1>5, <1>6
<1> HIDE DEF r
<1>8. QED
  BY <1>7

\* The recursions of PathOf, Subtree and preOrderWrite, as equations.
LEMMA PathValues ==
  ASSUME NEW h, IsHeap(h)
  PROVE  \E path : /\ \A n : PathOf(h, n) = path[<<NNodes, n>>]
                   /\ \A k \in 0 .. NNodes, m \in Nodes \cup {NULL} :
                        path[<<k, m>>] = IF k = 0 \/ m = NULL \/ h[m].parentPtr = NULL THEN <<>>
                                         ELSE Append(path[<<k - 1, h[m].parentPtr>>], h[m].name)
<1> DEFINE Pathed(g) ==
             g = [e \in Places |->
                    IF e[1] = 0 \/ e[2] = NULL \/ h[e[2]].parentPtr = NULL THEN <<>>
                    ELSE Append(g[<<e[1] - 1, h[e[2]].parentPtr>>], h[e[2]].name)]
           path == CHOOSE g : Pathed(g)
           M == Nodes \cup {NULL}
<1>1. PICK g : Values(g, "path", h, NNodes)
  BY ValuesExist
<1>2. Pathed(g)
  BY <1>1 DEF Values, Value, Places
<1>3. \A n : PathOf(h, n) = path[<<NNodes, n>>]
  BY DEF PathOf
<1>4. Pathed(path)
  <2> HIDE DEF Pathed
  <2>1. QED
    BY <1>2
<1> HIDE DEF path, M
<1>5. \A k \in 0 .. NNodes, m \in M :
        path[<<k, m>>] = IF k = 0 \/ m = NULL \/ h[m].parentPtr = NULL THEN <<>>
                         ELSE Append(path[<<k - 1, h[m].parentPtr>>], h[m].name)
  BY <1>4 DEF Places, M
<1> HIDE DEF Pathed
<1>6. QED
  BY <1>3, <1>5 DEF M

\* The sets that Subtree is made of.
IsBelow(h, below) ==
  /\ \A n : Subtree(h, n) = {n} \cup below[<<NNodes, h[n].childPtr>>]
  /\ \A k \in 0 .. NNodes, m \in Nodes \cup {NULL} :
       below[<<k, m>>] = IF k = 0 \/ m = NULL THEN {}
                         ELSE {m} \cup below[<<k - 1, h[m].childPtr>>]
                                  \cup below[<<k - 1, h[m].siblingPtr>>]

LEMMA BelowValues ==
  ASSUME NEW h, IsHeap(h)
  PROVE  \E below : IsBelow(h, below)
<1> DEFINE Belows(g) ==
             g = [e \in Places |->
                    IF e[1] = 0 \/ e[2] = NULL THEN {}
                    ELSE {e[2]} \cup g[<<e[1] - 1, h[e[2]].childPtr>>]
                                \cup g[<<e[1] - 1, h[e[2]].siblingPtr>>]]
           below == CHOOSE g : Belows(g)
           M == Nodes \cup {NULL}
<1>1. PICK g : Values(g, "below", h, NNodes)
  BY ValuesExist
<1>2. Belows(g)
  BY <1>1 DEF Values, Value, Places
<1>3. \A n : Subtree(h, n) = {n} \cup below[<<NNodes, h[n].childPtr>>]
  BY DEF Subtree
<1>4. Belows(below)
  <2> HIDE DEF Belows
  <2>1. QED
    BY <1>2
<1> HIDE DEF below, M
<1>5. \A k \in 0 .. NNodes, m \in M :
        below[<<k, m>>] = IF k = 0 \/ m = NULL THEN {}
                          ELSE {m} \cup below[<<k - 1, h[m].childPtr>>]
                                   \cup below[<<k - 1, h[m].siblingPtr>>]
  BY <1>4 DEF Places, M
<1> HIDE DEF Belows
<1>6. IsBelow(h, below)
  BY <1>3, <1>5 DEF M, IsBelow
<1>7. QED
  BY <1>6

LEMMA LinesValues ==
  ASSUME NEW h, IsHeap(h)
  PROVE  \E lines : /\ \A n : preOrderWrite(h, n) = lines[<<NNodes, n>>]
                    /\ \A k \in 0 .. NNodes, m \in Nodes \cup {NULL} :
                         lines[<<k, m>>] = IF k = 0 \/ m = NULL THEN <<>>
                                           ELSE InPreorder(Line(h, m),
                                                  lines[<<k - 1, h[m].childPtr>>],
                                                  lines[<<k - 1, h[m].siblingPtr>>])
<1> DEFINE Written(g) ==
             g = [e \in Places |->
                    IF e[1] = 0 \/ e[2] = NULL THEN <<>>
                    ELSE InPreorder(Line(h, e[2]), g[<<e[1] - 1, h[e[2]].childPtr>>],
                                                   g[<<e[1] - 1, h[e[2]].siblingPtr>>])]
           lines == CHOOSE g : Written(g)
           M == Nodes \cup {NULL}
<1>1. PICK g : Values(g, "lines", h, NNodes)
  BY ValuesExist
<1>2. Written(g)
  BY <1>1 DEF Values, Value, Places
<1>3. \A n : preOrderWrite(h, n) = lines[<<NNodes, n>>]
  BY DEF preOrderWrite
<1>4. Written(lines)
  <2> HIDE DEF Written
  <2>1. QED
    BY <1>2
<1> HIDE DEF lines, M
<1>5. \A k \in 0 .. NNodes, m \in M :
        lines[<<k, m>>] = IF k = 0 \/ m = NULL THEN <<>>
                          ELSE InPreorder(Line(h, m), lines[<<k - 1, h[m].childPtr>>],
                                                      lines[<<k - 1, h[m].siblingPtr>>])
  BY <1>4 DEF Places, M
<1> HIDE DEF Written
<1>6. QED
  BY <1>3, <1>5 DEF M

\* The path of a node is its parent's with its name.
LEMMA PathOfIs ==
  ASSUME NEW h, IsTree(h)
  PROVE  /\ PathOf(h, root) = <<>>
         /\ \A n \in Inside(h) \ {root} :
              PathOf(h, n) = Append(PathOf(h, h[n].parentPtr), h[n].name)
<1> DEFINE I == Inside(h)
           up == [n \in Nodes |-> h[n].parentPtr]
<1>0. IsHeap(h)
  BY DEF IsTree
<1>1. PICK path : /\ \A n : PathOf(h, n) = path[<<NNodes, n>>]
                  /\ \A k \in 0 .. NNodes, m \in Nodes \cup {NULL} :
                       path[<<k, m>>] = IF k = 0 \/ m = NULL \/ h[m].parentPtr = NULL THEN <<>>
                                        ELSE Append(path[<<k - 1, h[m].parentPtr>>], h[m].name)
  BY <1>0, PathValues
<1>2. /\ root \in I /\ I \subseteq Nodes /\ h[root].parentPtr = NULL /\ NULL \notin I
      /\ \A n \in I \ {root} : h[n].parentPtr \in I /\ h[n] # Blank
  BY InsideIs, BoundFacts
<1> HIDE DEF I
<1>3. ASSUME NEW X \in SUBSET I, X # {}, \A n \in X \ {root} : up[n] \in X
      PROVE  root \in X
  <2>1. UpClosed(h, X)
    BY <1>2, <1>3 DEF UpClosed
  <2>2. root \notin X => \E n \in X : h[n] # Blank
    BY <1>2, <1>3
  <2>3. QED
    BY <1>2, <2>1, <2>2 DEF IsTree, UpToRoot
<1>4. \A n \in I \ {root} : up[n] \in I
  BY <1>2
<1>6. \A n \in I : up[n] = h[n].parentPtr
  BY <1>2
<1> HIDE DEF up
<1>14. \A X \in SUBSET I : X # {} /\ (\A n \in X \ {root} : up[n] \in X) => root \in X
  BY <1>3
<1>5. PICK r : \A n \in I : r[n] \in 1 .. NNodes /\ (n # root => r[n] = r[up[n]] + 1)
  BY <1>2, <1>4, <1>14, Ranked
<1> DEFINE T == {k \in 0 .. NNodes - 1 :
                   \A n \in I : r[n] <= k => path[<<k, n>>] = path[<<k + 1, n>>]}
<1>7. 0 \in T
  BY <1>5, BoundFacts
<1>8. ASSUME NEW k \in 1 .. NNodes - 1, k - 1 \in T
      PROVE  k \in T
  <2>1. k \in 0 .. NNodes - 1 /\ k \in 0 .. NNodes /\ k + 1 \in 0 .. NNodes /\ k # 0 /\ k + 1 # 0
        /\ (k + 1) - 1 = k /\ (k - 1) + 1 = k
    BY BoundFacts
  <2>2. SUFFICES ASSUME NEW n \in I, r[n] <= k PROVE path[<<k, n>>] = path[<<k + 1, n>>]
    BY <2>1
  <2>3. n \in Nodes \cup {NULL} /\ n # NULL
    BY <1>2
  <2>4. CASE n = root
    BY <1>1, <1>2, <2>1, <2>3, <2>4
  <2>5. CASE n # root
    <3> DEFINE p == h[n].parentPtr
    <3>1. p \in I /\ p # NULL /\ r[p] \in 1 .. NNodes /\ r[n] = r[p] + 1
      BY <1>2, <1>5, <1>6, <2>5
    <3>2. path[<<k - 1, p>>] = path[<<k, p>>]
      BY <1>8, <2>1, <2>2, <3>1
    <3>3. /\ path[<<k, n>>] = Append(path[<<k - 1, p>>], h[n].name)
          /\ path[<<k + 1, n>>] = Append(path[<<k, p>>], h[n].name)
      BY <1>1, <2>1, <2>3, <3>1
    <3>4. QED
      BY <3>2, <3>3
  <2>6. QED
    BY <2>4, <2>5
<1> HIDE DEF T
<1>9. NNodes - 1 \in T
  BY <1>7, <1>8, LoopInduction, BoundFacts
<1>10. /\ NNodes \in 0 .. NNodes /\ NNodes # 0
       /\ NNodes - 1 \in 0 .. NNodes /\ (NNodes - 1) + 1 = NNodes
  BY BoundFacts
<1>11. ASSUME NEW n \in I \ {root}
       PROVE  PathOf(h, n) = Append(PathOf(h, h[n].parentPtr), h[n].name)
  <2> DEFINE p == h[n].parentPtr
  <2>1. n \in Nodes \cup {NULL} /\ n # NULL /\ p \in I /\ p # NULL
        /\ r[p] <= NNodes - 1
    BY <1>2, <1>5, <1>6, BoundFacts
  <2>2. path[<<NNodes, n>>] = Append(path[<<NNodes - 1, p>>], h[n].name)
    BY <1>1, <1>10, <2>1
  <2>3. path[<<NNodes - 1, p>>] = path[<<NNodes, p>>]
    BY <1>9, <1>10, <2>1 DEF T
  <2>4. QED
    BY <1>1, <2>2, <2>3
<1>12. PathOf(h, root) = <<>>
  BY <1>1, <1>2, <1>10
<1>13. QED
  BY <1>11, <1>12 DEF I

\* A child of a node inside.
LEMMA KidInside ==
  ASSUME NEW h, IsTree(h), NEW p \in Inside(h), NEW i \in 1 .. Len(Children(h, p))
  PROVE  LET s == Children(h, p)
         IN  /\ s \in Seq(Nodes) /\ Len(s) \in Nat /\ Kids(h, p, s)
             /\ s[i] \in Inside(h) \ {root} /\ h[s[i]].parentPtr = p
             /\ \A j \in 1 .. Len(s) : s[j] = s[i] => j = i
             /\ h[s[i]].siblingPtr = IF i = Len(s) THEN NULL ELSE s[i + 1]
<1> DEFINE s == Children(h, p)
<1>1. p \in Nodes /\ Inside(h) \subseteq Nodes /\ ToSet(s) \subseteq Inside(h)
  BY InsideIs DEF HasKids
<1>2. Kids(h, p, s)
  BY <1>1, KidsAre
<1>3. i \in 1 .. Len(s)
  OBVIOUS
<1> HIDE DEF s
<1>4. s \in Seq(Nodes) /\ Len(s) \in Nat
  BY <1>2 DEF Kids
<1>5. s[i] \in ToSet(s)
  BY <1>3, <1>4 DEF ToSet
<1>6. s[i] # root /\ h[s[i]].parentPtr = p
  BY <1>1, <1>2, <1>3, AKid
<1>7. \A j \in 1 .. Len(s) : s[j] = s[i] => j = i
  BY <1>2, <1>3 DEF Kids
<1>8. h[s[i]].siblingPtr = IF i = Len(s) THEN NULL ELSE s[i + 1]
  <2>1. h[s[i]].siblingPtr = At(s, i + 1)
    BY <1>2, <1>3 DEF Kids, Follows
  <2>2. i # Len(s) => i + 1 \in 1 .. Len(s)
    BY <1>3, <1>4
  <2>3. i = Len(s) => i + 1 \notin 1 .. Len(s)
    BY <1>3, <1>4
  <2>4. QED
    BY <2>1, <2>2, <2>3 DEF At
<1>9. QED
  BY <1>1, <1>2, <1>4, <1>5, <1>6, <1>7, <1>8 DEF s

\* The node before n when all are visited: its sibling, or its parent.
Pred(h, n) ==
  LET p == h[n].parentPtr
      s == Children(h, p)
      i == CHOOSE i \in 1 .. Len(s) : s[i] = n
  IN  IF i = 1 THEN p ELSE s[i - 1]

LEMMA PredIs ==
  ASSUME NEW h, IsTree(h), NEW p \in Inside(h), NEW i \in 1 .. Len(Children(h, p))
  PROVE  Pred(h, Children(h, p)[i]) = IF i = 1 THEN p ELSE Children(h, p)[i - 1]
<1> DEFINE s == Children(h, p)
<1>1. i \in 1 .. Len(s) /\ h[s[i]].parentPtr = p /\ \A j \in 1 .. Len(s) : s[j] = s[i] => j = i
  BY KidInside
<1>2. Pred(h, s[i]) = LET k == CHOOSE k \in 1 .. Len(s) : s[k] = s[i]
                      IN  IF k = 1 THEN p ELSE s[k - 1]
  BY <1>1 DEF Pred
<1> HIDE DEF s
<1>3. (CHOOSE k \in 1 .. Len(s) : s[k] = s[i]) = i
  BY <1>1
<1>4. Pred(h, s[i]) = IF i = 1 THEN p ELSE s[i - 1]
  BY <1>2, <1>3
<1>5. QED
  BY <1>4 DEF s

\* All nodes are in a list, that of the root apart.
LEMMA Listed ==
  ASSUME NEW h, IsTree(h), NEW n \in Inside(h) \ {root}
  PROVE  /\ h[n].parentPtr \in Inside(h)
         /\ \E i \in 1 .. Len(Children(h, h[n].parentPtr)) : Children(h, h[n].parentPtr)[i] = n
<1> DEFINE s == Children(h, h[n].parentPtr)
<1>1. h[n].parentPtr \in Inside(h) /\ h[n].parentPtr \in Nodes /\ n \in ToSet(s)
  BY InsideIs
<1>2. s \in Seq(Nodes)
  BY <1>1, KidsAre DEF Kids
<1>3. QED
  BY <1>1, <1>2 DEF ToSet

\* A set that has the node before each of its own has the root.
LEMMA PredsLeadToRoot ==
  ASSUME NEW h, IsTree(h), NEW X \in SUBSET Inside(h), X # {},
         \A n \in X \ {root} : Pred(h, n) \in X
  PROVE  root \in X
<1>1. SUFFICES ASSUME root \notin X PROVE FALSE
  OBVIOUS
<1>2. ASSUME NEW p \in Inside(h), NEW n \in X, NEW j \in 1 .. Len(Children(h, p)),
             Children(h, p)[j] = n
      PROVE  p \in X
  <2> DEFINE s == Children(h, p)
             T == {k \in 0 .. j : k # 0 => (s[k] \in X => p \in X)}
  <2>1. \A i \in 1 .. Len(s) : Pred(h, s[i]) = IF i = 1 THEN p ELSE s[i - 1]
    BY PredIs
  <2>2. j \in 1 .. Len(s) /\ Len(s) \in Nat /\ s[j] = n
    BY <1>2, KidInside
  <2> HIDE DEF s
  <2>3. 0 \in T
    BY <2>2
  <2>4. ASSUME NEW k \in 1 .. j, k - 1 \in T
        PROVE  k \in T
    <3>1. k \in 1 .. Len(s) /\ k \in 0 .. j
      BY <2>2
    <3>2. s[k] \in X => Pred(h, s[k]) \in X
      BY <1>1
    <3>3. Pred(h, s[k]) = IF k = 1 THEN p ELSE s[k - 1]
      BY <2>1, <3>1
    <3>4. QED
      BY <2>4, <3>1, <3>2, <3>3
  <2> HIDE DEF T
  <2>5. j \in T
    BY <2>2, <2>3, <2>4, LoopInduction
  <2>6. QED
    BY <1>2, <2>2, <2>5 DEF T
<1>3. ASSUME NEW n \in X
      PROVE  h[n].parentPtr \in X /\ h[n] # Blank
  <2>1. n \in Inside(h) \ {root}
    BY <1>1
  <2>2. h[n] # Blank /\ h[n].parentPtr \in Inside(h)
    BY <2>1, InsideIs
  <2>3. QED
    BY <1>2, <2>1, <2>2, Listed
<1>4. X \in SUBSET Nodes
  BY InsideIs
<1>5. UpClosed(h, X)
  BY <1>3 DEF UpClosed
<1>6. QED
  BY <1>1, <1>3, <1>4, <1>5 DEF IsTree, UpToRoot

\* The order of visits: first the children, then the siblings.
LEMMA VisitsAreRanked ==
  ASSUME NEW h, IsTree(h)
  PROVE  \E r : \A n \in Inside(h) :
           /\ r[n] \in 1 .. NNodes
           /\ \/ h[n].childPtr = NULL
              \/ /\ h[n].childPtr \in Inside(h) \ {root} /\ r[h[n].childPtr] = r[n] + 1
                 /\ h[h[n].childPtr].parentPtr = n
           /\ n # root => \/ h[n].siblingPtr = NULL
                          \/ /\ h[n].siblingPtr \in Inside(h) \ {root}
                             /\ r[h[n].siblingPtr] = r[n] + 1
                             /\ h[h[n].siblingPtr].parentPtr = h[n].parentPtr
<1> DEFINE I == Inside(h)
           up == [n \in Nodes |-> Pred(h, n)]
<1>1. root \in I /\ I \in SUBSET Nodes
  BY InsideIs
<1>2. \A n \in I : up[n] = Pred(h, n)
  BY <1>1
<1>3. ASSUME NEW n \in I \ {root}
      PROVE  up[n] \in I
  <2> DEFINE p == h[n].parentPtr
             s == Children(h, p)
  <2>1. PICK i \in 1 .. Len(s) : s[i] = n
    BY Listed
  <2>2. p \in I /\ Len(s) \in Nat
    BY <2>1, Listed, KidInside
  <2>3. Pred(h, n) = IF i = 1 THEN p ELSE s[i - 1]
    BY <2>1, <2>2, PredIs
  <2>4. i # 1 => i - 1 \in 1 .. Len(s)
    BY <2>1, <2>2
  <2>5. i # 1 => s[i - 1] \in I
    BY <2>2, <2>4, KidInside
  <2>6. QED
    BY <1>2, <2>2, <2>3, <2>5
<1> HIDE DEF up
<1>4. ASSUME NEW X \in SUBSET I, X # {}, \A n \in X \ {root} : up[n] \in X
      PROVE  root \in X
  <2>1. \A n \in X \ {root} : Pred(h, n) \in X
    BY <1>2, <1>4
  <2>2. QED
    BY <1>4, <2>1, PredsLeadToRoot
<1>5. \A X \in SUBSET I : X # {} /\ (\A n \in X \ {root} : up[n] \in X) => root \in X
  BY <1>4
<1> HIDE DEF I
<1>6. PICK r : \A n \in I : r[n] \in 1 .. NNodes /\ (n # root => r[n] = r[up[n]] + 1)
  BY <1>1, <1>3, <1>5, Ranked
<1>7. ASSUME NEW n \in I
      PROVE  \/ h[n].childPtr = NULL
             \/ /\ h[n].childPtr \in I \ {root} /\ r[h[n].childPtr] = r[n] + 1
                /\ h[h[n].childPtr].parentPtr = n
  <2> DEFINE s == Children(h, n)
  <2>1. n \in Nodes /\ Kids(h, n, s)
    BY <1>1, KidsAre
  <2>2. h[n].childPtr = At(s, 1) /\ Len(s) \in Nat
    BY <2>1 DEF Kids, Follows
  <2>3. CASE Len(s) = 0
    BY <2>2, <2>3 DEF At
  <2>4. CASE Len(s) # 0
    <3>1. 1 \in 1 .. Len(s)
      BY <2>2, <2>4
    <3>2. h[n].childPtr = s[1]
      BY <2>2, <3>1 DEF At
    <3>3. s[1] \in I \ {root} /\ Pred(h, s[1]) = n /\ h[s[1]].parentPtr = n
      BY <3>1, KidInside, PredIs DEF I
    <3>4. QED
      BY <1>2, <1>6, <3>2, <3>3
  <2>5. QED
    BY <2>3, <2>4
<1>8. ASSUME NEW n \in I \ {root}
      PROVE  \/ h[n].siblingPtr = NULL
             \/ /\ h[n].siblingPtr \in I \ {root} /\ r[h[n].siblingPtr] = r[n] + 1
                /\ h[h[n].siblingPtr].parentPtr = h[n].parentPtr
  <2> DEFINE p == h[n].parentPtr
             s == Children(h, p)
  <2>1. PICK i \in 1 .. Len(s) : s[i] = n
    BY Listed DEF I
  <2>2. p \in Inside(h)
    BY Listed DEF I
  <2>3. h[n].siblingPtr = (IF i = Len(s) THEN NULL ELSE s[i + 1]) /\ Len(s) \in Nat
    BY <2>1, <2>2, KidInside
  <2>4. CASE i = Len(s)
    BY <2>3, <2>4
  <2>5. CASE i # Len(s)
    <3>1. i + 1 \in 1 .. Len(s) /\ i + 1 # 1 /\ (i + 1) - 1 = i
      BY <2>1, <2>3, <2>5
    <3>2. s[i + 1] \in I \ {root} /\ Pred(h, s[i + 1]) = s[i] /\ h[s[i + 1]].parentPtr = p
      BY <2>2, <3>1, KidInside, PredIs DEF I
    <3>3. QED
      BY <1>2, <1>6, <2>1, <2>3, <2>5, <3>2
  <2>6. QED
    BY <2>4, <2>5
<1>9. QED
  BY <1>6, <1>7, <1>8 DEF I

\* The first child of each, and the next sibling.
Visits(h, W) == \A n \in W : {h[n].childPtr, h[n].siblingPtr} \subseteq W \cup {NULL}

\* Who visits the first child of the root, and so on, visits all.
LEMMA AllAreVisited ==
  ASSUME NEW h, IsTree(h), NEW W, h[root].childPtr \in W \cup {NULL}, Visits(h, W)
  PROVE  Inside(h) \ {root} \subseteq W
<1> DEFINE X == {root} \cup (W \cap Inside(h))
<1>1. root \in X /\ X \in SUBSET Inside(h) /\ X \in SUBSET Nodes
  BY InsideIs
<1>2. ASSUME NEW m \in X, NEW c \in ToSet(Children(h, m))
      PROVE  c \in X
  <2> DEFINE s == Children(h, m)
  <2>1. m \in Inside(h) /\ m \in Nodes
    BY <1>1
  <2>2. Kids(h, m, s)
    BY <2>1, KidsAre
  <2>3. s \in Seq(Nodes) /\ Len(s) \in Nat /\ h[m].childPtr = At(s, 1)
    BY <2>2 DEF Kids, Follows
  <2>4. \A i \in 1 .. Len(s) : /\ s[i] \in Inside(h) /\ s[i] # NULL
                               /\ h[s[i]].siblingPtr = IF i = Len(s) THEN NULL ELSE s[i + 1]
    BY <2>1, KidInside, InsideIs, BoundFacts
  <2>5. PICK j \in 1 .. Len(s) : s[j] = c
    BY <2>3 DEF ToSet
  <2>6. h[m].childPtr \in W \cup {NULL}
    BY DEF Visits
  <2> HIDE DEF s, X
  <2> DEFINE T == {k \in 0 .. j : k # 0 => s[k] \in W}
  <2>7. 0 \in T
    BY <2>5
  <2>8. ASSUME NEW k \in 1 .. j, k - 1 \in T
        PROVE  k \in T
    <3>1. k \in 0 .. j /\ k \in 1 .. Len(s) /\ s[k] # NULL
      BY <2>3, <2>4, <2>5
    <3>2. CASE k = 1
      BY <2>3, <2>6, <3>1, <3>2 DEF At
    <3>3. CASE k # 1
      <4>1. k - 1 \in 1 .. Len(s) /\ k - 1 # Len(s) /\ (k - 1) + 1 = k /\ s[k - 1] \in W
        BY <2>3, <2>5, <2>8, <3>3
      <4>2. h[s[k - 1]].siblingPtr = s[k]
        BY <2>4, <4>1
      <4>3. h[s[k - 1]].siblingPtr \in W \cup {NULL}
        BY <4>1 DEF Visits
      <4>4. QED
        BY <3>1, <4>2, <4>3
    <3>4. QED
      BY <3>2, <3>3
  <2> HIDE DEF T
  <2>9. j \in T
    BY <2>3, <2>5, <2>7, <2>8, LoopInduction
  <2>10. QED
    BY <2>4, <2>5, <2>9 DEF T, X
<1> HIDE DEF X
<1>3. HasKids(h, X)
  BY <1>2 DEF HasKids
<1>4. Inside(h) \subseteq X
  BY <1>1, <1>3 DEF Inside
<1>5. QED
  BY <1>4 DEF X

\* The recursion over childPtr and siblingPtr meets every node of the tree.
LEMMA SubtreeIsInside ==
  ASSUME NEW h, IsTree(h)
  PROVE  Subtree(h, root) = Inside(h)
<1> DEFINE I == Inside(h)
           first == h[root].childPtr
<1>0. PICK below : IsBelow(h, below)
  <2>1. IsHeap(h)
    BY DEF IsTree
  <2>2. QED
    BY <2>1, BelowValues
<1>1. /\ \A n : Subtree(h, n) = {n} \cup below[<<NNodes, h[n].childPtr>>]
      /\ \A k \in 0 .. NNodes, m \in Nodes \cup {NULL} :
           below[<<k, m>>] = IF k = 0 \/ m = NULL THEN {}
                             ELSE {m} \cup below[<<k - 1, h[m].childPtr>>]
                                      \cup below[<<k - 1, h[m].siblingPtr>>]
  BY <1>0 DEF IsBelow
<1>2. PICK r : \A n \in I :
           /\ r[n] \in 1 .. NNodes
           /\ \/ h[n].childPtr = NULL
              \/ h[n].childPtr \in I \ {root} /\ r[h[n].childPtr] = r[n] + 1
           /\ n # root => \/ h[n].siblingPtr = NULL
                          \/ /\ h[n].siblingPtr \in I \ {root}
                             /\ r[h[n].siblingPtr] = r[n] + 1
  BY VisitsAreRanked
<1>3. root \in I /\ I \subseteq Nodes /\ NULL \notin I
  BY InsideIs, BoundFacts
<1> HIDE DEF I
<1> DEFINE Below(n, W) == W \subseteq I \ {root} /\ Visits(h, W) /\ (n # NULL => n \in W)
           T == {k \in 0 .. NNodes : \A n \in I \ {root} :
                   k + r[n] >= NNodes + 1 => Below(n, below[<<k, n>>])}
<1>4. 0 \in T
  BY <1>2, BoundFacts
<1>5. \A k \in 0 .. NNodes : Below(NULL, below[<<k, NULL>>])
  BY <1>1 DEF Visits
<1>6. ASSUME NEW k \in 1 .. NNodes, k - 1 \in T
      PROVE  k \in T
  <2>1. k \in 0 .. NNodes /\ k # 0 /\ k - 1 \in 0 .. NNodes
    BY BoundFacts
  <2>2. SUFFICES ASSUME NEW n \in I \ {root}, k + r[n] >= NNodes + 1
                 PROVE  Below(n, below[<<k, n>>])
    BY <2>1
  <2> DEFINE c == h[n].childPtr
             b == h[n].siblingPtr
             C == below[<<k - 1, c>>]
             B == below[<<k - 1, b>>]
  <2>3. ASSUME NEW m, m = NULL \/ (m \in I \ {root} /\ r[m] = r[n] + 1)
        PROVE  Below(m, below[<<k - 1, m>>])
    <3>1. CASE m = NULL
      BY <1>5, <2>1, <3>1
    <3>2. CASE m # NULL
      <4>1. (k - 1) + r[m] >= NNodes + 1 /\ m \in I \ {root}
        BY <1>2, <2>1, <2>2, <2>3, <3>2, BoundFacts
      <4> HIDE DEF Below
      <4>2. QED
        BY <1>6, <4>1
    <3>3. QED
      BY <3>1, <3>2
  <2>4. Below(c, C) /\ Below(b, B)
    <3> HIDE DEF Below
    <3>1. QED
      BY <1>2, <2>3
  <2>5. below[<<k, n>>] = {n} \cup C \cup B
    <3>1. n \in Nodes \cup {NULL} /\ n # NULL
      BY <1>3
    <3>2. QED
      BY <1>1, <2>1, <3>1
  <2> HIDE DEF C, B
  <2>6. QED
    BY <2>4, <2>5 DEF Visits
<1> HIDE DEF T
<1>7. NNodes \in T
  BY <1>4, <1>6, LoopInduction, BoundFacts
<1>8. Below(first, below[<<NNodes, first>>])
  <2>1. NNodes \in 0 .. NNodes
    BY BoundFacts
  <2>2. CASE first = NULL
    BY <1>5, <2>1, <2>2
  <2>3. CASE first # NULL
    <3>1. first \in I \ {root} /\ NNodes + r[first] >= NNodes + 1
      BY <1>2, <1>3, <2>3, BoundFacts
    <3> HIDE DEF Below, first
    <3>2. QED
      BY <1>7, <3>1 DEF T
  <2>4. QED
    BY <2>2, <2>3
<1> DEFINE W == below[<<NNodes, first>>]
<1>9. Subtree(h, root) = {root} \cup W
  BY <1>1
<1> HIDE DEF W
<1>10. W \subseteq I \ {root} /\ Visits(h, W) /\ first \in W \cup {NULL}
  BY <1>8 DEF W
<1>11. I \ {root} \subseteq W
  BY <1>10, AllAreVisited DEF I
<1>12. QED
  BY <1>3, <1>9, <1>10, <1>11 DEF I

-----------------------------------------------------------------------------
(* Paths.                                                                  *)

LEMMA Appended ==
  ASSUME NEW S, NEW s \in Seq(S), NEW x \in S
  PROVE  LET t == Append(s, x)
         IN  t \in Seq(S) /\ t # <<>> /\ Front(t) = s /\ Last(t) = x /\ Len(t) = Len(s) + 1
<1> DEFINE t == Append(s, x)
           f == Front(t)
<1>1. /\ t \in Seq(S) /\ t # <<>> /\ Len(t) = Len(s) + 1 /\ t[Len(s) + 1] = x
      /\ \A i \in 1 .. Len(s) : t[i] = s[i]
  BY AppendProperties
<1>2. Len(s) \in Nat /\ \A i \in 1 .. Len(s) : s[i] \in S
  BY ElementOfSeq
<1> HIDE DEF t
<1>3. f = SubSeq(t, 1, Len(s)) /\ Last(t) = x
  BY <1>1, <1>2 DEF Front, Last
<1> HIDE DEF f
<1>4. f \in Seq(S) /\ Len(f) = Len(s) /\ \A i \in 1 .. Len(s) : f[i] = t[i]
  <2>1. 1 \in Int /\ Len(s) \in Int /\ \A i \in 1 .. Len(s) : t[i] \in S
    BY <1>1, <1>2
  <2>2. /\ f \in Seq(S) /\ Len(f) = IF 1 <= Len(s) THEN Len(s) - 1 + 1 ELSE 0
        /\ \A i \in 1 .. Len(s) - 1 + 1 : f[i] = t[1 + i - 1]
    BY <1>3, <2>1, SubSeqProperties
  <2>3. Len(s) - 1 + 1 = Len(s) /\ \A i \in 1 .. Len(s) : 1 + i - 1 = i
    BY <1>2
  <2>4. QED
    BY <1>2, <2>2, <2>3
<1>5. f = s
  BY <1>1, <1>4, SeqEqual
<1>6. QED
  BY <1>1, <1>3, <1>5 DEF t, f

LEMMA FrontAndLast ==
  ASSUME NEW S, NEW t \in Seq(S), t # <<>>
  PROVE  Front(t) \in Seq(S) /\ Last(t) \in S /\ t = Append(Front(t), Last(t))
<1>1. PICK s \in Seq(S), x \in S : t = Append(s, x)
  BY SequenceEmptyOrAppend
<1>2. Front(t) = s /\ Last(t) = x
  BY <1>1, Appended
<1>3. QED
  BY <1>1, <1>2

\* The paths above one of s's entries: s itself and those above s.
LEMMA AboveAppended ==
  ASSUME NEW S, NEW s \in Seq(S), NEW x \in S
  PROVE  PT!Above(Append(s, x)) = PT!Above(s) \cup ({s} \ {<<>>})
<1> DEFINE t == Append(s, x)
<1>1. Len(t) = Len(s) + 1 /\ Len(s) \in Nat /\ t \in Seq(S) /\ \A i \in 1 .. Len(s) : t[i] = s[i]
  BY AppendProperties
<1> HIDE DEF t
<1>2. ASSUME NEW k \in 1 .. Len(s)
      PROVE  SubSeq(t, 1, k) = SubSeq(s, 1, k)
  <2>1. /\ 1 \in Int /\ k \in Int
        /\ \A i \in 1 .. k : s[i] \in S /\ t[i] \in S /\ s[i] = t[i]
    BY <1>1, ElementOfSeq
  <2>2. /\ SubSeq(s, 1, k) \in Seq(S) /\ Len(SubSeq(s, 1, k)) = k
        /\ \A i \in 1 .. k : SubSeq(s, 1, k)[i] = s[i]
    <3>1. /\ SubSeq(s, 1, k) \in Seq(S)
          /\ Len(SubSeq(s, 1, k)) = IF 1 <= k THEN k - 1 + 1 ELSE 0
          /\ \A i \in 1 .. k - 1 + 1 : SubSeq(s, 1, k)[i] = s[1 + i - 1]
      BY <2>1, SubSeqProperties
    <3>2. QED
      BY <3>1
  <2>3. /\ SubSeq(t, 1, k) \in Seq(S) /\ Len(SubSeq(t, 1, k)) = k
        /\ \A i \in 1 .. k : SubSeq(t, 1, k)[i] = t[i]
    <3>1. /\ SubSeq(t, 1, k) \in Seq(S)
          /\ Len(SubSeq(t, 1, k)) = IF 1 <= k THEN k - 1 + 1 ELSE 0
          /\ \A i \in 1 .. k - 1 + 1 : SubSeq(t, 1, k)[i] = t[1 + i - 1]
      BY <2>1, SubSeqProperties
    <3>2. QED
      BY <3>1
  <2>4. \A i \in 1 .. k : SubSeq(s, 1, k)[i] = SubSeq(t, 1, k)[i]
    BY <2>1, <2>2, <2>3
  <2>5. QED
    BY <2>2, <2>3, <2>4, SeqEqual
<1>3. PT!Above(t) = {SubSeq(s, 1, k) : k \in 1 .. Len(s)}
  <2>1. Len(t) - 1 = Len(s)
    BY <1>1
  <2>2. PT!Above(t) = {SubSeq(t, 1, k) : k \in 1 .. Len(s)}
    BY <2>1 DEF PT!Above
  <2>3. QED
    BY <1>2, <2>2
<1>4. PT!Above(s) = {SubSeq(s, 1, k) : k \in 1 .. Len(s) - 1}
  BY DEF PT!Above
<1>5. CASE s = <<>>
  <2>1. Len(s) = 0 /\ 1 .. Len(s) = {} /\ 1 .. Len(s) - 1 = {}
    BY <1>1, <1>5
  <2>2. QED
    BY <1>3, <1>4, <1>5, <2>1 DEF t
<1>6. CASE s # <<>>
  <2>1. Len(s) \in 1 .. Len(s) /\ 1 .. Len(s) = (1 .. Len(s) - 1) \cup {Len(s)}
    BY <1>1, <1>6, EmptySeq
  <2>2. SubSeq(s, 1, Len(s)) = s
    BY SubSeqFull
  <2>3. {SubSeq(s, 1, k) : k \in 1 .. Len(s)} = PT!Above(s) \cup {s}
    BY <1>4, <2>1, <2>2
  <2>4. QED
    BY <1>3, <1>6, <2>3 DEF t
<1>7. QED
  BY <1>5, <1>6

\* A node's path is its parent's and its name.
LEMMA PathFacts ==
  ASSUME NEW h, IsTree(h)
  PROVE  /\ PathOf(h, root) = <<>>
         /\ \A n \in Inside(h) : PathOf(h, n) \in Seq(Names)
         /\ \A n \in Inside(h) \ {root} :
              /\ PathOf(h, n) # <<>> /\ Front(PathOf(h, n)) = PathOf(h, h[n].parentPtr)
              /\ Last(PathOf(h, n)) = h[n].name
              /\ PT!Above(PathOf(h, n)) = PT!Above(PathOf(h, h[n].parentPtr))
                                            \cup ({PathOf(h, h[n].parentPtr)} \ {<<>>})
<1>0. IsHeap(h)
  BY DEF IsTree
<1>1. \A n \in Inside(h) : n \in Nodes /\ h[n].name \in Names
  BY InsideIs
<1>2. \A n \in Inside(h) : PathOf(h, n) \in Seq(Names)
  BY <1>0, <1>1, PathIsNames
<1>3. ASSUME NEW n \in Inside(h) \ {root}
      PROVE  /\ PathOf(h, n) # <<>> /\ Front(PathOf(h, n)) = PathOf(h, h[n].parentPtr)
             /\ Last(PathOf(h, n)) = h[n].name
             /\ PT!Above(PathOf(h, n)) = PT!Above(PathOf(h, h[n].parentPtr))
                                           \cup ({PathOf(h, h[n].parentPtr)} \ {<<>>})
  <2> DEFINE s == PathOf(h, h[n].parentPtr)
             x == h[n].name
  <2>1. PathOf(h, n) = Append(s, x) /\ s \in Seq(Names) /\ x \in Names
    BY <1>1, <1>2, PathOfIs, InsideIs
  <2> HIDE DEF s, x
  <2>2. QED
    BY <2>1, Appended, AboveAppended DEF s, x
<1>4. QED
  BY <1>2, <1>3, PathOfIs

\* No two nodes of the tree have one path.
LEMMA PathsAreUnique ==
  ASSUME NEW h, IsTree(h), NEW n \in Inside(h), NEW m \in Inside(h), PathOf(h, n) = PathOf(h, m)
  PROVE  n = m
<1> DEFINE I == Inside(h)
           P == {x \in Nodes : \A y \in I : PathOf(h, x) = PathOf(h, y) => x = y}
<1>1. root \in P
  BY PathFacts, BoundFacts
<1>2. ASSUME NEW x \in I \ {root}, h[x].parentPtr \in P
      PROVE  x \in P
  <2>1. SUFFICES ASSUME NEW y \in I, PathOf(h, x) = PathOf(h, y) PROVE x = y
    BY InsideIs
  <2>2. y # root
    BY <2>1, PathFacts
  <2>3. h[x].name = h[y].name /\ PathOf(h, h[x].parentPtr) = PathOf(h, h[y].parentPtr)
    BY <2>1, <2>2, PathFacts
  <2> DEFINE p == h[x].parentPtr
             s == Children(h, p)
  <2>4. h[y].parentPtr = p
    BY <1>2, <2>2, <2>3, InsideIs
  <2>5. PICK i \in 1 .. Len(s) : s[i] = x
    BY Listed
  <2>6. PICK j \in 1 .. Len(s) : s[j] = y
    BY <2>2, <2>4, Listed
  <2>7. Kids(h, p, s)
    BY KidsAre, InsideIs
  <2> HIDE DEF s, p
  <2>8. i = j
    BY <2>3, <2>5, <2>6, <2>7 DEF Kids
  <2>9. QED
    BY <2>5, <2>6, <2>8
<1> HIDE DEF P
<1>3. I \subseteq P
  BY <1>1, <1>2, DownInduction
<1>4. QED
  BY <1>3 DEF P

\* The entries of the tree in h.
TreeOf(h) == {Line(h, n) : n \in Inside(h) \ {root}}

\* What is above a path of the tree is a directory of it.
LEMMA AncestorsAreDirs ==
  ASSUME NEW h, IsTree(h), NEW n \in Inside(h), NEW q \in PT!Above(PathOf(h, n))
  PROVE  <<"D", q>> \in TreeOf(h)
<1> DEFINE P == {x \in Nodes : \A y \in PT!Above(PathOf(h, x)) : <<"D", y>> \in TreeOf(h)}
<1>1. root \in P
  <2>1. Len(<<>>) = 0 /\ 1 .. 0 - 1 = {}
    OBVIOUS
  <2>2. PT!Above(<<>>) = {}
    BY <2>1 DEF PT!Above
  <2>3. QED
    BY <2>2, PathFacts, BoundFacts
<1>2. ASSUME NEW x \in Inside(h) \ {root}, h[x].parentPtr \in P
      PROVE  x \in P
  <2> DEFINE p == h[x].parentPtr
  <2>1. p \in Inside(h) /\ IsDir(h, p) /\ x \in Nodes
    BY InsideIs
  <2>2. PathOf(h, p) # <<>> => <<"D", PathOf(h, p)>> \in TreeOf(h)
    BY <2>1, PathFacts DEF TreeOf, Line, IsDir
  <2>3. PT!Above(PathOf(h, x)) = PT!Above(PathOf(h, p)) \cup ({PathOf(h, p)} \ {<<>>})
    BY PathFacts
  <2> HIDE DEF p
  <2>4. QED
    BY <1>2, <2>1, <2>2, <2>3 DEF p
<1> HIDE DEF P
<1>3. Inside(h) \subseteq P
  BY <1>1, <1>2, DownInduction
<1>4. QED
  BY <1>3 DEF P

\* The directories of the tree.
LEMMA DirEntries ==
  ASSUME NEW h, IsTree(h), NEW path
  PROVE  PT!IsDir(TreeOf(h), path) <=> \E n \in Inside(h) : IsDir(h, n) /\ PathOf(h, n) = path
<1>1. ASSUME PT!IsDir(TreeOf(h), path)
      PROVE  \E n \in Inside(h) : IsDir(h, n) /\ PathOf(h, n) = path
  <2>1. CASE path = <<>>
    BY <2>1, PathFacts, InsideIs, BoundFacts DEF IsDir
  <2>2. CASE path # <<>>
    <3>1. PICK n \in Inside(h) \ {root} : Line(h, n) = <<"D", path>>
      BY <1>1, <2>2 DEF PT!IsDir, TreeOf
    <3>2. QED
      BY <3>1, InsideIs DEF Line, IsDir
  <2>3. QED
    BY <2>1, <2>2
<1>2. ASSUME NEW n \in Inside(h), IsDir(h, n), PathOf(h, n) = path
      PROVE  PT!IsDir(TreeOf(h), path)
  BY <1>2, PathFacts DEF PT!IsDir, TreeOf, Line, IsDir
<1>3. QED
  BY <1>1, <1>2

-----------------------------------------------------------------------------
(* What the changes do to it.                                              *)

\* Paths depend on names and parents only.
LEMMA PathsStay ==
  ASSUME NEW h, IsTree(h), NEW g, IsTree(g), Inside(h) \subseteq Inside(g),
         \A n \in Inside(h) \ {root} : g[n].name = h[n].name /\ g[n].parentPtr = h[n].parentPtr
  PROVE  \A n \in Inside(h) : PathOf(g, n) = PathOf(h, n)
<1> DEFINE P == {x \in Nodes : PathOf(g, x) = PathOf(h, x)}
<1>1. root \in P
  BY PathOfIs, BoundFacts
<1>2. ASSUME NEW x \in Inside(h) \ {root}, h[x].parentPtr \in P
      PROVE  x \in P
  <2>1. /\ PathOf(h, x) = Append(PathOf(h, h[x].parentPtr), h[x].name)
        /\ PathOf(g, x) = Append(PathOf(g, g[x].parentPtr), g[x].name)
    BY PathOfIs
  <2>2. QED
    BY <1>2, <2>1, InsideIs
<1> HIDE DEF P
<1>3. Inside(h) \subseteq P
  BY <1>1, <1>2, DownInduction
<1>4. QED
  BY <1>3 DEF P

\* Clearing what cannot be reached changes no path.
LEMMA TidyKeeps ==
  ASSUME NEW h, IsTree(h), NEW at, IsDir(h, at)
  PROVE  LET t == Tidy(h, at)
         IN  /\ Inside(t) = Inside(h) /\ TreeOf(t) = TreeOf(h)
             /\ \A n \in Inside(h) : PathOf(t, n) = PathOf(h, n)
<1> DEFINE t == Tidy(h, at)
           L == Live(h, at)
           I == Inside(h)
<1>1. /\ IsTree(t)
      /\ \A n \in L : /\ t[n].type = h[n].type /\ t[n].name = h[n].name
                      /\ t[n].parentPtr = h[n].parentPtr /\ Children(t, n) = Children(h, n)
  BY TidyIsTree
<1>2. root \in L /\ L \in SUBSET Nodes /\ HasKids(h, L)
  BY LiveIsClosed DEF HasKids, IsDir
<1> HIDE DEF t, L
<1>3. I \subseteq L
  BY <1>2 DEF Inside
<1>4. /\ root \in I /\ I \in SUBSET Nodes /\ HasKids(h, I)
      /\ \A n \in I \ {root} : h[n].parentPtr \in I /\ n \in ToSet(Children(h, h[n].parentPtr))
  BY InsideIs
<1> HIDE DEF I
<1>5. HasKids(t, I)
  BY <1>1, <1>3, <1>4 DEF HasKids
<1>6. \A n \in I \ {root} : t[n].parentPtr \in I /\ n \in ToSet(Children(t, t[n].parentPtr))
  BY <1>1, <1>3, <1>4
<1>7. I = Inside(t)
  BY <1>1, <1>4, <1>5, <1>6, InsideIsOne
<1>8. \A n \in I : PathOf(t, n) = PathOf(h, n)
  BY <1>1, <1>3, <1>7, PathsStay DEF I
<1>9. TreeOf(t) = TreeOf(h)
  <2>1. \A n \in I \ {root} : Line(t, n) = Line(h, n)
    BY <1>1, <1>3, <1>8 DEF Line
  <2>2. QED
    BY <1>7, <2>1 DEF TreeOf, I
<1>10. QED
  BY <1>7, <1>8, <1>9 DEF I, t

\* A new child of a node of the tree is one more path; any other is none.
LEMMA AddedKeeps ==
  ASSUME NEW h, IsTree(h), NEW g, IsTree(g), NEW p, IsDir(h, p), NEW name \in Names, NEW type,
         NEW new, Added(h, g, p, name, type, new)
  PROVE  /\ new \notin Inside(h)
         /\ Inside(g) = IF p \in Inside(h) THEN Inside(h) \cup {new} ELSE Inside(h)
         /\ TreeOf(g) = IF p \in Inside(h)
                        THEN TreeOf(h) \cup {<<type, Append(PathOf(h, p), name)>>} ELSE TreeOf(h)
         /\ \A n \in Inside(h) : PathOf(g, n) = PathOf(h, n)
<1> DEFINE I == Inside(h)
           J == IF p \in I THEN I \cup {new} ELSE I
           s == Children(h, p)
<1>1. /\ root \in I /\ I \in SUBSET Nodes /\ HasKids(h, I)
      /\ \A n \in I : h[n] # Blank
      /\ \A n \in I \ {root} : h[n].parentPtr \in I /\ n \in ToSet(Children(h, h[n].parentPtr))
  BY InsideIs
<1>2. /\ new \in Nodes \ {root, p} /\ h[new] = Blank /\ p \in Nodes
      /\ g[new].type = type /\ g[new].name = name /\ g[new].parentPtr = p
      /\ \A n \in Nodes \ {new} : /\ g[n].type = h[n].type /\ g[n].name = h[n].name
                                  /\ g[n].parentPtr = h[n].parentPtr
      /\ \A q \in Nodes : Children(g, q) = IF q = new THEN <<>>
                                          ELSE IF q = p THEN Append(s, new) ELSE Children(h, q)
  BY DEF Added, SameBut, IsDir
<1>3. s \in Seq(Nodes)
  BY <1>2, KidsAre DEF Kids
<1> HIDE DEF I, s
<1>4. new \notin I
  BY <1>1, <1>2
<1>5. ToSet(Append(s, new)) = ToSet(s) \cup {new} /\ ToSet(<<>>) = {}
  <2>1. /\ Append(s, new) \in Seq(Nodes) /\ Len(Append(s, new)) = Len(s) + 1 /\ Len(s) \in Nat
        /\ \A i \in 1 .. Len(s) : Append(s, new)[i] = s[i]
        /\ Append(s, new)[Len(s) + 1] = new
    BY <1>2, <1>3
  <2>2. /\ ToSet(s) = {s[i] : i \in 1 .. Len(s)}
        /\ ToSet(Append(s, new)) = {Append(s, new)[i] : i \in 1 .. Len(s) + 1}
    BY <1>3, <2>1 DEF ToSet
  <2>3. 1 .. Len(s) + 1 = (1 .. Len(s)) \cup {Len(s) + 1}
    BY <2>1
  <2> DEFINE t == Append(s, new)
  <2> HIDE DEF t
  <2>4. ToSet(t) = ToSet(s) \cup {new}
    <3>1. \A i \in 1 .. Len(s) : t[i] = s[i]
      BY <2>1 DEF t
    <3>2. t[Len(s) + 1] = new /\ ToSet(t) = {t[i] : i \in 1 .. Len(s) + 1}
      BY <2>1, <2>2 DEF t
    <3>3. QED
      BY <2>2, <2>3, <3>1, <3>2
  <2>5. ToSet(<<>>) = {}
    BY DEF ToSet
  <2>6. QED
    BY <2>4, <2>5 DEF t
<1>6. ToSet(Children(h, p)) = ToSet(s)
  BY DEF s
<1>7. HasKids(g, J)
  <2>1. SUFFICES ASSUME NEW m \in J PROVE ToSet(Children(g, m)) \subseteq J
    BY DEF HasKids
  <2>2. CASE m = new
    BY <1>2, <1>5, <2>2
  <2>3. CASE m = p
    BY <1>1, <1>2, <1>4, <1>5, <1>6, <2>1, <2>3 DEF HasKids
  <2>4. CASE m \notin {new, p}
    BY <1>1, <1>2, <2>1, <2>4 DEF HasKids
  <2>5. QED
    BY <2>2, <2>3, <2>4
<1>8. ASSUME NEW n \in J \ {root}
      PROVE  g[n].parentPtr \in J /\ n \in ToSet(Children(g, g[n].parentPtr))
  <2>1. CASE n = new
    BY <1>2, <1>4, <1>5, <2>1
  <2>2. CASE n # new
    <3> DEFINE q == h[n].parentPtr
    <3>1. n \in I \ {root} /\ q \in I /\ n \in ToSet(Children(h, q)) /\ g[n].parentPtr = q
      BY <1>1, <1>2, <2>2
    <3> HIDE DEF q
    <3>2. q \in Nodes /\ q # new
      BY <1>1, <1>4, <3>1
    <3>3. n \in ToSet(Children(g, q))
      BY <1>2, <1>5, <1>6, <3>1, <3>2
    <3>4. QED
      BY <3>1, <3>3
  <2>3. QED
    BY <2>1, <2>2
<1>9. J = Inside(g)
  <2>1. J \in SUBSET Nodes /\ root \in J
    BY <1>1, <1>2
  <2> HIDE DEF J
  <2>2. QED
    BY <1>7, <1>8, <2>1, InsideIsOne
<1>10. \A n \in I : PathOf(g, n) = PathOf(h, n)
  <2>1. Inside(h) \subseteq Inside(g)
    BY <1>9 DEF I
  <2>2. \A n \in Inside(h) \ {root} : g[n].name = h[n].name /\ g[n].parentPtr = h[n].parentPtr
    BY <1>1, <1>2, <1>4 DEF I
  <2>3. QED
    BY <2>1, <2>2, PathsStay DEF I
<1>11. \A n \in I : Line(g, n) = Line(h, n)
  BY <1>1, <1>2, <1>4, <1>10 DEF Line
<1>12. p \in I => Line(g, new) = <<type, Append(PathOf(h, p), name)>>
  <2>1. SUFFICES ASSUME p \in I PROVE PathOf(g, new) = Append(PathOf(h, p), name)
    BY <1>2 DEF Line
  <2>2. new \in Inside(g) \ {root}
    BY <1>2, <1>9, <2>1
  <2>3. PathOf(g, new) = Append(PathOf(g, g[new].parentPtr), g[new].name)
    BY <2>2, PathOfIs
  <2>4. QED
    BY <1>2, <1>10, <2>1, <2>3
<1>13. TreeOf(g) = IF p \in I THEN TreeOf(h) \cup {<<type, Append(PathOf(h, p), name)>>}
                   ELSE TreeOf(h)
  <2>1. TreeOf(g) = {Line(g, n) : n \in J \ {root}} /\ TreeOf(h) = {Line(h, n) : n \in I \ {root}}
    BY <1>9 DEF TreeOf, I
  <2> DEFINE e == <<type, Append(PathOf(h, p), name)>>
  <2>2. CASE p \in I
    <3>1. Line(g, new) = e /\ J \ {root} = (I \ {root}) \cup {new}
      BY <1>2, <1>12, <2>2
    <3> HIDE DEF e, J
    <3>2. TreeOf(g) = {Line(g, n) : n \in I \ {root}} \cup {e}
      BY <2>1, <3>1
    <3>3. TreeOf(g) = TreeOf(h) \cup {e}
      BY <1>11, <2>1, <3>2
    <3>4. QED
      BY <2>2, <3>3 DEF e
  <2>3. CASE p \notin I
    BY <1>11, <2>1, <2>3
  <2>4. QED
    BY <2>2, <2>3
<1>14. QED
  BY <1>4, <1>9, <1>10, <1>13 DEF I

\* A childless node that is taken out of the tree is one path less.
LEMMA RemovedKeeps ==
  ASSUME NEW h, IsTree(h), NEW g, IsTree(g), NEW p \in Nodes, NEW i \in 1 .. Len(Children(h, p)),
         Removed(h, g, p, i), NEW n, n = Children(h, p)[i], Children(h, n) = <<>>
  PROVE  /\ n \in Inside(h) <=> p \in Inside(h)
         /\ Inside(g) = Inside(h) \ {n}
         /\ TreeOf(g) = IF p \in Inside(h) THEN TreeOf(h) \ {Line(h, n)} ELSE TreeOf(h)
         /\ \A m \in Inside(g) : PathOf(g, m) = PathOf(h, m)
<1> DEFINE I == Inside(h)
           J == I \ {n}
           s == Children(h, p)
<1>1. /\ root \in I /\ I \in SUBSET Nodes /\ HasKids(h, I)
      /\ \A m \in I \ {root} : h[m].parentPtr \in I /\ m \in ToSet(Children(h, h[m].parentPtr))
  BY InsideIs
<1>2. /\ \A m \in Nodes : /\ g[m].type = h[m].type /\ g[m].name = h[m].name
                         /\ g[m].parentPtr = h[m].parentPtr
      /\ \A q \in Nodes : Children(g, q) = IF q = p THEN Without(s, i) ELSE Children(h, q)
  BY BoundFacts DEF Removed, SameBut
<1>3. Kids(h, p, s)
  BY KidsAre
<1>4. n = s[i] /\ i \in 1 .. Len(s) /\ n \in Nodes \ {root} /\ h[n].parentPtr = p
  BY <1>3, AKid
<1>5. ToSet(Children(h, p)) = ToSet(s)
  BY DEF s
<1> HIDE DEF I, s
<1>6. /\ s \in Seq(Nodes) /\ Len(s) \in Nat /\ \A j, k \in 1 .. Len(s) : s[j] = s[k] => j = k
  BY <1>3 DEF Kids
<1>7. ToSet(Without(s, i)) = ToSet(s) \ {n}
  <2> DEFINE t == Without(s, i)
  <2>1. /\ t \in Seq(Nodes) /\ Len(t) = Len(s) - 1
        /\ \A j \in 1 .. Len(s) - 1 : t[j] = IF j < i THEN s[j] ELSE s[j + 1]
    BY <1>4, <1>6, AtWithout
  <2> HIDE DEF t
  <2>2. ToSet(t) = {t[j] : j \in 1 .. Len(s) - 1} /\ ToSet(s) = {s[j] : j \in 1 .. Len(s)}
    BY <1>6, <2>1, SMTT(40) DEF ToSet
  <2>3. ASSUME NEW j \in 1 .. Len(s) - 1
        PROVE  t[j] \in ToSet(s) \ {n}
    <3> DEFINE k == IF j < i THEN j ELSE j + 1
    <3>1. k \in 1 .. Len(s) /\ k # i /\ t[j] = s[k]
      BY <1>4, <1>6, <2>1
    <3> HIDE DEF k
    <3>2. QED
      BY <1>4, <1>6, <2>2, <3>1
  <2>4. ASSUME NEW k \in 1 .. Len(s), s[k] # n
        PROVE  s[k] \in ToSet(t)
    <3> DEFINE j == IF k < i THEN k ELSE k - 1
    <3>1. k # i
      BY <1>4, <2>4
    <3>2. j \in 1 .. Len(s) - 1 /\ t[j] = s[k]
      <4>1. CASE k < i
        BY <1>4, <1>6, <2>1, <4>1
      <4>2. CASE ~(k < i)
        <5>1. k - 1 \in 1 .. Len(s) - 1 /\ ~(k - 1 < i) /\ (k - 1) + 1 = k
          BY <1>4, <1>6, <3>1, <4>2
        <5>2. QED
          BY <2>1, <4>2, <5>1
      <4>3. QED
        BY <4>1, <4>2
    <3> HIDE DEF j
    <3>3. QED
      BY <2>2, <3>2
  <2>5. QED
    BY <2>2, <2>3, <2>4 DEF t
<1>8. n \in I <=> p \in I
  <2>1. n \in ToSet(s)
    BY <1>4, <1>6 DEF ToSet
  <2>2. QED
    BY <1>1, <1>4, <1>5, <2>1 DEF HasKids
<1>9. HasKids(g, J)
  <2>1. SUFFICES ASSUME NEW m \in J PROVE ToSet(Children(g, m)) \subseteq J
    BY DEF HasKids
  <2>2. CASE m = p
    BY <1>1, <1>2, <1>5, <1>7, <2>1, <2>2 DEF HasKids
  <2>3. CASE m # p
    <3>1. m \in Nodes /\ ToSet(Children(h, m)) \subseteq I /\ Children(g, m) = Children(h, m)
      BY <1>1, <1>2, <2>1, <2>3 DEF HasKids
    <3>2. n \notin ToSet(Children(h, m))
      <4>1. Kids(h, m, Children(h, m))
        BY <3>1, KidsAre
      <4>2. \A k \in 1 .. Len(Children(h, m)) : h[Children(h, m)[k]].parentPtr = m
        BY <4>1 DEF Kids
      <4>3. Children(h, m) \in Seq(Nodes)
        BY <4>1 DEF Kids
      <4>4. QED
        BY <1>4, <2>3, <4>2, <4>3 DEF ToSet
    <3>3. QED
      BY <3>1, <3>2
  <2>4. QED
    BY <2>2, <2>3
<1>10. ASSUME NEW m \in J \ {root}
       PROVE  g[m].parentPtr \in J /\ m \in ToSet(Children(g, g[m].parentPtr))
  <2> DEFINE q == h[m].parentPtr
  <2>1. q \in I /\ q \in Nodes /\ m \in ToSet(Children(h, q)) /\ g[m].parentPtr = q /\ m # n
    BY <1>1, <1>2
  <2>2. q # n
    BY <2>1 DEF ToSet
  <2> HIDE DEF q
  <2>3. m \in ToSet(Children(g, q))
    BY <1>2, <1>5, <1>7, <2>1
  <2>4. QED
    BY <2>1, <2>2, <2>3
<1>11. J = Inside(g)
  <2>1. J \in SUBSET Nodes /\ root \in J
    BY <1>1, <1>4
  <2> HIDE DEF J
  <2>2. QED
    BY <1>9, <1>10, <2>1, InsideIsOne
<1>12. \A m \in J : PathOf(g, m) = PathOf(h, m)
  <2>1. Inside(g) \subseteq Inside(h)
    BY <1>11 DEF I
  <2>2. \A m \in Inside(g) \ {root} : h[m].name = g[m].name /\ h[m].parentPtr = g[m].parentPtr
    BY <1>1, <1>2, <1>11 DEF I
  <2>3. \A m \in Inside(g) : PathOf(h, m) = PathOf(g, m)
    BY <2>1, <2>2, PathsStay
  <2>4. QED
    BY <1>11, <2>3
<1>13. TreeOf(g) = IF p \in I THEN TreeOf(h) \ {Line(h, n)} ELSE TreeOf(h)
  <2>1. TreeOf(g) = {Line(g, m) : m \in J \ {root}} /\ TreeOf(h) = {Line(h, m) : m \in I \ {root}}
    BY <1>11 DEF TreeOf, I
  <2>2. \A m \in J : Line(g, m) = Line(h, m)
    BY <1>1, <1>2, <1>12 DEF Line
  <2>3. ASSUME p \in I, NEW m \in J
        PROVE  Line(h, m) # Line(h, n)
    BY <1>8, <2>3, PathsAreUnique DEF I, Line
  <2>4. CASE p \in I
    <3>1. \A m \in J : Line(h, m) # Line(h, n)
      BY <2>3, <2>4
    <3>2. QED
      BY <1>4, <1>8, <2>1, <2>2, <2>4, <3>1
  <2>5. CASE p \notin I
    BY <1>8, <2>1, <2>2, <2>5
  <2>6. QED
    BY <2>4, <2>5
<1>14. QED
  BY <1>8, <1>11, <1>12, <1>13 DEF I

-----------------------------------------------------------------------------
(* What save writes.                                                       *)

\* Each line is right below top, or its directory's line is before it.
Ordered(ls, top) ==
  \A i \in 1 .. Len(ls) :
    Front(ls[i][2]) = top \/ \E j \in 1 .. i - 1 : ls[j] = <<"D", Front(ls[i][2])>>

\* A line, those below it and those after it, in that order.
LEMMA PreorderIsOrdered ==
  ASSUME NEW line \in Lines, NEW below \in Seq(Lines), NEW after \in Seq(Lines),
         NEW top, Front(line[2]) = top, Ordered(after, top),
         Ordered(below, line[2]), below # <<>> => line[1] = "D"
  PROVE  LET ls == InPreorder(line, below, after)
         IN  /\ ls \in Seq(Lines) /\ Ordered(ls, top)
             /\ ToSet(ls) = {line} \cup ToSet(below) \cup ToSet(after)
<1> DEFINE ls == InPreorder(line, below, after)
           B == Len(below)
           A == Len(after)
<1>1. B \in Nat /\ A \in Nat /\ DOMAIN below = 1 .. B /\ DOMAIN after = 1 .. A
  BY LenProperties
<1>2. line = <<line[1], line[2]>>
  BY DEF Lines
<1> HIDE DEF Lines
<1>3. /\ ls \in Seq(Lines) /\ Len(ls) = 1 + B + A /\ ls[1] = line
      /\ \A i \in 1 .. B : ls[1 + i] = below[i]
      /\ \A i \in 1 .. A : ls[1 + B + i] = after[i]
  <2> DEFINE m == <<line>> \o below
  <2>0. <<line>> \in Seq(Lines) /\ Len(<<line>>) = 1 /\ <<line>>[1] = line
    OBVIOUS
  <2>1. /\ m \in Seq(Lines) /\ Len(m) = 1 + B
        /\ \A i \in 1 .. 1 + B : m[i] = IF i <= 1 THEN <<line>>[i] ELSE below[i - 1]
    BY <2>0, ConcatProperties
  <2>2. m[1] = line /\ \A i \in 1 .. B : m[1 + i] = below[i]
    BY <1>1, <2>0, <2>1
  <2>3. ls = m \o after
    BY DEF InPreorder
  <2> HIDE DEF m, ls
  <2>4. /\ m \o after \in Seq(Lines) /\ Len(m \o after) = 1 + B + A
        /\ \A i \in 1 .. 1 + B + A :
             (m \o after)[i] = IF i <= 1 + B THEN m[i] ELSE after[i - (1 + B)]
    <3>1. /\ m \o after \in Seq(Lines) /\ Len(m \o after) = Len(m) + A
          /\ \A i \in 1 .. Len(m) + A :
               (m \o after)[i] = IF i <= Len(m) THEN m[i] ELSE after[i - Len(m)]
      BY <2>1, ConcatProperties
    <3>2. Len(m) = 1 + B
      BY <2>1
    <3> HIDE DEF A, B
    <3>3. QED
      BY <3>1, <3>2
  <2>5. \A i \in 1 .. A : /\ 1 + B + i \in 1 .. 1 + B + A /\ ~(1 + B + i <= 1 + B)
                          /\ (1 + B + i) - (1 + B) = i
    BY <1>1
  <2>6. \A i \in 1 .. B : 1 + i \in 1 .. 1 + B + A /\ 1 + i <= 1 + B
    BY <1>1
  <2>7. 1 \in 1 .. 1 + B + A /\ 1 <= 1 + B
    BY <1>1
  <2>8. QED
    BY <2>2, <2>3, <2>4, <2>5, <2>6, <2>7
<1> HIDE DEF ls, A, B
<1>4. \A i \in 1 .. Len(ls) : \/ i = 1
                              \/ \E k \in 1 .. B : i = 1 + k
                              \/ \E k \in 1 .. A : i = 1 + B + k
  <2>1. SUFFICES ASSUME NEW i \in 1 .. 1 + B + A
                 PROVE  i = 1 \/ i - 1 \in 1 .. B \/ i - 1 - B \in 1 .. A
    BY <1>1, <1>3
  <2>2. QED
    BY <1>1
<1>5. ToSet(ls) = {line} \cup ToSet(below) \cup ToSet(after)
  <2>1. /\ ToSet(ls) = {ls[i] : i \in 1 .. Len(ls)} /\ ToSet(below) = {below[i] : i \in 1 .. B}
        /\ ToSet(after) = {after[i] : i \in 1 .. A}
    BY <1>1, <1>3, LenProperties DEF ToSet
  <2>2. /\ 1 \in 1 .. Len(ls) /\ \A k \in 1 .. B : 1 + k \in 1 .. Len(ls)
        /\ \A k \in 1 .. A : 1 + B + k \in 1 .. Len(ls)
    BY <1>1, <1>3
  <2>3. ToSet(ls) \subseteq {line} \cup ToSet(below) \cup ToSet(after)
    <3>1. SUFFICES ASSUME NEW i \in 1 .. Len(ls)
                   PROVE  ls[i] \in {line} \cup ToSet(below) \cup ToSet(after)
      BY <2>1
    <3>2. CASE i = 1
      BY <1>3, <3>2
    <3>3. ASSUME NEW k \in 1 .. B, i = 1 + k
          PROVE  ls[i] \in ToSet(below)
      <4>1. ls[i] = below[k]
        BY <1>3, <3>3
      <4>2. QED
        BY <2>1, <4>1
    <3>4. ASSUME NEW k \in 1 .. A, i = 1 + B + k
          PROVE  ls[i] \in ToSet(after)
      <4>1. ls[i] = after[k]
        BY <1>3, <3>4
      <4>2. QED
        BY <2>1, <4>1
    <3>5. QED
      BY <1>4, <3>2, <3>3, <3>4
  <2>4. {line} \cup ToSet(below) \cup ToSet(after) \subseteq ToSet(ls)
    BY <1>3, <2>1, <2>2
  <2>5. QED
    BY <2>3, <2>4
<1>6. Ordered(ls, top)
  <2>1. SUFFICES ASSUME NEW i \in 1 .. Len(ls)
                 PROVE  \/ Front(ls[i][2]) = top
                        \/ \E j \in 1 .. i - 1 : ls[j] = <<"D", Front(ls[i][2])>>
    BY DEF Ordered
  <2>2. CASE i = 1
    BY <1>3, <2>2
  <2>3. ASSUME NEW k \in 1 .. B, i = 1 + k
        PROVE  \E j \in 1 .. i - 1 : ls[j] = <<"D", Front(ls[i][2])>>
    <3>1. ls[i] = below[k] /\ line[1] = "D"
      <4>1. below # <<>>
        BY <1>1 DEF B
      <4>2. QED
        BY <1>3, <2>3, <4>1
    <3>2. CASE Front(below[k][2]) = line[2]
      <4>1. 1 \in 1 .. i - 1
        BY <1>1, <2>3
      <4>2. ls[1] = <<"D", Front(ls[i][2])>>
        BY <1>2, <1>3, <3>1, <3>2
      <4>3. QED
        BY <4>1, <4>2
    <3>3. CASE \E j \in 1 .. k - 1 : below[j] = <<"D", Front(below[k][2])>>
      <4>1. PICK j \in 1 .. k - 1 : below[j] = <<"D", Front(below[k][2])>>
        BY <3>3
      <4>2. 1 + j \in 1 .. i - 1 /\ j \in 1 .. B
        BY <1>1, <2>3
      <4>3. QED
        BY <1>3, <3>1, <4>1, <4>2
    <3>4. QED
      BY <3>2, <3>3 DEF Ordered, B
  <2>4. ASSUME NEW k \in 1 .. A, i = 1 + B + k
        PROVE  \/ Front(ls[i][2]) = top
               \/ \E j \in 1 .. i - 1 : ls[j] = <<"D", Front(ls[i][2])>>
    <3>1. ls[i] = after[k]
      BY <1>3, <2>4
    <3>2. CASE Front(after[k][2]) = top
      BY <3>1, <3>2
    <3>3. CASE \E j \in 1 .. k - 1 : after[j] = <<"D", Front(after[k][2])>>
      <4>1. PICK j \in 1 .. k - 1 : after[j] = <<"D", Front(after[k][2])>>
        BY <3>3
      <4>2. 1 + B + j \in 1 .. i - 1 /\ j \in 1 .. A
        BY <1>1, <2>4
      <4>3. QED
        BY <1>3, <3>1, <4>1, <4>2
    <3>4. QED
      BY <3>2, <3>3 DEF Ordered, A
  <2>5. QED
    BY <1>4, <2>2, <2>3, <2>4
<1>7. QED
  BY <1>3, <1>5, <1>6 DEF ls

\* save writes every path of the tree, and each after its directory.
LEMMA WrittenIs ==
  ASSUME NEW h, IsTree(h)
  PROVE  LET ls == preOrderWrite(h, h[root].childPtr)
         IN  ls \in Seq(Lines) /\ ToSet(ls) = TreeOf(h) /\ Ordered(ls, <<>>)
<1> DEFINE I == Inside(h)
           first == h[root].childPtr
<1>0. IsHeap(h)
  BY DEF IsTree
<1>1. PICK lines : /\ \A n : preOrderWrite(h, n) = lines[<<NNodes, n>>]
                   /\ \A k \in 0 .. NNodes, m \in Nodes \cup {NULL} :
                        lines[<<k, m>>] = IF k = 0 \/ m = NULL THEN <<>>
                                          ELSE InPreorder(Line(h, m),
                                                 lines[<<k - 1, h[m].childPtr>>],
                                                 lines[<<k - 1, h[m].siblingPtr>>])
  BY <1>0, LinesValues
<1>2. PICK r : \A n \in I :
           /\ r[n] \in 1 .. NNodes
           /\ \/ h[n].childPtr = NULL
              \/ /\ h[n].childPtr \in I \ {root} /\ r[h[n].childPtr] = r[n] + 1
                 /\ h[h[n].childPtr].parentPtr = n
           /\ n # root => \/ h[n].siblingPtr = NULL
                          \/ /\ h[n].siblingPtr \in I \ {root}
                             /\ r[h[n].siblingPtr] = r[n] + 1
                             /\ h[h[n].siblingPtr].parentPtr = h[n].parentPtr
  BY VisitsAreRanked
<1>3. /\ root \in I /\ I \subseteq Nodes /\ NULL \notin I
      /\ \A n \in I : h[n].type \in {"D", "F"}
      /\ \A n \in I \ {root} : IsDir(h, h[n].parentPtr)
  BY InsideIs, BoundFacts
<1>4. \A n \in I \ {root} : /\ Line(h, n) \in Lines /\ Line(h, n)[1] = h[n].type
                             /\ Line(h, n)[2] = PathOf(h, n)
                             /\ Front(Line(h, n)[2]) = PathOf(h, h[n].parentPtr)
  BY <1>3, PathFacts DEF Line, Lines, Types
<1>5. PathOf(h, root) = <<>>
  BY PathFacts
<1> HIDE DEF I, Lines
<1> DEFINE Good(n, ls, top) ==
             /\ ls \in Seq(Lines) /\ Ordered(ls, top)
             /\ \E W : /\ W \subseteq I \ {root} /\ Visits(h, W) /\ (n # NULL => n \in W)
                      /\ ToSet(ls) = {Line(h, m) : m \in W}
           T == {k \in 0 .. NNodes : \A n \in I \ {root} :
                   k + r[n] >= NNodes + 1 => Good(n, lines[<<k, n>>], PathOf(h, h[n].parentPtr))}
<1>6. 0 \in T
  BY <1>2, BoundFacts
<1>7. \A k \in 0 .. NNodes : \A top : lines[<<k, NULL>>] = <<>> /\ Good(NULL, <<>>, top)
  <2>1. \A k \in 0 .. NNodes : lines[<<k, NULL>>] = <<>>
    BY <1>1
  <2>2. \A top : Ordered(<<>>, top)
    BY DEF Ordered
  <2>3. <<>> \in Seq(Lines) /\ ToSet(<<>>) = {Line(h, m) : m \in {}} /\ Visits(h, {})
    BY DEF ToSet, Visits
  <2>4. {} \subseteq I \ {root}
    OBVIOUS
  <2>5. QED
    BY <2>1, <2>2, <2>3, <2>4
<1>8. ASSUME NEW k \in 1 .. NNodes, k - 1 \in T
      PROVE  k \in T
  <2>1. k \in 0 .. NNodes /\ k # 0 /\ k - 1 \in 0 .. NNodes
    BY BoundFacts
  <2>2. SUFFICES ASSUME NEW n \in I \ {root}, k + r[n] >= NNodes + 1
                 PROVE  Good(n, lines[<<k, n>>], PathOf(h, h[n].parentPtr))
    BY <2>1
  <2> DEFINE c == h[n].childPtr
             b == h[n].siblingPtr
             C == lines[<<k - 1, c>>]
             B == lines[<<k - 1, b>>]
             top == PathOf(h, h[n].parentPtr)
  <2>3. ASSUME NEW m, NEW q, m = NULL \/ (m \in I \ {root} /\ r[m] = r[n] + 1 /\ h[m].parentPtr = q)
        PROVE  /\ Good(m, lines[<<k - 1, m>>], PathOf(h, q))
               /\ m = NULL => lines[<<k - 1, m>>] = <<>>
    <3>1. CASE m = NULL
      <4> HIDE DEF Good
      <4>1. QED
        BY <1>7, <2>1, <3>1
    <3>2. CASE m # NULL
      <4>1. (k - 1) + r[m] >= NNodes + 1 /\ m \in I \ {root} /\ h[m].parentPtr = q
        BY <1>2, <2>1, <2>2, <2>3, <3>2, BoundFacts
      <4> HIDE DEF Good
      <4>2. QED
        BY <1>8, <3>2, <4>1
    <3>3. QED
      BY <3>1, <3>2
  <2>4. Good(c, C, PathOf(h, n)) /\ (C # <<>> => h[n].type = "D")
    <3>1. c = NULL \/ (c \in I \ {root} /\ r[c] = r[n] + 1 /\ h[c].parentPtr = n)
      BY <1>2
    <3>2. c = NULL \/ h[n].type = "D"
      BY <1>3, <3>1 DEF IsDir
    <3> HIDE DEF Good, c
    <3>3. QED
      BY <2>3, <3>1, <3>2
  <2>5. Good(b, B, top)
    <3>1. b = NULL \/ (b \in I \ {root} /\ r[b] = r[n] + 1 /\ h[b].parentPtr = h[n].parentPtr)
      BY <1>2
    <3> HIDE DEF Good, b
    <3>2. QED
      BY <2>3, <3>1
  <2>6. lines[<<k, n>>] = InPreorder(Line(h, n), C, B)
    <3>1. n \in Nodes \cup {NULL} /\ n # NULL
      BY <1>3
    <3>2. QED
      BY <1>1, <2>1, <3>1
  <2> DEFINE ls == InPreorder(Line(h, n), C, B)
  <2> HIDE DEF C, B
  <2>7. /\ ls \in Seq(Lines) /\ Ordered(ls, top)
        /\ ToSet(ls) = {Line(h, n)} \cup ToSet(C) \cup ToSet(B)
    <3>1. /\ Line(h, n) \in Lines /\ C \in Seq(Lines) /\ B \in Seq(Lines)
          /\ Front(Line(h, n)[2]) = top /\ Ordered(B, top) /\ Ordered(C, Line(h, n)[2])
          /\ C # <<>> => Line(h, n)[1] = "D"
      BY <1>4, <2>4, <2>5
    <3> HIDE DEF top
    <3>2. QED
      BY <3>1, PreorderIsOrdered
  <2> HIDE DEF ls, top
  <2>8. PICK WC : /\ WC \subseteq I \ {root} /\ Visits(h, WC) /\ (c # NULL => c \in WC)
                  /\ ToSet(C) = {Line(h, m) : m \in WC}
    BY <2>4
  <2>9. PICK WB : /\ WB \subseteq I \ {root} /\ Visits(h, WB) /\ (b # NULL => b \in WB)
                  /\ ToSet(B) = {Line(h, m) : m \in WB}
    BY <2>5
  <2> DEFINE W == {n} \cup WC \cup WB
  <2>10. W \subseteq I \ {root} /\ Visits(h, W) /\ n \in W
    BY <2>8, <2>9 DEF Visits
  <2>11. ToSet(ls) = {Line(h, m) : m \in W}
    BY <2>7, <2>8, <2>9
  <2> HIDE DEF W
  <2>12. Good(n, ls, top)
    BY <2>7, <2>10, <2>11
  <2> HIDE DEF Good
  <2>13. QED
    BY <2>6, <2>12 DEF ls, top
<1> HIDE DEF T
<1>9. NNodes \in T
  BY <1>6, <1>8, LoopInduction, BoundFacts
<1> DEFINE ls == lines[<<NNodes, first>>]
<1>10. Good(first, ls, <<>>)
  <2>1. NNodes \in 0 .. NNodes
    BY BoundFacts
  <2>2. CASE first = NULL
    <3> HIDE DEF Good, first
    <3>1. QED
      BY <1>7, <2>1, <2>2
  <2>3. CASE first # NULL
    <3>1. first \in I \ {root} /\ NNodes + r[first] >= NNodes + 1 /\ h[first].parentPtr = root
      BY <1>2, <1>3, <2>3, BoundFacts
    <3> HIDE DEF Good, first
    <3>2. Good(first, ls, PathOf(h, h[first].parentPtr))
      BY <1>9, <3>1 DEF T
    <3>3. QED
      BY <1>5, <3>1, <3>2
  <2>4. QED
    BY <2>2, <2>3
<1>11. preOrderWrite(h, first) = ls
  BY <1>1
<1> HIDE DEF ls
<1>12. PICK W : /\ W \subseteq I \ {root} /\ Visits(h, W) /\ (first # NULL => first \in W)
                /\ ToSet(ls) = {Line(h, m) : m \in W}
  BY <1>10
<1>13. I \ {root} \subseteq W
  <2>1. h[root].childPtr \in W \cup {NULL}
    BY <1>12
  <2>2. QED
    BY <1>12, <2>1, AllAreVisited DEF I
<1>14. ToSet(ls) = TreeOf(h)
  <2>1. W = I \ {root}
    BY <1>12, <1>13
  <2>2. QED
    BY <1>12, <2>1 DEF TreeOf, I
<1>15. QED
  BY <1>10, <1>11, <1>14

-----------------------------------------------------------------------------
(* What the lines of the file are.                                         *)

\* Only creat makes a node without a name, and only in the root.
NamesOK(h) ==
  \A n \in Nodes : h[n] # Blank /\ h[n].name = "" => h[n].type = "F" /\ h[n].parentPtr = root

IsEntry(e) ==
  /\ e \in Lines /\ e[1] \in {"D", "F"} /\ e[2] # <<>>
  /\ Last(e[2]) = "" => e[1] = "F" /\ e[2] = <<"">>

FileOK(ls) ==
  /\ ls \in Seq(Lines) /\ Ordered(ls, <<>>)
  /\ \A i \in 1 .. Len(ls) : IsEntry(ls[i])
  /\ \A i, j \in 1 .. Len(ls) : ls[i][2] = ls[j][2] => ls[i] = ls[j]

LEMMA EntryIs ==
  ASSUME NEW e \in Lines
  PROVE  e[1] \in Types /\ e[2] \in Seq(Names) /\ e = <<e[1], e[2]>>
BY DEF Lines

\* The lines of a tree are entries, and no path is in two of them.
LEMMA EntriesAreOK ==
  ASSUME NEW h, IsTree(h), NamesOK(h)
  PROVE  /\ \A e \in TreeOf(h) : IsEntry(e)
         /\ \A e, f \in TreeOf(h) : e[2] = f[2] => e = f
<1>1. ASSUME NEW n \in Inside(h) \ {root}
      PROVE  IsEntry(Line(h, n)) /\ Line(h, n)[2] = PathOf(h, n)
  <2> DEFINE path == PathOf(h, n)
             p == h[n].parentPtr
  <2>1. /\ n \in Nodes /\ h[n] # Blank /\ h[n].type \in {"D", "F"} /\ h[n].name \in Names
        /\ path \in Seq(Names) /\ path # <<>> /\ Last(path) = h[n].name
    BY InsideIs, PathFacts
  <2>2. path = Append(PathOf(h, p), h[n].name)
    BY PathOfIs
  <2>6. Line(h, n) \in Lines /\ Line(h, n)[1] \in {"D", "F"} /\ Line(h, n)[2] = path
    BY <2>1 DEF Line, Lines, Types
  <2>3. CASE h[n].name # ""
    <3> DEFINE e == Line(h, n)
    <3>1. e[2] # <<>> /\ Last(e[2]) # ""
      BY <2>1, <2>3, <2>6
    <3>2. e \in Lines /\ e[1] \in {"D", "F"}
      BY <2>6
    <3> HIDE DEF e, Lines
    <3>3. IsEntry(e)
      BY <3>1, <3>2 DEF IsEntry
    <3>4. QED
      BY <2>6, <3>3 DEF e
  <2>4. CASE h[n].name = ""
    <3>1. h[n].type = "F" /\ p = root
      BY <2>1, <2>4 DEF NamesOK
    <3>2. path = <<"">>
      <4>1. Append(<<>>, "") = <<"">>
        OBVIOUS
      <4>2. PathOf(h, p) = <<>>
        BY <3>1, PathOfIs
      <4>3. QED
        BY <2>2, <2>4, <4>1, <4>2
    <3>3. Line(h, n)[1] = "F" /\ Line(h, n)[2] = <<"">>
      BY <3>1, <3>2 DEF Line
    <3>4. QED
      BY <2>1, <2>6, <3>3 DEF IsEntry
  <2>5. QED
    BY <2>3, <2>4 DEF Line
<1>2. ASSUME NEW n \in Inside(h) \ {root}, NEW m \in Inside(h) \ {root},
             Line(h, n)[2] = Line(h, m)[2]
      PROVE  Line(h, n) = Line(h, m)
  <2>1. n = m
    BY <1>1, <1>2, PathsAreUnique
  <2>2. QED
    BY <2>1
<1>3. QED
  BY <1>1, <1>2 DEF TreeOf

\* Such lines are part of a tree, in the sense of PathTree.
LEMMA OrderedIsPart ==
  ASSUME NEW ls \in Seq(Lines), Ordered(ls, <<>>), NEW t, ToSet(ls) \subseteq t
  PROVE  PT!IsPart(ToSet(ls), t)
<1>1. ToSet(ls) = {ls[i] : i \in 1 .. Len(ls)} /\ Len(ls) \in Nat
  BY LenProperties DEF ToSet
<1>2. ASSUME NEW i \in 1 .. Len(ls)
      PROVE  PT!IsDir(ToSet(ls), Front(ls[i][2]))
  <2>1. CASE Front(ls[i][2]) = <<>>
    BY <2>1 DEF PT!IsDir
  <2>2. CASE Front(ls[i][2]) # <<>>
    <3>1. PICK j \in 1 .. i - 1 : ls[j] = <<"D", Front(ls[i][2])>>
      BY <2>2 DEF Ordered
    <3>2. j \in 1 .. Len(ls)
      BY <1>1
    <3>3. QED
      BY <1>1, <3>1, <3>2 DEF PT!IsDir
  <2>3. QED
    BY <2>1, <2>2
<1>3. \A s : PT!Front(s) = Front(s)
  BY DEF PT!Front, Front
<1>4. QED
  BY <1>1, <1>2, <1>3 DEF PT!IsPart

\* So are the first of them, when save is killed.
LEMMA PrefixIsOK ==
  ASSUME NEW ls, FileOK(ls), NEW k \in 0 .. Len(ls)
  PROVE  FileOK(SubSeq(ls, 1, k)) /\ ToSet(SubSeq(ls, 1, k)) \subseteq ToSet(ls)
<1> DEFINE t == SubSeq(ls, 1, k)
<1>1. ls \in Seq(Lines) /\ Len(ls) \in Nat /\ DOMAIN ls = 1 .. Len(ls)
  BY LenProperties DEF FileOK
<1> HIDE DEF Lines
<1>2. t \in Seq(Lines) /\ Len(t) = k /\ \A i \in 1 .. k : t[i] = ls[i] /\ i \in 1 .. Len(ls)
  <2>1. 1 \in Int /\ k \in Int /\ \A i \in 1 .. k : ls[i] \in Lines
    BY <1>1, ElementOfSeq
  <2>2. /\ t \in Seq(Lines) /\ Len(t) = IF 1 <= k THEN k - 1 + 1 ELSE 0
        /\ \A i \in 1 .. k - 1 + 1 : t[i] = ls[1 + i - 1]
    BY <2>1, SubSeqProperties
  <2> HIDE DEF t
  <2>3. QED
    BY <1>1, <2>2
<1> HIDE DEF t
<1>3. Ordered(t, <<>>)
  <2>1. SUFFICES ASSUME NEW i \in 1 .. Len(t), Front(t[i][2]) # <<>>
                 PROVE  \E j \in 1 .. i - 1 : t[j] = <<"D", Front(t[i][2])>>
    BY DEF Ordered
  <2>2. PICK j \in 1 .. i - 1 : ls[j] = <<"D", Front(ls[i][2])>>
    BY <1>2, <2>1 DEF FileOK, Ordered
  <2>3. j \in 1 .. k
    BY <1>2
  <2>4. QED
    BY <1>2, <2>2, <2>3
<1>4. ToSet(t) \subseteq ToSet(ls)
  <2>1. ToSet(t) = {t[i] : i \in 1 .. k} /\ ToSet(ls) = {ls[i] : i \in 1 .. Len(ls)}
    BY <1>1, <1>2, LenProperties DEF ToSet
  <2>2. QED
    BY <1>2, <2>1
<1>5. FileOK(t)
  BY <1>2, <1>3 DEF FileOK
<1>6. QED
  BY <1>4, <1>5 DEF t

\* What save writes is fit to be read again.
LEMMA WrittenIsOK ==
  ASSUME NEW h, IsTree(h), NamesOK(h)
  PROVE  LET ls == preOrderWrite(h, h[root].childPtr)
         IN  FileOK(ls) /\ ToSet(ls) = TreeOf(h)
<1> DEFINE ls == preOrderWrite(h, h[root].childPtr)
<1>1. ls \in Seq(Lines) /\ ToSet(ls) = TreeOf(h) /\ Ordered(ls, <<>>)
  BY WrittenIs
<1> HIDE DEF ls
<1>2. \A i \in 1 .. Len(ls) : ls[i] \in TreeOf(h)
  BY <1>1, LenProperties DEF ToSet
<1>3. FileOK(ls)
  BY <1>1, <1>2, EntriesAreOK DEF FileOK
<1>4. QED
  BY <1>1, <1>3 DEF ls

-----------------------------------------------------------------------------
(* A new entry.                                                            *)

\* The name is free in p.
IsFree(h, p, name) ==
  \A i \in 1 .. Len(Children(h, p)) : h[Children(h, p)[i]].name # name

\* A name that no child of p has is a path that is not used.
LEMMA FreeIsUnused ==
  ASSUME NEW h, IsTree(h), NEW p \in Inside(h), NEW name \in Names, IsFree(h, p, name)
  PROVE  ~ PT!IsUsed(TreeOf(h), Append(PathOf(h, p), name))
<1>1. SUFFICES ASSUME NEW m \in Inside(h) \ {root}, PathOf(h, m) = Append(PathOf(h, p), name)
               PROVE  FALSE
  BY DEF PT!IsUsed, TreeOf, Line
<1>2. PathOf(h, p) \in Seq(Names)
  BY PathFacts
<1>3. Front(PathOf(h, m)) = PathOf(h, p) /\ Last(PathOf(h, m)) = name
  BY <1>1, <1>2, Appended
<1>4. PathOf(h, h[m].parentPtr) = PathOf(h, p) /\ h[m].name = name /\ h[m].parentPtr \in Inside(h)
  BY <1>3, PathFacts, InsideIs
<1>5. h[m].parentPtr = p
  BY <1>4, PathsAreUnique
<1>6. PICK i \in 1 .. Len(Children(h, p)) : Children(h, p)[i] = m
  BY <1>5, Listed
<1>7. QED
  BY <1>4, <1>6 DEF IsFree

\* What make does, on finding p for the directory.
Makes(h, g, p, name, type) ==
  \/ g = h /\ (p = NULL \/ (IsDir(h, p) /\ ~ IsFree(h, p, name)))
  \/ /\ IsDir(h, p) /\ IsFree(h, p, name)
     /\ \E new : Added(h, g, p, name, type, new)

\* mkdir and creat add a child, or leave the heap.
LEMMA makeIs ==
  ASSUME NEW h, Usable(h), NEW path, IsPath(path), NEW type \in {"D", "F"},
         make(h, path, type) # FULL
  PROVE  Makes(h, make(h, path, type), Walk(h, Start(path), dirname(path)), basename(path), type)
<1> DEFINE p == Walk(h, Start(path), dirname(path))
           name == basename(path)
           n == Find(h, p, name, {"D", "F"})
           s == Children(h, p)
<1>1. make(h, path, type) = IF p = NULL \/ n # NULL THEN h ELSE Attach(h, p, name, type)
  BY DEF make
<1>2. DirOrNull(h, p)
  BY WalkProperties, StartIsDir, NamesOfPath DEF Usable
<1>3. name \in Names
  BY NamesOfPath
<1> HIDE DEF p, name
<1>4. CASE p = NULL
  BY <1>1, <1>4 DEF Makes, p, name
<1>5. CASE p # NULL
  <2>1. IsDir(h, p) /\ p \in Nodes /\ IsTree(h)
    BY <1>2, <1>5 DEF DirOrNull, IsDir, Usable
  <2>2. Kids(h, p, s)
    BY <2>1, KidsAre
  <2>3. \A i \in 1 .. Len(s) : h[s[i]].type \in {"D", "F"}
    <3>1. s = s
      OBVIOUS
    <3> HIDE DEF s
    <3>2. QED
      BY <2>1, <2>2, AKid
  <2>4. CASE n # NULL
    <3>1. h[n].name = name /\ \E i \in 1 .. Len(s) : s[i] = n
      BY <2>1, <2>4, FindProperties
    <3>2. ~ IsFree(h, p, name)
      BY <3>1 DEF IsFree
    <3>3. QED
      BY <1>1, <2>1, <2>4, <3>2 DEF Makes, p, name
  <2>5. CASE n = NULL
    <3>1. NULL \notin Nodes
      BY BoundFacts
    <3>2. \A i \in 1 .. Len(s) : h[s[i]].type \in {"D", "F"} => h[s[i]].name # name
      BY <2>1, <2>5, <3>1, FindProperties
    <3>3. IsFree(h, p, name)
      BY <2>3, <3>2 DEF IsFree
    <3>4. make(h, path, type) = Attach(h, p, name, type)
      BY <1>1, <1>5, <2>5
    <3>5. \E new : Added(h, Attach(h, p, name, type), p, name, type, new)
      BY <1>3, <2>1, <3>2, <3>4, AttachIsTree
    <3>6. QED
      BY <2>1, <3>3, <3>4, <3>5 DEF Makes, p, name
  <2>6. QED
    BY <2>4, <2>5
<1>6. QED
  BY <1>4, <1>5

\* The walk from the root finds the directory of that path.
LEMMA WalkFromRoot ==
  ASSUME NEW h, IsTree(h), NEW names \in Seq(Names)
  PROVE  LET p == Walk(h, root, names)
         IN  \/ p = NULL /\ ~ PT!IsDir(TreeOf(h), names)
             \/ p \in Inside(h) /\ IsDir(h, p) /\ PathOf(h, p) = names
<1> DEFINE N == Len(names)
           upto(k) == SubSeq(names, 1, k)
<1>1. PICK at : /\ Walk(h, root, names) = at[N] /\ at[0] = root
                /\ \A k \in 1 .. N : at[k] = Into(h, at[k - 1], names[k])
  BY LenProperties, WalkTurns
<1>2. upto(0) = <<>> /\ upto(N) = names
  BY SubSeqEmpty, SubSeqFull
<1>3. ASSUME NEW k \in 1 .. N
      PROVE  /\ upto(k) = Append(upto(k - 1), names[k])
             /\ upto(k - 1) \in Seq(Names) /\ names[k] \in Names
  <2>1. N \in Nat /\ names[k] \in Names
    BY LenProperties, ElementOfSeq
  <2>2. upto(k - 1) \in Seq(Names)
    <3>1. 1 \in Int /\ k - 1 \in Int /\ \A i \in 1 .. k - 1 : names[i] \in Names
      BY <2>1, ElementOfSeq
    <3>2. QED
      BY <3>1, SubSeqProperties
  <2>3. upto(k) = upto(k - 1) \o <<names[k]>>
    <3>1. 1 \in 1 .. N /\ k \in 1 .. N
      BY <2>1
    <3>2. QED
      BY <3>1, SubSeqRecursiveSecond
  <2>4. QED
    BY <2>1, <2>2, <2>3, AppendIsConcat
<1>4. N \in Nat
  BY LenProperties
<1> HIDE DEF N, upto
<1> DEFINE Found(k) == \/ at[k] = NULL /\ ~ PT!IsDir(TreeOf(h), upto(k))
                       \/ at[k] \in Inside(h) /\ IsDir(h, at[k]) /\ PathOf(h, at[k]) = upto(k)
           T == {k \in Nat : Found(k)}
<1>5. 0 \in T
  <2>1. root \in Inside(h) /\ IsDir(h, root) /\ PathOf(h, root) = <<>>
    BY InsideIs, PathFacts DEF IsTree
  <2>2. QED
    BY <1>1, <1>2, <2>1
<1>6. ASSUME NEW k \in 1 .. N, k - 1 \in T
      PROVE  k \in T
  <2> DEFINE p == at[k - 1]
             name == names[k]
  <2>1. at[k] = Into(h, p, name) /\ k \in Nat
    BY <1>1, <1>4
  <2>2. upto(k) = Append(upto(k - 1), name) /\ upto(k - 1) \in Seq(Names) /\ name \in Names
    BY <1>3
  <2>3. Front(upto(k)) = upto(k - 1) /\ Last(upto(k)) = name /\ upto(k) # <<>>
    BY <2>2, Appended
  <2>4. \A m \in Inside(h) : IsDir(h, m) /\ PathOf(h, m) = upto(k) =>
          /\ m # root /\ h[m].name = name
          /\ h[m].parentPtr \in Inside(h) /\ IsDir(h, h[m].parentPtr)
          /\ PathOf(h, h[m].parentPtr) = upto(k - 1)
    BY <2>3, PathFacts, InsideIs
  <2>5. CASE p = NULL
    <3>1. \A m \in Inside(h) : ~(IsDir(h, m) /\ PathOf(h, m) = upto(k - 1))
      BY <1>6, <2>5, DirEntries, InsideIs, BoundFacts
    <3>2. \A m \in Inside(h) : ~(IsDir(h, m) /\ PathOf(h, m) = upto(k))
      BY <2>4, <3>1
    <3>3. ~ PT!IsDir(TreeOf(h), upto(k))
      BY <3>2, DirEntries
    <3>4. QED
      BY <2>1, <2>5, <3>3 DEF Into
  <2>6. CASE p # NULL
    <3> DEFINE m == Find(h, p, name, {"D"})
               s == Children(h, p)
    <3>1. p \in Inside(h) /\ IsDir(h, p) /\ PathOf(h, p) = upto(k - 1) /\ p \in Nodes
      BY <1>6, <2>6, InsideIs
    <3>2. at[k] = m
      BY <2>1, <2>6 DEF Into
    <3>3. \/ /\ m = NULL
             /\ \A i \in 1 .. Len(s) : h[s[i]].type \in {"D"} => h[s[i]].name # name
          \/ /\ m \in Nodes /\ h[m].type \in {"D"} /\ h[m].name = name
             /\ \E i \in 1 .. Len(s) : s[i] = m
      BY <3>1, FindProperties
    <3> HIDE DEF m
    <3>4. CASE m = NULL
      <4>1. \A i \in 1 .. Len(s) : h[s[i]].type = "D" => h[s[i]].name # name
        BY <3>3, <3>4, BoundFacts
      <4>2. ASSUME NEW x \in Inside(h), IsDir(h, x), PathOf(h, x) = upto(k)
            PROVE  FALSE
        <5>1. /\ x # root /\ h[x].name = name /\ h[x].parentPtr \in Inside(h)
              /\ PathOf(h, h[x].parentPtr) = upto(k - 1)
          BY <2>4, <4>2
        <5>2. h[x].parentPtr = p
          BY <3>1, <5>1, PathsAreUnique
        <5>3. \E i \in 1 .. Len(s) : s[i] = x
          BY <5>1, <5>2, Listed
        <5>4. QED
          BY <4>1, <4>2, <5>1, <5>3 DEF IsDir
      <4>3. ~ PT!IsDir(TreeOf(h), upto(k))
        BY <4>2, DirEntries
      <4>4. QED
        BY <2>1, <3>2, <3>4, <4>3
    <3>5. CASE m # NULL
      <4>1. PICK i \in 1 .. Len(s) : s[i] = m
        BY <3>3, <3>5
      <4>2. m \in Inside(h) \ {root} /\ h[m].parentPtr = p
        BY <3>1, <4>1, KidInside
      <4>3. IsDir(h, m) /\ h[m].name = name
        BY <3>3, <3>5 DEF IsDir
      <4>4. PathOf(h, m) = upto(k)
        BY <2>2, <3>1, <4>2, <4>3, PathOfIs
      <4>5. QED
        BY <2>1, <3>2, <4>2, <4>3, <4>4
    <3>6. QED
      BY <3>4, <3>5
  <2>7. QED
    BY <2>5, <2>6
<1> HIDE DEF T
<1>7. N \in T
  BY <1>4, <1>5, <1>6, LoopInduction
<1>8. QED
  BY <1>1, <1>2, <1>7 DEF T

\* The path of n, or LOST.
WdOf(h, n) == IF n \in Inside(h) THEN PathOf(h, n) ELSE <<"/">>

\* There is a place for e.
Fitting(h, e) == ~ PT!IsUsed(TreeOf(h), e[2]) /\ PT!IsDir(TreeOf(h), Front(e[2]))

Grown(h, e) == IF Fitting(h, e) THEN TreeOf(h) \cup {e} ELSE TreeOf(h)

\* Only a file in the root may have no name.
Named(p, name, type) == name = "" => type = "F" /\ p = root

\* The entry of that name below p.
EntryIn(h, p, name, type) == <<type, Append(PathOf(h, p), name)>>

\* The paths grow by that entry, or not at all, and nothing moves.
Grows(h, g, p, name, type) ==
  /\ NamesOK(g)
  /\ \A n : IsDir(h, n) => WdOf(g, n) = WdOf(h, n)
  /\ p \notin Inside(h) => TreeOf(g) = TreeOf(h)
  /\ p \in Inside(h) => TreeOf(g) = Grown(h, EntryIn(h, p, name, type))

\* In the heap, and to the paths, make does nothing, or one thing.
LEMMA MakesIs ==
  ASSUME NEW h, IsTree(h), NamesOK(h), NEW g, IsTree(g), NEW p, NEW name \in Names,
         NEW type, type \in {"D", "F"}, Makes(h, g, p, name, type),
         Named(p, name, type)
  PROVE  Grows(h, g, p, name, type)
<1> DEFINE e == <<type, Append(PathOf(h, p), name)>>
<1>0. EntryIn(h, p, name, type) = e
  BY DEF EntryIn
<1>1. CASE g = h /\ (p = NULL \/ (IsDir(h, p) /\ ~ IsFree(h, p, name)))
  <2>1. ASSUME p \in Inside(h)
        PROVE  PT!IsUsed(TreeOf(h), e[2])
    <3>1. p # NULL
      BY <2>1, InsideIs, BoundFacts
    <3>2. PICK i \in 1 .. Len(Children(h, p)) : h[Children(h, p)[i]].name = name
      BY <1>1, <3>1 DEF IsFree
    <3> DEFINE m == Children(h, p)[i]
    <3>3. m \in Inside(h) \ {root} /\ h[m].parentPtr = p
      BY <2>1, KidInside
    <3>4. PathOf(h, m) = Append(PathOf(h, p), name)
      BY <3>2, <3>3, PathOfIs
    <3> HIDE DEF m
    <3>5. Line(h, m) \in TreeOf(h) /\ Line(h, m)[2] = e[2]
      BY <3>3, <3>4 DEF TreeOf, Line
    <3>6. QED
      BY <3>5 DEF PT!IsUsed
  <2>2. QED
    BY <1>0, <1>1, <2>1 DEF Fitting, Grown, Grows
<1>2. CASE /\ IsDir(h, p) /\ IsFree(h, p, name)
           /\ \E new : Added(h, g, p, name, type, new)
  <2>1. PICK new : Added(h, g, p, name, type, new)
    BY <1>2
  <2>2. /\ new \notin Inside(h)
        /\ Inside(g) = IF p \in Inside(h) THEN Inside(h) \cup {new} ELSE Inside(h)
        /\ TreeOf(g) = IF p \in Inside(h) THEN TreeOf(h) \cup {e} ELSE TreeOf(h)
        /\ \A n \in Inside(h) : PathOf(g, n) = PathOf(h, n)
    BY <1>2, <2>1, AddedKeeps
  <2>3. NamesOK(g)
    <3>1. SUFFICES ASSUME NEW n \in Nodes, g[n] # Blank, g[n].name = ""
                   PROVE  g[n].type = "F" /\ g[n].parentPtr = root
      BY DEF NamesOK
    <3>2. CASE n = new
      BY <2>1, <3>1, <3>2 DEF Added, Named
    <3>3. CASE n # new
      BY <2>1, <3>1, <3>3 DEF Added, SameBut, NamesOK
    <3>4. QED
      BY <3>2, <3>3
  <2>4. ASSUME NEW n, IsDir(h, n)
        PROVE  WdOf(g, n) = WdOf(h, n)
    <3>1. n # new
      BY <2>1, <2>4, BlankIsNode DEF Added, IsDir
    <3>2. QED
      BY <2>2, <3>1 DEF WdOf
  <2>5. p \in Inside(h) => Fitting(h, e)
    <3>1. SUFFICES ASSUME p \in Inside(h) PROVE Fitting(h, e)
      OBVIOUS
    <3>2. ~ PT!IsUsed(TreeOf(h), e[2])
      BY <1>2, <3>1, FreeIsUnused
    <3>3. PathOf(h, p) \in Seq(Names)
      BY <3>1, PathFacts
    <3>4. Front(e[2]) = PathOf(h, p)
      BY <3>3, Appended
    <3>5. PT!IsDir(TreeOf(h), PathOf(h, p))
      BY <1>2, <3>1, DirEntries
    <3>6. QED
      BY <3>2, <3>4, <3>5 DEF Fitting
  <2>6. QED
    BY <1>0, <2>2, <2>3, <2>4, <2>5 DEF Grown, Grows
<1>3. QED
  BY <1>1, <1>2 DEF Makes

\* What a line does that is read.
LEMMA LoadLine ==
  ASSUME NEW h, Usable(h), NamesOK(h), h # FULL, NEW e, IsEntry(e), ReadLine(h, e) # FULL
  PROVE  LET g == ReadLine(h, e)
         IN  /\ Usable(g) /\ NamesOK(g) /\ WdOf(g, cwd) = WdOf(h, cwd)
             /\ TreeOf(g) = Grown(h, e)
<1> DEFINE g == ReadLine(h, e)
           path == Pathname(e)
           dir == Front(e[2])
           name == Last(e[2])
           p == Walk(h, root, dir)
<1>1. /\ e \in Lines /\ e[1] \in {"D", "F"} /\ e[2] \in Seq(Names) /\ e[2] # <<>>
      /\ e = <<e[1], e[2]>> /\ (name = "" => e[1] = "F" /\ e[2] = <<"">>)
  <2>1. /\ e \in Lines /\ e[1] \in {"D", "F"} /\ e[2] # <<>>
        /\ name = "" => e[1] = "F" /\ e[2] = <<"">>
    BY DEF IsEntry
  <2>2. e[2] \in Seq(Names) /\ e = <<e[1], e[2]>>
    BY <2>1, EntryIs
  <2>3. QED
    BY <2>1, <2>2
<1>2. dir \in Seq(Names) /\ name \in Names /\ e[2] = Append(dir, name)
  BY <1>1, FrontAndLast
<1>3. Usable(g) /\ IsTree(g) /\ IsTree(h) /\ IsDir(h, cwd)
  <2>1. Usable(g)
    BY <1>1, ReadLineIsUsable
  <2>2. QED
    BY <2>1 DEF Usable
<1>4. e[2] = <<"">> => dir = <<>> /\ name = ""
  <2>1. <<"">> = Append(<<>>, "") /\ <<>> \in Seq(Names) /\ "" \in Names
    BY DEF Names
  <2>2. Front(<<"">>) = <<>> /\ Last(<<"">>) = ""
    BY <2>1, Appended
  <2>3. QED
    BY <2>2
<1>5. e[2] = <<"">> => e[1] = "F"
  BY <1>1, <1>4
<1>6. /\ IsPath(path) /\ Start(path) = root /\ dirname(path) = dir /\ basename(path) = name
      /\ g = make(h, path, e[1])
  <2>0. g = IF e[1] = "F" THEN creat(h, path) ELSE mkdir(h, path)
    BY DEF ReadLine
  <2> HIDE DEF g, dir, name
  <2>1. CASE e[2] = <<"">>
    <3>1. path = [abs |-> TRUE, names |-> <<>>]
      BY <2>1 DEF Pathname
    <3>0. dir = <<>> /\ name = "" /\ e[1] = "F" /\ <<>> \in Seq(Names)
      <4>2. <<>> \in Seq(Names)
        OBVIOUS
      <4>3. QED
        BY <1>4, <1>5, <2>1, <4>2
    <3> HIDE DEF path
    <3>2. path.abs = TRUE /\ path.names = <<>>
      BY <3>1
    <3>3. IsPath(path)
      BY <3>0, <3>1 DEF IsPath
    <3>4. Start(path) = root /\ dirname(path) = <<>> /\ basename(path) = ""
      BY <3>2 DEF Start, dirname, basename
    <3>5. g = make(h, path, e[1])
      BY <2>0, <3>0, <3>2 DEF creat
    <3>6. QED
      BY <3>0, <3>3, <3>4, <3>5
  <2>2. CASE e[2] # <<"">>
    <3>1. path = [abs |-> TRUE, names |-> e[2]]
      BY <2>2 DEF Pathname
    <3> HIDE DEF path
    <3>2. path.abs = TRUE /\ path.names = e[2] /\ path.names # <<>>
      BY <1>1, <3>1
    <3>3. IsPath(path)
      BY <1>1, <3>1 DEF IsPath
    <3>4. Start(path) = root /\ dirname(path) = dir /\ basename(path) = name
      BY <3>2 DEF Start, dirname, basename, dir, name
    <3>5. g = make(h, path, e[1])
      BY <1>1, <2>0, <3>2 DEF creat, mkdir
    <3>6. QED
      BY <3>3, <3>4, <3>5
  <2>3. QED
    BY <2>1, <2>2
<1> HIDE DEF path
<1>7. Makes(h, g, p, name, e[1])
  BY <1>1, <1>6, makeIs
<1>8. \/ p = NULL /\ ~ PT!IsDir(TreeOf(h), dir)
      \/ p \in Inside(h) /\ IsDir(h, p) /\ PathOf(h, p) = dir
  BY <1>2, <1>3, WalkFromRoot
<1>9. Named(p, name, e[1])
  <2>1. SUFFICES ASSUME name = "" PROVE e[1] = "F" /\ p = root
    BY DEF Named
  <2>2. e[1] = "F" /\ e[2] = <<"">>
    BY <1>1, <2>1
  <2>3. e[1] = "F" /\ dir = <<>>
    BY <1>4, <2>2
  <2>4. p = root
    <3>1. Len(<<>>) = 0 /\ 0 \in Nat
      OBVIOUS
    <3>2. Walk(h, root, <<>>) = root
      BY <3>1, WalkTurns
    <3>3. QED
      BY <2>3, <3>2
  <2>5. QED
    BY <2>3, <2>4
<1> DEFINE type == e[1]
<1>13. /\ Makes(h, g, p, name, type) /\ Named(p, name, type)
       /\ type \in {"D", "F"} /\ name \in Names
  BY <1>1, <1>2, <1>7, <1>9
<1> HIDE DEF g, p, dir, name, type
<1>10. /\ NamesOK(g)
       /\ \A n : IsDir(h, n) => WdOf(g, n) = WdOf(h, n)
       /\ p \notin Inside(h) => TreeOf(g) = TreeOf(h)
       /\ p \in Inside(h) => TreeOf(g) = Grown(h, EntryIn(h, p, name, type))
  <2>1. Grows(h, g, p, name, type)
    BY <1>3, <1>13, MakesIs
  <2>2. QED
    BY <2>1 DEF Grows
<1>11. TreeOf(g) = Grown(h, e)
  <2>1. CASE p \in Inside(h)
    <3>1. p # NULL
      BY <1>3, <2>1, InsideIs, BoundFacts
    <3>2. EntryIn(h, p, name, type) = e
      BY <1>1, <1>2, <1>8, <3>1 DEF type, EntryIn
    <3>3. QED
      BY <1>10, <2>1, <3>2
  <2>2. CASE p \notin Inside(h)
    <3>1. ~ Fitting(h, e)
      BY <1>8, <2>2 DEF Fitting, dir
    <3>2. QED
      BY <1>10, <2>2, <3>1 DEF Grown
  <2>3. QED
    BY <2>1, <2>2
<1>12. QED
  BY <1>3, <1>10, <1>11 DEF g

-----------------------------------------------------------------------------
(* Reload adds what fits into the tree as it was.                          *)

Fits(t, e) == /\ ~ PT!IsUsed(t, e[2])
              /\ \A q \in PT!Above(e[2]) : <<"F", q>> \notin t

\* The tree after the first k lines.
LoadedBy(t, ls, k) == t \cup {e \in ToSet(SubSeq(ls, 1, k)) : Fits(t, e)}

\* The tree after one more line.
LEMMA OneMoreLine ==
  ASSUME NEW t, NEW ls \in Seq(Lines), NEW k \in 1 .. Len(ls)
  PROVE  /\ LoadedBy(t, ls, k) = LoadedBy(t, ls, k - 1) \cup {e \in {ls[k]} : Fits(t, e)}
         /\ \A j \in 1 .. k - 1 : Fits(t, ls[j]) => ls[j] \in LoadedBy(t, ls, k - 1)
         /\ \A f \in LoadedBy(t, ls, k - 1) \ t : \E j \in 1 .. k - 1 : f = ls[j]
<1>1. Len(ls) \in Nat
  BY LenProperties
<1>2. \A j \in 0 .. Len(ls) : ToSet(SubSeq(ls, 1, j)) = {ls[i] : i \in 1 .. j}
  <2>1. SUFFICES ASSUME NEW j \in 0 .. Len(ls)
                 PROVE  ToSet(SubSeq(ls, 1, j)) = {ls[i] : i \in 1 .. j}
    OBVIOUS
  <2>2. /\ 1 \in Int /\ j \in Int /\ \A i \in 1 .. j : ls[i] \in Lines
        /\ (IF 1 <= j THEN j - 1 + 1 ELSE 0) = j /\ j \in Nat
    BY <1>1, ElementOfSeq
  <2>3. /\ SubSeq(ls, 1, j) \in Seq(Lines)
        /\ Len(SubSeq(ls, 1, j)) = j
        /\ \A i \in 1 .. j : SubSeq(ls, 1, j)[i] = ls[i]
    BY <2>2, SubSeqProperties
  <2>4. DOMAIN SubSeq(ls, 1, j) = 1 .. j
    BY <2>2, <2>3, LenProperties
  <2>5. QED
    BY <2>3, <2>4 DEF ToSet
<1>3. k \in 0 .. Len(ls) /\ k - 1 \in 0 .. Len(ls) /\ 1 .. k = (1 .. k - 1) \cup {k}
  BY <1>1
<1>4. QED
  BY <1>2, <1>3 DEF LoadedBy

\* What one line adds to the tree, seen from the tree that was there before the first.
LEMMA LoadedGrows ==
  ASSUME NEW h, IsTree(h), NamesOK(h), NEW t, \A e \in t : IsEntry(e),
         NEW ls, FileOK(ls), NEW k \in 1 .. Len(ls), TreeOf(h) = LoadedBy(t, ls, k - 1)
  PROVE  Grown(h, ls[k]) = LoadedBy(t, ls, k)
<1>7. \/ Front(ls[k][2]) = <<>>
      \/ \E j \in 1 .. k - 1 : ls[j] = <<"D", Front(ls[k][2])>>
  <2>1. Ordered(ls, <<>>)
    BY DEF FileOK
  <2>2. QED
    BY <2>1 DEF Ordered
<1> DEFINE e == ls[k]
           u == TreeOf(h)
           top == Front(e[2])
           last == Last(e[2])
<1>1. /\ LoadedBy(t, ls, k) = u \cup {f \in {e} : Fits(t, f)}
      /\ \A j \in 1 .. k - 1 : Fits(t, ls[j]) => ls[j] \in u
      /\ \A f \in u \ t : \E j \in 1 .. k - 1 : f = ls[j]
  BY OneMoreLine DEF FileOK
<1>2. t \subseteq u
  BY DEF LoadedBy
<1>3. e \in Lines /\ e[2] \in Seq(Names) /\ e[2] # <<>>
  BY EntryIs DEF FileOK, IsEntry
<1>4. top \in Seq(Names) /\ last \in Names /\ e[2] = Append(top, last)
  BY <1>3, FrontAndLast
<1>6. Len(ls) \in Nat
  BY LenProperties DEF FileOK
<1>8. \A i \in 1 .. k - 1 : ls[i][2] = e[2] => ls[i] = e
  BY <1>6 DEF FileOK
<1>9. \A f, g \in u : f[2] = g[2] => f = g
  BY EntriesAreOK
<1>10. Fitting(h, e) <=> ~ PT!IsUsed(u, e[2]) /\ PT!IsDir(u, top)
  BY DEF Fitting
<1>11. Grown(h, e) = IF Fitting(h, e) THEN u \cup {e} ELSE u
  BY DEF Grown
<1> HIDE DEF e, u, top, last
<1>5. PT!Above(e[2]) = PT!Above(top) \cup ({top} \ {<<>>})
  BY <1>4, AboveAppended
<1>12. CASE Fits(t, e) /\ e \notin u
  <2>1. ~ PT!IsUsed(u, e[2])
    <3>1. SUFFICES ASSUME NEW f \in u, f[2] = e[2] PROVE FALSE
      BY DEF PT!IsUsed
    <3>2. f \notin t
      BY <1>12, <3>1 DEF Fits, PT!IsUsed
    <3>3. QED
      BY <1>1, <1>8, <1>12, <3>1, <3>2
  <2>2. PT!IsDir(u, top)
    <3>1. CASE top = <<>>
      BY <3>1 DEF PT!IsDir
    <3>2. CASE top # <<>>
      <4>1. PICK j \in 1 .. k - 1 : ls[j] = <<"D", top>>
        BY <1>7, <3>2 DEF top, e
      <4>2. PT!Above(<<"D", top>>[2]) \subseteq PT!Above(e[2]) /\ top \in PT!Above(e[2])
        BY <1>5, <3>2
      <4>3. CASE PT!IsUsed(t, top)
        <5>1. PICK f \in t : f[2] = top
          BY <4>3 DEF PT!IsUsed
        <5>2. f \in Lines /\ f[1] \in {"D", "F"}
          BY DEF IsEntry
        <5>3. f = <<f[1], top>>
          BY <5>1, <5>2, EntryIs
        <5>4. f = <<"D", top>>
          BY <1>12, <4>2, <5>2, <5>3 DEF Fits
        <5>5. QED
          BY <1>2, <5>4 DEF PT!IsDir
      <4>4. CASE ~ PT!IsUsed(t, top)
        <5>1. Fits(t, ls[j])
          BY <1>12, <4>1, <4>2, <4>4 DEF Fits
        <5>2. QED
          BY <1>1, <4>1, <5>1 DEF PT!IsDir
      <4>5. QED
        BY <4>3, <4>4
    <3>3. QED
      BY <3>1, <3>2
  <2>3. QED
    BY <1>1, <1>10, <1>11, <1>12, <2>1, <2>2 DEF e
<1>13. CASE Fits(t, e) /\ e \in u
  <2>1. PT!IsUsed(u, e[2])
    BY <1>13 DEF PT!IsUsed
  <2>2. QED
    BY <1>1, <1>10, <1>11, <1>13, <2>1 DEF e
<1>14. CASE ~ Fits(t, e)
  <2>1. ~ Fitting(h, e)
    <3>1. CASE PT!IsUsed(t, e[2])
      BY <1>2, <1>10, <3>1 DEF PT!IsUsed
    <3>2. CASE ~ PT!IsUsed(t, e[2])
      <4>1. PICK q \in PT!Above(e[2]) : <<"F", q>> \in u
        BY <1>2, <1>14, <3>2 DEF Fits
      <4>2. SUFFICES ASSUME PT!IsDir(u, top) PROVE FALSE
        BY <1>10
      <4>3. <<"D", q>> \in u
        <5>1. CASE q \in PT!Above(top)
          <6>1. PICK n \in Inside(h) : PathOf(h, n) = top
            BY <4>2, DirEntries DEF u
          <6>2. QED
            BY <5>1, <6>1, AncestorsAreDirs DEF u
        <5>2. CASE q = top /\ top # <<>>
          BY <4>2, <5>2 DEF PT!IsDir
        <5>3. QED
          BY <1>5, <5>1, <5>2
      <4>4. <<"F", q>> = <<"D", q>>
        BY <1>9, <4>1, <4>3
      <4>5. QED
        BY <4>4
    <3>3. QED
      BY <3>1, <3>2
  <2>2. QED
    BY <1>1, <1>11, <1>14, <2>1 DEF e
<1>15. QED
  BY <1>12, <1>13, <1>14 DEF e

\* The invariant of the refinement.
RInv == IInv /\ NamesOK(node) /\ FileOK(file)

\* The state of PathTree, by way of the nodes of the tree.
LEMMA MappedState ==
  ASSUME IInv
  PROVE  Tree = TreeOf(node) /\ Wd = WdOf(node, cwd)
<1>1. Subtree(node, root) = Inside(node)
  BY SubtreeIsInside DEF IInv, Usable
<1>2. QED
  BY <1>1 DEF Tree, Wd, WdOf, TreeOf, Line

\* All of reload.
LEMMA LoadedIs ==
  ASSUME RInv, Reload
  PROVE  \E h : /\ Becomes(h) /\ Usable(h) /\ NamesOK(h) /\ WdOf(h, cwd) = WdOf(node, cwd)
                /\ TreeOf(h) = LoadedBy(TreeOf(node), file, Len(file))
<1> DEFINE N == Len(file)
<1>0. N \in Nat /\ \A k \in 1 .. N : IsEntry(file[k])
  BY LenProperties DEF RInv, FileOK
<1>1. PICK loaded : /\ Becomes(loaded[N]) /\ loaded[0] = node
                    /\ \A k \in 1 .. N : loaded[k] = ReadLine(loaded[k - 1], file[k])
  BY <1>0, ReloadTurns
<1> HIDE DEF N
<1> DEFINE t == TreeOf(node)
           OK(h, k) == /\ Usable(h) /\ NamesOK(h) /\ WdOf(h, cwd) = WdOf(node, cwd)
                       /\ TreeOf(h) = LoadedBy(t, file, k)
           T == {k \in Nat : loaded[k] = FULL \/ OK(loaded[k], k)}
<1>6. 0 \in T
  <2>1. SubSeq(file, 1, 0) = <<>>
    BY SubSeqEmpty DEF RInv, FileOK
  <2>2. LoadedBy(t, file, 0) = t
    BY <2>1 DEF LoadedBy, ToSet
  <2>3. QED
    BY <1>1, <2>2 DEF RInv, IInv
<1>7. ASSUME NEW k \in 1 .. N, k - 1 \in T
      PROVE  k \in T
  <2> DEFINE h == loaded[k - 1]
             g == ReadLine(h, file[k])
  <2>1. k \in Nat /\ k - 1 \in Nat /\ loaded[k] = g
    BY <1>0, <1>1
  <2>2. CASE h = FULL \/ g = FULL
    BY <2>1, <2>2 DEF ReadLine
  <2>3. CASE h # FULL /\ g # FULL
    <3>1. OK(h, k - 1)
      BY <1>7, <2>3
    <3>2. IsEntry(file[k])
      BY <1>0
    <3> HIDE DEF h, t
    <3>3. /\ Usable(g) /\ NamesOK(g) /\ WdOf(g, cwd) = WdOf(h, cwd)
          /\ TreeOf(g) = Grown(h, file[k])
      BY <2>3, <3>1, <3>2, LoadLine
    <3>4. \A e \in t : IsEntry(e)
      BY EntriesAreOK DEF RInv, IInv, Usable, t
    <3>5. Grown(h, file[k]) = LoadedBy(t, file, k)
      BY <3>1, <3>4, LoadedGrows DEF RInv, Usable, N
    <3>6. OK(g, k)
      BY <3>1, <3>3, <3>5
    <3>7. QED
      BY <2>1, <3>6
  <2>4. QED
    BY <2>2, <2>3
<1> HIDE DEF T
<1>8. N \in T
  BY <1>0, <1>6, <1>7, LoopInduction
<1>9. OK(loaded[N], N)
  BY <1>1, <1>8 DEF T, Becomes
<1>10. QED
  BY <1>1, <1>9 DEF N

LEMMA TidyKeepsNames ==
  ASSUME NEW h, IsTree(h), NamesOK(h), NEW at \in Nodes
  PROVE  NamesOK(Tidy(h, at))
<1> DEFINE t == Tidy(h, at)
<1>1. SUFFICES ASSUME NEW n \in Nodes, t[n] # Blank, t[n].name = ""
               PROVE  t[n].type = "F" /\ t[n].parentPtr = root
  BY DEF NamesOK
<1>2. /\ t[n].type = h[n].type /\ t[n].name = h[n].name
      /\ t[n].parentPtr = h[n].parentPtr /\ h[n] # Blank
  <2>1. t[n] # Blank
    BY <1>1
  <2>2. n \in Live(h, at)
    BY <2>1, TidiedNode
  <2>3. QED
    BY <2>1, <2>2, TidiedNode
<1>3. QED
  BY <1>1, <1>2, Zenon DEF NamesOK

\* Tidying the heap changes nothing of the paths.
LEMMA BecomesKeeps ==
  ASSUME RInv, NEW h, Becomes(h), Usable(h), NamesOK(h)
  PROVE  /\ RInv' /\ Tree' = TreeOf(h) /\ Wd' = WdOf(h, cwd)
         /\ file' = file
<1>1. /\ node' = Tidy(h, cwd) /\ cwd' = cwd /\ file' = file
      /\ IsTree(h) /\ IsDir(h, cwd) /\ cwd \in Nodes
  BY DEF Becomes, Usable, IsDir
<1> DEFINE t == Tidy(h, cwd)
<1>2. IInv'
  BY BecomesStep DEF RInv
<1>3. NamesOK(t)
  BY <1>1, TidyKeepsNames
<1>4. RInv'
  BY <1>1, <1>2, <1>3 DEF RInv
<1>5. /\ Inside(t) = Inside(h) /\ TreeOf(t) = TreeOf(h)
      /\ \A n \in Inside(h) : PathOf(t, n) = PathOf(h, n)
  BY <1>1, TidyKeeps
<1>6. WdOf(t, cwd) = WdOf(h, cwd)
  BY <1>5 DEF WdOf
<1>7. Tree' = TreeOf(node') /\ Wd' = WdOf(node', cwd')
  <2>1. Subtree(node', root) = Inside(node')
    BY <1>2, SubtreeIsInside DEF IInv, Usable
  <2>2. QED
    BY <2>1 DEF Tree, Wd, WdOf, TreeOf, Line
<1>8. QED
  BY <1>1, <1>4, <1>5, <1>6, <1>7

\* reload adds to the paths what was saved and fits, judged by the tree before it.
LEMMA ReloadImplements ==
  ASSUME RInv, Reload
  PROVE  RInv' /\ PT!Reload
<1>1. PICK h : /\ Becomes(h) /\ Usable(h) /\ NamesOK(h) /\ WdOf(h, cwd) = WdOf(node, cwd)
               /\ TreeOf(h) = LoadedBy(TreeOf(node), file, Len(file))
  BY LoadedIs
<1>2. RInv' /\ Tree' = TreeOf(h) /\ Wd' = WdOf(h, cwd) /\ file' = file
  BY <1>1, BecomesKeeps
<1>3. Tree = TreeOf(node) /\ Wd = WdOf(node, cwd)
  BY MappedState DEF RInv
<1>4. SubSeq(file, 1, Len(file)) = file
  BY SubSeqFull DEF RInv, FileOK
<1>5. Tree' = Tree \cup {e \in ToSet(file) : Fits(Tree, e)}
  BY <1>1, <1>2, <1>3, <1>4 DEF LoadedBy
<1>6. QED
  BY <1>1, <1>2, <1>3, <1>5 DEF PT!Reload, Fits

-----------------------------------------------------------------------------
(* Every command, as a step of PathTree.                                   *)

\* What a step of the commands is to the paths.
Implements == RInv' /\ [PT!Next]_(PT!vars)

\* A step that leaves the paths.
LEMMA Stutters ==
  ASSUME RInv', Tree' = Tree, Wd' = Wd, file' = file
  PROVE  Implements
BY DEF Implements, PT!vars

\* Only a pathname without names has an empty last name.
LEMMA NamesAreGiven ==
  ASSUME NEW path \in Paths, path.names # <<>>
  PROVE  basename(path) # ""
<1>1. path \in [abs : BOOLEAN, names : Seq(STRING \ {""})]
  BY PathsAssumption, Zenon DEF Path
<1>2. path.names \in Seq(STRING \ {""})
  BY <1>1, Zenon
<1>3. Last(path.names) \in STRING \ {""}
  BY <1>2, FrontAndLast, Zenon
<1>4. QED
  BY <1>3, Zenon DEF basename

\* make adds an entry, or nothing where the directory is missing or was removed.
LEMMA MakeImplements ==
  ASSUME RInv, NEW path \in Paths, NEW type \in {"D", "F"}, Becomes(make(node, path, type)),
         path.names = <<>> => path.abs = TRUE /\ type = "F"
  PROVE  Implements
<1> DEFINE g == make(node, path, type)
           p == Walk(node, Start(path), dirname(path))
           name == basename(path)
           e == EntryIn(node, p, name, type)
<1>1. IsPath(path)
  BY PathsArePaths
<1>2. Usable(node) /\ IsTree(node) /\ NamesOK(node) /\ IsDir(node, cwd)
  BY DEF RInv, IInv, Usable
<1>3. g # FULL
  BY DEF Becomes
<1>4. Usable(g) /\ IsTree(g)
  BY <1>1, <1>2, <1>3, makeIsUsable DEF Usable
<1>5. Makes(node, g, p, name, type) /\ name \in Names
  BY <1>1, <1>2, <1>3, makeIs, NamesOfPath
<1>6. Named(p, name, type)
  <2>1. CASE path.names = <<>>
    <3>1. p = Walk(node, root, <<>>)
      BY <2>1 DEF Start, dirname
    <3>2. Len(<<>>) = 0 /\ 0 \in Nat
      OBVIOUS
    <3>3. Walk(node, root, <<>>) = root
      BY <3>2, WalkTurns
    <3> HIDE DEF p, name
    <3>4. QED
      BY <2>1, <3>1, <3>3, Zenon DEF Named
  <2>2. CASE path.names # <<>>
    <3>1. name # ""
      BY <2>2, NamesAreGiven
    <3>2. QED
      BY <3>1, Zenon DEF Named
  <2>3. QED
    BY <2>1, <2>2
<1> HIDE DEF g, p, name, e
<1>7. Grows(node, g, p, name, type)
  BY <1>2, <1>4, <1>5, <1>6, MakesIs
<1>8. /\ NamesOK(g) /\ WdOf(g, cwd) = WdOf(node, cwd)
      /\ TreeOf(g) = TreeOf(node) \/ TreeOf(g) = Grown(node, e)
  BY <1>2, <1>7 DEF Grows, e
<1>9. RInv' /\ Tree' = TreeOf(g) /\ Wd' = WdOf(g, cwd) /\ file' = file
  BY <1>4, <1>8, BecomesKeeps DEF g
<1>10. Tree = TreeOf(node) /\ Wd = WdOf(node, cwd)
  BY MappedState DEF RInv
<1>11. CASE TreeOf(g) = TreeOf(node)
  BY <1>8, <1>9, <1>10, <1>11, Stutters
<1>12. CASE TreeOf(g) = TreeOf(node) \cup {e} /\ Fitting(node, e)
  <2>1. PT!Make(e)
    <3>1. PT!Front(e[2]) = Front(e[2])
      BY DEF PT!Front, Front
    <3>2. QED
      BY <1>8, <1>9, <1>10, <1>12, <3>1 DEF PT!Make, Fitting
  <2>2. e \in Tree' \ Tree
    BY <1>9, <1>10, <1>12 DEF Fitting, PT!IsUsed
  <2>3. PT!Next
    BY <2>1, <2>2 DEF PT!Next
  <2>4. QED
    BY <1>9, <2>3 DEF Implements
<1>13. QED
  BY <1>8, <1>11, <1>12 DEF Grown

\* mkdir and creat without a name do nothing.
LEMMA SameHeap ==
  ASSUME RInv, Becomes(node)
  PROVE  Implements
<1>1. RInv' /\ Tree' = TreeOf(node) /\ Wd' = WdOf(node, cwd) /\ file' = file
  BY BecomesKeeps DEF RInv, IInv
<1>2. Tree = TreeOf(node) /\ Wd = WdOf(node, cwd)
  BY MappedState DEF RInv
<1>3. QED
  BY <1>1, <1>2, Stutters

LEMMA MkdirImplements ==
  ASSUME RInv, NEW path \in Paths, Mkdir(path)
  PROVE  Implements
<1>1. CASE path.names = <<>>
  BY <1>1, SameHeap DEF Mkdir, mkdir
<1>2. CASE path.names # <<>>
  BY <1>2, MakeImplements DEF Mkdir, mkdir
<1>3. QED
  BY <1>1, <1>2

LEMMA CreatImplements ==
  ASSUME RInv, NEW path \in Paths, Creat(path)
  PROVE  Implements
<1>1. path.abs \in BOOLEAN
  BY PathsAssumption DEF Path
<1>2. CASE path.names = <<>> /\ ~ path.abs
  BY <1>2, SameHeap DEF Creat, creat
<1>3. CASE ~(path.names = <<>> /\ ~ path.abs)
  <2>1. Becomes(make(node, path, "F"))
    BY <1>3 DEF Creat, creat
  <2>2. path.names = <<>> => path.abs = TRUE
    BY <1>1, <1>3
  <2>3. QED
    BY <2>1, <2>2, MakeImplements
<1>4. QED
  BY <1>2, <1>3

\* What is below an entry is below a child of the node.
LEMMA NothingBelow ==
  ASSUME NEW h, IsTree(h), NEW n \in Inside(h), Children(h, n) = <<>>
  PROVE  \A e \in TreeOf(h) : PathOf(h, n) \notin PT!Above(e[2])
<1> DEFINE P == {m \in Inside(h) : PathOf(h, n) \notin PT!Above(PathOf(h, m))}
<1>1. PT!Above(<<>>) = {}
  BY DEF PT!Above
<1>2. root \in P
  BY <1>1, InsideIs, PathFacts
<1>3. ASSUME NEW m \in Inside(h) \ {root}, h[m].parentPtr \in P
      PROVE  m \in P
  <2> DEFINE p == h[m].parentPtr
  <2>1. p \in Inside(h) /\ p # n
    <3>1. p \in Inside(h) /\ m \in ToSet(Children(h, p))
      BY InsideIs
    <3>2. ToSet(<<>>) = {}
      BY DEF ToSet
    <3>3. QED
      BY <3>1, <3>2
  <2>2. PathOf(h, n) # PathOf(h, p)
    BY <2>1, PathsAreUnique
  <2>3. PT!Above(PathOf(h, m)) = PT!Above(PathOf(h, p)) \cup ({PathOf(h, p)} \ {<<>>})
    BY PathFacts
  <2>4. QED
    BY <1>3, <2>2, <2>3
<1> HIDE DEF P
<1>4. Inside(h) \subseteq P
  BY <1>2, <1>3, DownInduction
<1>5. QED
  BY <1>4 DEF P, TreeOf, Line

\* The node that is removed is a leaf: one entry less, and cwd is lost if it was there.
LEMMA DetachImplements ==
  ASSUME RInv, NEW p, IsDir(node, p), NEW name, NEW types,
         NEW n, n = Find(node, p, name, types), n # NULL, Children(node, n) = <<>>,
         Becomes(Detach(node, p, n))
  PROVE  Implements
<1> DEFINE g == Detach(node, p, n)
           s == Children(node, p)
           e == Line(node, n)
<1>1. /\ p \in Nodes /\ IsTree(node) /\ NamesOK(node) /\ IsDir(node, cwd)
  BY DEF IsDir, RInv, IInv, Usable
<1>2. PICK i \in 1 .. Len(s) : n = s[i]
  BY <1>1, FindProperties
<1>3. IsTree(g) /\ DirsStay(node, g) /\ Removed(node, g, p, i)
  BY <1>1, <1>2, DetachIsTree
<1> HIDE DEF g, s, e
<1>4. /\ n \in Inside(node) <=> p \in Inside(node)
      /\ Inside(g) = Inside(node) \ {n}
      /\ TreeOf(g) = IF p \in Inside(node) THEN TreeOf(node) \ {e} ELSE TreeOf(node)
      /\ \A m \in Inside(g) : PathOf(g, m) = PathOf(node, m)
  BY <1>1, <1>2, <1>3, RemovedKeeps DEF s, e
<1>5. Usable(g)
  BY <1>1, <1>3 DEF Usable, DirsStay
<1>6. NamesOK(g)
  <2>1. \A m \in Nodes : /\ g[m].type = node[m].type /\ g[m].name = node[m].name
                         /\ g[m].parentPtr = node[m].parentPtr
                         /\ node[m] = Blank <=> g[m] = Blank
    BY <1>3, BoundFacts DEF Removed, SameBut
  <2>2. QED
    BY <1>1, <2>1, Zenon DEF NamesOK
<1>7. RInv' /\ Tree' = TreeOf(g) /\ Wd' = WdOf(g, cwd) /\ file' = file
  BY <1>5, <1>6, BecomesKeeps DEF g
<1>8. Tree = TreeOf(node) /\ Wd = WdOf(node, cwd)
  BY MappedState DEF RInv
<1>9. CASE p \notin Inside(node)
  <2>1. Inside(g) = Inside(node)
    BY <1>4, <1>9
  <2>2. WdOf(g, cwd) = WdOf(node, cwd)
    BY <1>4, <2>1 DEF WdOf
  <2>3. QED
    BY <1>4, <1>7, <1>8, <1>9, <2>2, Stutters
<1>10. CASE p \in Inside(node)
  <2>1. n \in Inside(node) \ {root}
    BY <1>1, <1>2, <1>10, KidInside DEF s
  <2>2. e \in TreeOf(node) /\ e[2] = PathOf(node, n)
    BY <2>1 DEF TreeOf, e, Line
  <2>3. \A below \in TreeOf(node) : e[2] \notin PT!Above(below[2])
    BY <1>1, <2>1, <2>2, NothingBelow
  <2>4. WdOf(g, cwd) = IF WdOf(node, cwd) = e[2] THEN <<"/">> ELSE WdOf(node, cwd)
    <3>1. CASE cwd \notin Inside(node)
      BY <1>4, <3>1 DEF WdOf
    <3>2. CASE cwd = n
      BY <1>4, <2>1, <2>2, <3>2 DEF WdOf
    <3>3. CASE cwd \in Inside(node) /\ cwd # n
      <4>1. PathOf(node, cwd) # e[2]
        BY <1>1, <2>1, <2>2, <3>3, PathsAreUnique
      <4>2. QED
        BY <1>4, <3>3, <4>1 DEF WdOf
    <3>4. QED
      BY <3>1, <3>2, <3>3
  <2>5. PT!Delete(e)
    BY <1>4, <1>7, <1>8, <1>10, <2>3, <2>4 DEF PT!Delete, PT!LOST
  <2>6. e \in Tree \ Tree'
    BY <1>4, <1>7, <1>8, <1>10, <2>2
  <2>7. PT!Next
    BY <2>5, <2>6 DEF PT!Next
  <2>8. QED
    BY <1>7, <2>7 DEF Implements
<1>11. QED
  BY <1>9, <1>10

\* When the program starts, there are no paths.
LEMMA NewTreeIs ==
  NamesOK(NewTree) /\ TreeOf(NewTree) = {} /\ WdOf(NewTree, root) = <<>>
<1>1. IsTree(NewTree) /\ root \in Nodes
  BY NewTreeIsTree, BoundFacts
<1>2. \A n \in Nodes : NewTree[n] # Blank => n = root
  BY DEF NewTree
<1>3. NamesOK(NewTree)
  <2>1. NewTree[root].name = "/"
    BY <1>1 DEF NewTree, Blank
  <2>2. "/" # ""
    BY Zenon
  <2>3. QED
    BY <1>2, <2>1, <2>2, Zenon DEF NamesOK
<1>4. Inside(NewTree) = {root}
  <2>1. Inside(NewTree) \subseteq {root}
    BY <1>1, <1>2, InsideIs
  <2>2. QED
    BY <1>1, <2>1, InsideIs
<1>5. TreeOf(NewTree) = {} /\ WdOf(NewTree, root) = <<>>
  BY <1>1, <1>4, PathFacts DEF TreeOf, WdOf
<1>6. QED
  BY <1>3, <1>5

\* The program is started again, with the file or part of the tree in it.
LEMMA ExitImplements ==
  ASSUME RInv, Exit, FileOK(file'),
         ToSet(file') = ToSet(file) \/ PT!IsPart(ToSet(file'), Tree)
  PROVE  Implements
<1>1. node' = NewTree /\ cwd' = root
  BY DEF Exit
<1>2. IInv'
  BY ExitStep DEF FileOK
<1>3. NamesOK(NewTree) /\ TreeOf(NewTree) = {} /\ WdOf(NewTree, root) = <<>>
  BY NewTreeIs
<1>4. Tree' = TreeOf(node') /\ Wd' = WdOf(node', cwd')
  <2>1. Subtree(node', root) = Inside(node')
    BY <1>2, SubtreeIsInside DEF IInv, Usable
  <2>2. QED
    BY <2>1 DEF Tree, Wd, WdOf, TreeOf, Line
<1>5. PT!Restart
  BY <1>1, <1>3, <1>4 DEF PT!Restart
<1>6. RInv'
  BY <1>1, <1>2, <1>3 DEF RInv
<1>7. QED
  BY <1>5, <1>6 DEF Implements, PT!Next

LEMMA RmdirImplements ==
  ASSUME RInv, NEW path, IsPath(path), Rmdir(path)
  PROVE  Implements
<1> DEFINE p == Walk(node, RmdirStart(path), dirname(path))
           n == Find(node, p, basename(path), {"D"})
<1>1. p # NULL /\ n # NULL /\ Becomes(Detach(node, p, n)) /\ node[n].childPtr = NULL
  BY DEF Rmdir
<1>2. DirOrNull(node, p) /\ IsTree(node)
  BY WalkProperties, StartIsDir, NamesOfPath DEF RInv, IInv, Usable
<1> HIDE DEF p
<1>3. n \in Nodes
  BY <1>1, <1>2, FindProperties DEF DirOrNull, IsDir
<1>4. Children(node, n) = <<>>
  <2> HIDE DEF n
  <2>1. Kids(node, n, <<>>)
    BY <1>1, NoKids
  <2>2. QED
    BY <1>2, <1>3, <2>1, ChildrenAre DEF IsTree
<1>5. QED
  BY <1>1, <1>2, <1>4, DetachImplements DEF DirOrNull

LEMMA RmImplements ==
  ASSUME RInv, NEW path, IsPath(path), Rm(path)
  PROVE  Implements
<1> DEFINE p == Walk(node, Start(path), dirname(path))
           n == Find(node, p, basename(path), {"F"})
<1>1. /\ p # NULL
      /\ (Exit /\ UNCHANGED file) \/ (n # NULL /\ Becomes(Detach(node, p, n)))
  BY DEF Rm
<1>2. DirOrNull(node, p) /\ IsTree(node)
  BY WalkProperties, StartIsDir, NamesOfPath DEF RInv, IInv, Usable
<1> HIDE DEF p
<1>3. CASE Exit /\ UNCHANGED file
  BY <1>3, ExitImplements DEF RInv
<1>4. CASE n # NULL /\ Becomes(Detach(node, p, n))
  <2>1. n \in Nodes /\ node[n].type = "F"
    BY <1>1, <1>2, <1>4, FindProperties DEF DirOrNull, IsDir
  <2>2. Children(node, n) = <<>>
    <3> HIDE DEF n
    <3>1. Kids(node, n, Children(node, n))
      BY <1>2, <2>1, KidsAre
    <3>2. QED
      BY <2>1, <3>1 DEF Kids
  <2>3. QED
    BY <1>1, <1>2, <1>4, <2>2, DetachImplements DEF DirOrNull
<1>5. QED
  BY <1>1, <1>3, <1>4

\* cd does not leave the tree.
LEMMA CdStepStaysInside ==
  ASSUME IsTree(node), NEW n \in Inside(node) \cup {NULL, CRASH}, NEW name
  PROVE  CdStep(n, name) \in Inside(node) \cup {NULL, CRASH}
<1>1. CASE n \in {NULL, CRASH}
  BY <1>1 DEF CdStep
<1>2. CASE n \in Inside(node) \ {NULL, CRASH} /\ name = ".."
  <2>1. Above(n) \in Inside(node) \cup {CRASH}
    BY <1>2, InsideIs DEF Above
  <2>2. QED
    BY <1>2, <2>1 DEF CdStep
<1>3. CASE n \in Inside(node) \ {NULL, CRASH} /\ name # ".."
  <2>1. n \in Nodes
    BY <1>3, InsideIs
  <2>2. \/ Find(node, n, name, {"D"}) = NULL
        \/ \E i \in 1 .. Len(Children(node, n)) : Children(node, n)[i] = Find(node, n, name, {"D"})
    BY <2>1, FindProperties
  <2>3. Find(node, n, name, {"D"}) \in Inside(node) \cup {NULL}
    BY <1>3, <2>2, KidInside
  <2>4. QED
    BY <1>3, <2>3 DEF CdStep
<1>4. QED
  BY <1>1, <1>2, <1>3

\* cd goes to a directory of the tree, or stays lost outside it.
LEMMA CdImplements ==
  ASSUME RInv, NEW path, IsPath(path), Cd(path)
  PROVE  Implements
<1> DEFINE N == Len(path.names)
<1>1. N \in Nat /\ IsTree(node) /\ IsDir(node, cwd)
  BY DEF IsPath, RInv, IInv, Usable
<1>2. PICK at, to :
        /\ at[0] = Start(path) /\ \A k \in 1 .. N : at[k] = CdStep(at[k - 1], path.names[k])
        /\ to = root \/ to = at[N]
        /\ \/ Exit /\ UNCHANGED file
           \/ to \in Nodes /\ cwd' = to /\ node' = Tidy(node, to) /\ UNCHANGED file
  BY <1>1, CdTurns
<1> HIDE DEF N
<1>3. CASE Exit /\ UNCHANGED file
  BY <1>3, ExitImplements DEF RInv
<1>4. CASE to \in Nodes /\ cwd' = to /\ node' = Tidy(node, to) /\ UNCHANGED file
  <2>1. cwd \in Inside(node) => to \in Inside(node)
    <3>1. SUFFICES ASSUME cwd \in Inside(node) PROVE to \in Inside(node)
      OBVIOUS
    <3> DEFINE T == {k \in Nat : at[k] \in Inside(node) \cup {NULL, CRASH}}
    <3>2. 0 \in T
      BY <1>1, <1>2, <3>1, InsideIs DEF Start
    <3>3. ASSUME NEW k \in 1 .. N, k - 1 \in T
          PROVE  k \in T
      BY <1>1, <1>2, <3>3, CdStepStaysInside
    <3> HIDE DEF T
    <3>4. N \in T
      BY <1>1, <3>2, <3>3, LoopInduction
    <3>5. NULL \notin Nodes /\ CRASH \notin Nodes
      BY BoundFacts DEF CRASH, Nodes
    <3>6. QED
      BY <1>1, <1>2, <1>4, <3>4, <3>5, InsideIs DEF T
  <2>2. IInv'
    <3>1. Cd(path) /\ IInv
      BY DEF RInv
    <3>2. QED
      BY <3>1, CdKeepsTree
  <2>3. IsDir(node, to)
    <3>1. IsDir(node', to)
      BY <1>4, <2>2 DEF IInv, Usable
    <3>2. to \in Live(node, to) /\ IsHeap(node)
      BY <1>1, <1>4, LiveIsClosed DEF IsTree
    <3>3. node'[to].type = node[to].type
      BY <1>1, <1>4, <3>2, TidiedNode
    <3>4. QED
      BY <3>1, <3>3 DEF IsDir
  <2> DEFINE t == Tidy(node, to)
  <2>4. /\ Inside(t) = Inside(node) /\ TreeOf(t) = TreeOf(node)
        /\ \A n \in Inside(node) : PathOf(t, n) = PathOf(node, n)
    BY <1>1, <2>3, TidyKeeps
  <2>5. NamesOK(t)
    BY <1>1, <1>4, TidyKeepsNames DEF RInv
  <2>6. RInv'
    BY <1>4, <2>2, <2>5 DEF RInv
  <2>7. Tree' = TreeOf(node) /\ Wd' = WdOf(node, to)
    <3>1. Subtree(node', root) = Inside(node')
      BY <2>2, SubtreeIsInside DEF IInv, Usable
    <3>2. Tree' = TreeOf(node') /\ Wd' = WdOf(node', cwd')
      BY <3>1 DEF Tree, Wd, WdOf, TreeOf, Line
    <3>3. WdOf(t, to) = WdOf(node, to)
      BY <2>4 DEF WdOf
    <3>4. QED
      BY <1>4, <2>4, <3>2, <3>3
  <2>8. Tree = TreeOf(node) /\ Wd = WdOf(node, cwd)
    BY MappedState DEF RInv
  <2>9. PT!IsDir(Tree, Wd') \/ (Wd = PT!LOST /\ Wd' = PT!LOST)
    <3>1. CASE to \in Inside(node)
      <4>1. PT!IsDir(TreeOf(node), PathOf(node, to))
        BY <1>1, <2>3, <3>1, DirEntries
      <4>2. QED
        BY <2>7, <2>8, <3>1, <4>1 DEF WdOf
    <3>2. CASE to \notin Inside(node)
      BY <2>1, <2>7, <2>8, <3>2 DEF WdOf, PT!LOST
    <3>3. QED
      BY <3>1, <3>2
  <2>10. PT!ChangeDir
    BY <1>4, <2>7, <2>8, <2>9 DEF PT!ChangeDir
  <2>11. QED
    BY <2>6, <2>10 DEF Implements, PT!Next
<1>5. QED
  BY <1>2, <1>3, <1>4

\* What save writes: the tree, and every part of it that may be there when it is killed.
LEMMA SavedIs ==
  ASSUME RInv
  PROVE  LET lines == preOrderWrite(node, node[root].childPtr)
         IN  /\ FileOK(lines) /\ ToSet(lines) = Tree
             /\ \A k \in 0 .. Len(lines) :
                  FileOK(SubSeq(lines, 1, k)) /\ PT!IsPart(ToSet(SubSeq(lines, 1, k)), Tree)
<1> DEFINE lines == preOrderWrite(node, node[root].childPtr)
<1>1. FileOK(lines) /\ ToSet(lines) = TreeOf(node)
  BY WrittenIsOK DEF RInv, IInv, Usable
<1>2. Tree = TreeOf(node)
  BY MappedState DEF RInv
<1> HIDE DEF lines
<1>3. ASSUME NEW k \in 0 .. Len(lines)
      PROVE  FileOK(SubSeq(lines, 1, k)) /\ PT!IsPart(ToSet(SubSeq(lines, 1, k)), Tree)
  <2>1. FileOK(SubSeq(lines, 1, k)) /\ ToSet(SubSeq(lines, 1, k)) \subseteq Tree
    BY <1>1, <1>2, PrefixIsOK
  <2>2. SubSeq(lines, 1, k) \in Seq(Lines) /\ Ordered(SubSeq(lines, 1, k), <<>>)
    BY <2>1 DEF FileOK
  <2>3. QED
    BY <2>1, <2>2, OrderedIsPart
<1>4. QED
  BY <1>1, <1>2, <1>3 DEF lines

LEMMA SaveImplements ==
  ASSUME RInv, Save
  PROVE  Implements
<1> DEFINE lines == preOrderWrite(node, node[root].childPtr)
<1>1. file' = lines /\ node' = node /\ cwd' = cwd
  BY DEF Save
<1>2. FileOK(lines) /\ ToSet(lines) = Tree
  BY SavedIs
<1> HIDE DEF lines
<1>3. RInv'
  BY <1>1, <1>2 DEF RInv, IInv, Usable, FileOK
<1>4. Tree' = Tree /\ Wd' = Wd
  BY <1>1 DEF Tree, Wd
<1>5. PT!Save
  BY <1>1, <1>2, <1>4 DEF PT!Save
<1>6. QED
  BY <1>3, <1>5 DEF Implements, PT!Next

LEMMA EndImplements ==
  ASSUME RInv, Quit \/ Kill
  PROVE  Implements
<1> DEFINE lines == preOrderWrite(node, node[root].childPtr)
<1>1. /\ Exit
      /\ \/ file' = file \/ file' = lines
         \/ \E k \in 0 .. Len(lines) : file' = SubSeq(lines, 1, k)
  BY DEF Quit, Kill
<1>2. /\ FileOK(lines) /\ ToSet(lines) = Tree
      /\ \A k \in 0 .. Len(lines) :
           FileOK(SubSeq(lines, 1, k)) /\ PT!IsPart(ToSet(SubSeq(lines, 1, k)), Tree)
  BY SavedIs
<1> HIDE DEF lines
<1>3. PT!IsPart(ToSet(lines), Tree)
  BY <1>2, OrderedIsPart DEF FileOK
<1>4. FileOK(file') /\ (ToSet(file') = ToSet(file) \/ PT!IsPart(ToSet(file'), Tree))
  BY <1>1, <1>2, <1>3 DEF RInv
<1>5. QED
  BY <1>1, <1>4, ExitImplements

\* Every step of Lab2 is one of PathTree, or leaves the paths.
LEMMA StepImplements ==
  ASSUME RInv, [Next]_vars
  PROVE  Implements
<1>0. \A path \in Paths \cup CdPaths : IsPath(path)
  BY PathsArePaths
<1>1. ASSUME NEW path \in Paths, Mkdir(path) PROVE Implements
  BY <1>1, MkdirImplements
<1>2. ASSUME NEW path \in Paths, Rmdir(path) PROVE Implements
  BY <1>0, <1>2, RmdirImplements
<1>3. ASSUME NEW path \in Paths, Creat(path) PROVE Implements
  BY <1>3, CreatImplements
<1>4. ASSUME NEW path \in Paths, Rm(path) PROVE Implements
  BY <1>0, <1>4, RmImplements
<1>5. ASSUME NEW path \in CdPaths, Cd(path) PROVE Implements
  BY <1>0, <1>5, CdImplements
<1>6. CASE Save
  BY <1>6, SaveImplements
<1>7. CASE Reload
  BY <1>7, ReloadImplements DEF Implements, PT!Next
<1>8. CASE Quit \/ Kill
  BY <1>8, EndImplements
<1>9. CASE UNCHANGED vars
  <2>1. RInv' /\ Tree' = Tree /\ Wd' = Wd /\ file' = file
    BY <1>9 DEF vars, RInv, IInv, Usable, Tree, Wd
  <2>2. QED
    BY <2>1, Stutters
<1>10. QED
  BY <1>1, <1>2, <1>3, <1>4, <1>5, <1>6, <1>7, <1>8, <1>9 DEF Next

LEMMA InitImplements == Init => RInv /\ PT!Init
<1>1. SUFFICES ASSUME Init PROVE RInv /\ PT!Init
  OBVIOUS
<1>2. IInv /\ node = NewTree /\ cwd = root /\ file = <<>>
  <2>1. IInv
    BY <1>1, InitIsUsable
  <2>2. QED
    BY <1>1, <2>1 DEF Init
<1>3. NamesOK(NewTree) /\ TreeOf(NewTree) = {} /\ WdOf(NewTree, root) = <<>>
  BY NewTreeIs
<1>4. FileOK(<<>>)
  <2>1. <<>> \in Seq(Lines) /\ Len(<<>>) = 0
    OBVIOUS
  <2>2. QED
    BY <2>1 DEF FileOK, Ordered
<1>5. Tree = TreeOf(node) /\ Wd = WdOf(node, cwd)
  BY <1>2, MappedState
<1>6. ToSet(<<>>) = {}
  BY DEF ToSet
<1>7. QED
  BY <1>2, <1>3, <1>4, <1>5, <1>6 DEF RInv, PT!Init

(***************************************************************************)
(* Lab2's commands implement PathTree: each of them makes, removes or      *)
(* moves to one path, adds the saved ones that fit, or starts again, and   *)
(* none does anything else to the paths; what save writes is the tree, and *)
(* what is left of it when it is killed has its directories.               *)
(***************************************************************************)
THEOREM Refinement == Spec => ImplementsPathTree
<1>1. Init => RInv /\ PT!Init
  BY InitImplements
<1>2. RInv /\ [Next]_vars => RInv' /\ [PT!Next]_(PT!vars)
  BY StepImplements DEF Implements
<1>3. QED
  BY <1>1, <1>2, PTL DEF Spec, ImplementsPathTree, PT!Spec
=============================================================================
