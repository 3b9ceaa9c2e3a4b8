---------------------------- MODULE Ext2Proofs ----------------------------
(***************************************************************************)
(* Proofs about the file system program: the references of the minode      *)
(* table, through every command on names (Ext2Shell) and on files          *)
(* (OpenFiles), for every size of disk and table and every set of commands *)
(* and paths.                                                              *)
(*                                                                         *)
(* A handler is a composition of operators from an fs to an fs, so what is *)
(* said of them composes too.  Each leaves the references as it found them *)
(* (Balanced), adds one of a slot (Adds), or leaves some more (Keeps); cd  *)
(* exchanges one (Moved).  A handler that takes and puts back is Balanced  *)
(* (PutBack, PutBackOlder), and so on by chains.  Loops are functions on   *)
(* the number of turns: TurnsExist says that they have values, and         *)
(* LoopInduction carries what a turn preserves through all of them.        *)
(*                                                                         *)
(* The invariants then say who the references are for: root, cwd and each  *)
(* descriptor (Covered), and nobody else when no command that keeps a      *)
(* reference is typed (Exact).                                             *)
(***************************************************************************)
EXTENDS OpenFiles, FiniteSetTheorems, WellFoundedInduction, TLAPS

-----------------------------------------------------------------------------
(* What an fs is, and steps that change no slot's reference or inode.      *)

IsInode(x) == DOMAIN x = {"type", "links", "blk", "size"}

IsMinode(m) ==
  /\ DOMAIN m = {"refCount", "ino", "dirty", "INODE"}
  /\ m.refCount \in Int
  /\ IsInode(m.INODE)

Fields == {"imap", "bmap", "freeInodes", "freeBlocks", "inode", "block", "minode",
           "root", "cwd", "ok"}

IsFs(f) ==
  /\ DOMAIN f = Fields
  /\ DOMAIN f.minode = Slots /\ \A s \in Slots : IsMinode(f.minode[s])
  /\ DOMAIN f.inode = Inodes /\ \A i \in Inodes : IsInode(f.inode[i])
  /\ f.root \in Slots /\ f.cwd \in Slots

\* No command that is typed makes something else of a file.
FilesStay == Commands \cap {"mkdir", "symlink"} = {}
FileStays(f, g, s) ==
  FilesStay /\ f.minode[s].INODE.type = "reg" => g.minode[s].INODE.type = "reg"

\* g has the slots of f.
SameSlots(f, g) ==
  /\ IsFs(g)
  /\ g.root = f.root /\ g.cwd = f.cwd
  /\ g.ok => f.ok
  /\ \A s \in Slots : /\ g.minode[s].refCount = f.minode[s].refCount
                      /\ g.minode[s].ino = f.minode[s].ino
                      /\ FileStays(f, g, s)

LEMMA RequireSame ==
  ASSUME NEW f, IsFs(f), NEW c
  PROVE  SameSlots(f, Require(f, c))
BY DEF SameSlots, FileStays, IsFs, Fields, Require

LEMMA iallocSame ==
  ASSUME NEW f, IsFs(f)
  PROVE  SameSlots(f, ialloc(f))
<1> DEFINE i == NextInode(f)
<1> HIDE DEF i
<1>1. CASE i = 0
  BY <1>1, RequireSame DEF ialloc, i
<1>2. CASE i # 0
  <2>1. ialloc(f) = [f EXCEPT !.imap = @ \cup {i}, !.freeInodes = @ - 1]
    BY <1>2 DEF ialloc, i
  <2>2. QED
    BY <2>1 DEF SameSlots, FileStays, IsFs, Fields
<1>3. QED
  BY <1>1, <1>2

LEMMA ballocSame ==
  ASSUME NEW f, IsFs(f)
  PROVE  SameSlots(f, balloc(f))
<1> DEFINE b == NextBlock(f)
<1> HIDE DEF b
<1>1. CASE b = 0
  BY <1>1, RequireSame DEF balloc, b
<1>2. CASE b # 0
  <2>1. balloc(f) = [f EXCEPT !.bmap = @ \cup {b}, !.freeBlocks = @ - 1, !.block[b] = <<>>]
    BY <1>2 DEF balloc, b
  <2>2. QED
    BY <2>1 DEF SameSlots, FileStays, IsFs, Fields
<1>3. QED
  BY <1>1, <1>2

LEMMA idallocSame ==
  ASSUME NEW f, IsFs(f), NEW i
  PROVE  SameSlots(f, idalloc(f, i))
BY DEF SameSlots, FileStays, IsFs, Fields, idalloc

LEMMA bdallocSame ==
  ASSUME NEW f, IsFs(f), NEW b
  PROVE  SameSlots(f, bdalloc(f, b))
BY DEF SameSlots, FileStays, IsFs, Fields, bdalloc

LEMMA SetDirtySame ==
  ASSUME NEW f, IsFs(f), NEW s
  PROVE  SameSlots(f, SetDirty(f, s))
BY DEF SameSlots, FileStays, IsFs, IsMinode, IsInode, Fields, SetDirty

\* iput(f, s) takes a reference from slot s, when there is one.
Given(f, g, s) ==
  /\ IsFs(g)
  /\ g.root = f.root /\ g.cwd = f.cwd
  /\ g.ok => f.ok
  /\ \A t \in Slots : /\ g.minode[t].ino = f.minode[t].ino
                      /\ FileStays(f, g, t)
                      /\ t # s => g.minode[t].refCount = f.minode[t].refCount
  /\ f.minode[s].refCount > 0 => g.minode[s].refCount = f.minode[s].refCount - 1
  /\ f.minode[s].refCount <= 0 => g.minode[s].refCount <= 0

LEMMA iputGives ==
  ASSUME NEW f, IsFs(f), NEW s \in Slots
  PROVE  Given(f, iput(f, s), s)
<1> DEFINE m == f.minode[s]
<1>1. IsMinode(m)
  BY DEF IsFs
<1> HIDE DEF m
<1>2. CASE m.refCount > 1 \/ ~m.dirty
  <2>1. iput(f, s) = [f EXCEPT !.minode[s].refCount = @ - 1]
    BY <1>2 DEF iput, m
  <2>2. QED
    BY <1>1, <2>1 DEF Given, FileStays, IsFs, IsMinode, IsInode, Fields, m
<1>3. CASE ~(m.refCount > 1 \/ ~m.dirty)
  <2> DEFINE h == Require(f, m.ino \in Inodes)
  <2>1. SameSlots(f, h)
    BY RequireSame
  <2> HIDE DEF h
  <2>2. iput(f, s) = [h EXCEPT !.minode[s].refCount = 0, !.inode[m.ino] = m.INODE]
    BY <1>3 DEF iput, m, h
  <2>3. QED
    BY <1>1, <1>3, <2>1, <2>2 DEF Given, FileStays, SameSlots, IsFs, IsMinode, IsInode, Fields, m
<1>4. QED
  BY <1>2, <1>3

LEMMA SizesFacts ==
  /\ NMINODES \in Nat /\ NMINODES >= 1 /\ NDirect \in Nat /\ NDirect >= 1
  /\ NInodes \in Nat /\ NBlocks \in Nat
BY SizesAssumption

\* The least element of a set of naturals.
LEMMA MinIsIn ==
  ASSUME NEW T \in SUBSET Nat, T # {}
  PROVE  Min(T) \in T /\ \A k \in T : Min(T) <= k
<1>1. PICK m \in T : \A k \in T : <<k, m>> \notin OpToRel(<, Nat)
  BY WFMin, NatLessThanWellFounded
<1>2. \A k \in T : ~(k < m)
  BY <1>1 DEF OpToRel
<1>3. \E n \in T : \A k \in T : n <= k
  BY <1>2
<1>4. QED
  BY <1>3 DEF Min

LEMMA SlotOfIsSlot ==
  ASSUME NEW f, NEW i
  PROVE  SlotOf(f, i) \in Slots
<1>1. Slots \in SUBSET Nat /\ 0 \in Slots
  BY SizesFacts DEF Slots
<1>2. Hits(f, i) \in SUBSET Slots /\ FreeSlots(f) \in SUBSET Slots
  BY DEF Hits, FreeSlots
<1>3. Hits(f, i) # {} => Min(Hits(f, i)) \in Slots
  BY <1>1, <1>2, MinIsIn
<1>4. FreeSlots(f) # {} => Min(FreeSlots(f)) \in Slots
  BY <1>1, <1>2, MinIsIn
<1>5. QED
  BY <1>1, <1>3, <1>4 DEF SlotOf

\* iget(f, i) adds a reference to slot s.
Taken(f, g, s, i) ==
  /\ IsFs(g)
  /\ g.root = f.root /\ g.cwd = f.cwd
  /\ g.ok => f.ok
  /\ \A t \in Slots \ {s} : /\ g.minode[t].refCount = f.minode[t].refCount
                            /\ g.minode[t].ino = f.minode[t].ino
                            /\ FileStays(f, g, t)
  /\ f.minode[s].refCount > 0 => /\ g.minode[s].ino = f.minode[s].ino
                                 /\ FileStays(f, g, s)
  /\ g.ok => /\ i \in Inodes
             /\ g.minode[s].ino = i
             /\ f.minode[s].refCount >= 0 => g.minode[s].refCount = f.minode[s].refCount + 1

\* No two slots in use hold one inode.
OneCopyOf(f) ==
  \A s, t \in Slots :
    f.minode[s].refCount > 0 /\ f.minode[t].refCount > 0 /\ f.minode[s].ino = f.minode[t].ino
      => s = t

LEMMA igetTakes ==
  ASSUME NEW f, IsFs(f), NEW i
  PROVE  /\ Taken(f, iget(f, i), SlotOf(f, i), i)
         /\ OneCopyOf(f) => OneCopyOf(iget(f, i))
<1> DEFINE s == SlotOf(f, i)
           none == Require(f, FALSE)
<1>0. s \in Slots
  BY SlotOfIsSlot
<1>a. IsMinode(f.minode[s])
  BY <1>0 DEF IsFs
<1>1. CASE i \notin Inodes \/ (Hits(f, i) = {} /\ FreeSlots(f) = {})
  <2>1. iget(f, i) = none
    BY <1>1 DEF iget
  <2>2. SameSlots(f, none)
    BY RequireSame
  <2>3. ~none.ok
    BY DEF Require, IsFs, Fields
  <2> HIDE DEF none, s
  <2>4. QED
    BY <1>0, <2>1, <2>2, <2>3 DEF Taken, FileStays, OneCopyOf, SameSlots, s
<1>2. CASE i \in Inodes /\ Hits(f, i) # {}
  <2>1. s \in Hits(f, i)
    <3>1. Hits(f, i) \in SUBSET Nat
      BY SizesFacts DEF Hits, Slots
    <3>2. QED
      BY <1>2, <3>1, MinIsIn DEF SlotOf
  <2>2. f.minode[s].refCount # 0 /\ f.minode[s].ino = i
    BY <2>1 DEF Hits
  <2>3. iget(f, i) = [f EXCEPT !.minode[s].refCount = @ + 1]
    BY <1>2 DEF iget
  <2> HIDE DEF s
  <2>4. Taken(f, iget(f, i), s, i)
    BY <1>0, <1>a, <1>2, <2>2, <2>3 DEF Taken, FileStays, IsFs, IsMinode, IsInode, Fields
  <2>5. \A t \in Slots : /\ iget(f, i).minode[t].ino = f.minode[t].ino
                         /\ iget(f, i).minode[t].refCount > 0 => f.minode[t].refCount > 0
    BY <1>0, <1>a, <2>2, <2>3 DEF IsFs, IsMinode, Fields
  <2>6. QED
    BY <2>4, <2>5 DEF OneCopyOf, s
<1>3. CASE i \in Inodes /\ Hits(f, i) = {} /\ FreeSlots(f) # {}
  <2>1. s \in FreeSlots(f)
    <3>1. FreeSlots(f) \in SUBSET Nat
      BY SizesFacts DEF FreeSlots, Slots
    <3>2. QED
      BY <1>3, <3>1, MinIsIn DEF SlotOf
  <2>2. f.minode[s].refCount <= 0
    BY <2>1 DEF FreeSlots
  <2> DEFINE m == [refCount |-> 1, ino |-> i, dirty |-> FALSE, INODE |-> f.inode[i]]
  <2>3. iget(f, i) = [f EXCEPT !.minode[s] = m]
    BY <1>3 DEF iget
  <2>4. IsMinode(m) /\ m.refCount = 1 /\ m.ino = i
    BY <1>3 DEF IsMinode, IsFs
  <2> HIDE DEF s, m
  <2>5. Taken(f, iget(f, i), s, i)
    BY <1>0, <1>a, <1>3, <2>2, <2>3, <2>4 DEF Taken, FileStays, IsFs, IsMinode, Fields
  <2>6. \A t \in Slots \ {s} : f.minode[t].refCount > 0 => f.minode[t].ino # i
    BY <1>3 DEF Hits, IsFs, IsMinode
  <2>7. iget(f, i).minode[s].ino = i
    BY <1>0, <2>3, <2>4 DEF IsFs, Fields
  <2>8. QED
    BY <2>5, <2>6, <2>7 DEF OneCopyOf, Taken, s
<1>4. QED
  BY <1>1, <1>2, <1>3

-----------------------------------------------------------------------------
(* Induction over the turns of a loop.                                     *)

LEMMA LoopInduction ==
  ASSUME NEW n \in Nat, NEW T, 0 \in T, \A k \in 1 .. n : k - 1 \in T => k \in T
  PROVE  n \in T
<1> DEFINE U == {k \in 0 .. n : k \notin T}
<1>1. SUFFICES ASSUME U # {} PROVE FALSE
  BY DEF U
<1>2. Min(U) \in U /\ \A k \in U : Min(U) <= k
  BY <1>1, MinIsIn
<1>3. PICK m \in U : \A k \in U : m <= k
  BY <1>2
<1>4. m \in 1 .. n /\ m - 1 \in 0 .. n /\ ~(m <= m - 1)
  BY <1>3
<1>5. m - 1 \in T
  BY <1>3, <1>4
<1>6. QED
  BY <1>3, <1>4, <1>5

\* A turn of one of the loops of the program, on x.
Turn(loop, c, x, k) ==
  IF loop = "free" THEN FreeBlock(x, c[k])
  ELSE IF loop = "walk" THEN Walk(x, c[k], k < Len(c))
  ELSE IF loop = "list" THEN (IF k > Len(c) THEN x ELSE Load(x, c[k].ino))
  ELSE IF loop = "flush" THEN Flush(x, k - 1)
  ELSE IF loop = "write" THEN WriteChunk(x, c.s, c.text)
  ELSE CopyChunk(x, c.from, c.to)

Turns(g, loop, c, start, n) ==
  g = [k \in 0 .. n |-> IF k = 0 THEN start ELSE Turn(loop, c, g[k - 1], k)]

\* A loop of n turns has its values.
LEMMA TurnsExist ==
  ASSUME NEW loop, NEW c, NEW start, NEW n \in Nat
  PROVE  \E g : Turns(g, loop, c, start, n)
<1> DEFINE T == {m \in Nat : \E g : Turns(g, loop, c, start, m)}
<1>1. 0 \in T
  <2>1. Turns([k \in 0 .. 0 |-> start], loop, c, start, 0)
    BY DEF Turns
  <2>2. QED
    BY <2>1
<1>2. ASSUME NEW m \in 1 .. n, m - 1 \in T
      PROVE  m \in T
  <2>1. PICK g : Turns(g, loop, c, start, m - 1)
    BY <1>2
  <2> DEFINE h == [k \in 0 .. m |-> IF k = 0 THEN start ELSE Turn(loop, c, g[k - 1], k)]
  <2>2. \A k \in 0 .. m - 1 : g[k] = h[k]
    BY <2>1 DEF Turns
  <2>3. \A k \in 0 .. m : k # 0 => k - 1 \in 0 .. m - 1
    OBVIOUS
  <2>4. \A k \in 0 .. m : h[k] = IF k = 0 THEN start ELSE Turn(loop, c, h[k - 1], k)
    BY <2>2, <2>3
  <2>5. h = [k \in 0 .. m |-> h[k]]
    OBVIOUS
  <2> HIDE DEF h
  <2>6. Turns(h, loop, c, start, m)
    BY <2>4, <2>5 DEF Turns
  <2>7. QED
    BY <2>6
<1> HIDE DEF T
<1>3. n \in T
  BY <1>1, <1>2, LoopInduction
<1>4. QED
  BY <1>3 DEF T

LEMMA FreeLoop ==
  ASSUME NEW f, NEW inode
  PROVE  \E g : /\ g[0] = f
                /\ \A k \in 1 .. NDirect : g[k] = FreeBlock(g[k - 1], inode.blk[k])
                /\ FreeBlocksOf(f, inode) = g[NDirect]
<1> DEFINE Freed(g) ==
             g = [k \in 0 .. NDirect |-> IF k = 0 THEN f ELSE FreeBlock(g[k - 1], inode.blk[k])]
           freed == CHOOSE g : Freed(g)
<1>1. PICK g : Turns(g, "free", inode.blk, f, NDirect)
  BY TurnsExist, SizesFacts
<1>2. Freed(g)
  BY <1>1 DEF Turns, Turn
<1>3. FreeBlocksOf(f, inode) = freed[NDirect]
  BY DEF FreeBlocksOf
<1>4. Freed(freed)
  <2> HIDE DEF Freed
  <2>1. QED
    BY <1>2
<1> HIDE DEF freed
<1>5. freed[0] = f /\ \A k \in 1 .. NDirect : freed[k] = FreeBlock(freed[k - 1], inode.blk[k])
  BY <1>4, SizesFacts
<1>6. QED
  BY <1>3, <1>5

-----------------------------------------------------------------------------
(* What the steps of a handler do to the references.                       *)

\* No path that is typed has two names (getino() would put the directory of
\* such a path back twice: the finding of the run Ext2HeldSlots).
ShortPaths ==
  \A path \in Paths \cup {p[1] : p \in Pairs} \cup {p[2] : p \in Pairs} :
    Len(path.names) <= 1

Sane(f, g) ==
  /\ IsFs(g)
  /\ OneCopyOf(f) => OneCopyOf(g)
  /\ g.root = f.root /\ g.cwd = f.cwd
  /\ g.ok => f.ok

Debtless(f) == \A s \in Slots : f.minode[s].refCount >= 0

\* What is said of the references on the way from f to g.
Counted(f, g) == ShortPaths /\ Debtless(f) /\ g.ok

InodesStay(f, g) ==
  \A s \in Slots : f.minode[s].refCount > 0 =>
    g.minode[s].ino = f.minode[s].ino /\ FileStays(f, g, s)

Balanced(f, g) ==
  /\ Sane(f, g)
  /\ Counted(f, g) => /\ InodesStay(f, g)
                      /\ \A t \in Slots : g.minode[t].refCount = f.minode[t].refCount

Adds(f, g, s) ==
  /\ Sane(f, g) /\ s \in Slots
  /\ Counted(f, g) => /\ InodesStay(f, g)
                      /\ \A t \in Slots : g.minode[t].refCount =
                           f.minode[t].refCount + IF t = s THEN 1 ELSE 0

LEMMA SameIsBalanced ==
  ASSUME NEW f, NEW g, SameSlots(f, g)
  PROVE  Balanced(f, g)
BY DEF SameSlots, Balanced, Sane, Counted, InodesStay, OneCopyOf

LEMMA RefsAreInts ==
  ASSUME NEW f, IsFs(f), NEW s \in Slots
  PROVE  f.minode[s].refCount \in Int
BY DEF IsFs, IsMinode

LEMMA SaneChain ==
  ASSUME NEW f, NEW g, NEW h, Sane(f, g), Sane(g, h)
  PROVE  Sane(f, h)
BY DEF Sane

LEMMA BalancedChain ==
  ASSUME NEW f, NEW g, NEW h, Balanced(f, g), Balanced(g, h)
  PROVE  Balanced(f, h)
BY DEF Sane, Balanced, Counted, Debtless, InodesStay, FileStays

LEMMA AddsThenBalanced ==
  ASSUME NEW f, NEW g, NEW h, NEW s, Adds(f, g, s), Balanced(g, h), IsFs(f)
  PROVE  Adds(f, h, s)
<1>1. Sane(f, h) /\ s \in Slots
  BY SaneChain DEF Adds, Balanced
<1>2. ASSUME Counted(f, h)
      PROVE  /\ InodesStay(f, h)
             /\ \A t \in Slots : h.minode[t].refCount =
                  f.minode[t].refCount + IF t = s THEN 1 ELSE 0
  BY <1>2, RefsAreInts DEF Sane, Adds, Balanced, Counted, Debtless, InodesStay, FileStays
<1>3. QED
  BY <1>1, <1>2 DEF Adds

LEMMA BalancedThenAdds ==
  ASSUME NEW f, NEW g, NEW h, NEW s, Balanced(f, g), Adds(g, h, s)
  PROVE  Adds(f, h, s)
<1>1. Sane(f, h) /\ s \in Slots
  BY SaneChain DEF Adds, Balanced
<1>2. QED
  BY <1>1 DEF Sane, Adds, Balanced, Counted, Debtless, InodesStay, FileStays

LEMMA iputIsSane ==
  ASSUME NEW f, IsFs(f), NEW s \in Slots
  PROVE  Sane(f, iput(f, s))
<1>1. Given(f, iput(f, s), s)
  BY iputGives
<1>2. QED
  BY <1>1, RefsAreInts DEF Given, Sane, OneCopyOf

\* A reference that was added is put back.
LEMMA PutBack ==
  ASSUME NEW f, NEW g, NEW s, IsFs(f), Adds(f, g, s)
  PROVE  Balanced(f, iput(g, s))
<1> DEFINE h == iput(g, s)
<1>1. s \in Slots /\ IsFs(g) /\ Sane(f, g)
  BY DEF Adds, Sane
<1>2. Given(g, h, s) /\ Sane(g, h)
  BY <1>1, iputGives, iputIsSane
<1> HIDE DEF h
<1>3. Sane(f, h)
  BY <1>1, <1>2, SaneChain
<1>4. ASSUME Counted(f, h)
      PROVE  InodesStay(f, h) /\ \A t \in Slots : h.minode[t].refCount = f.minode[t].refCount
  <2>1. InodesStay(f, g) /\ \A t \in Slots : g.minode[t].refCount =
          f.minode[t].refCount + IF t = s THEN 1 ELSE 0
    BY <1>2, <1>4 DEF Adds, Counted, Sane
  <2>2. \A t \in Slots : f.minode[t].refCount \in Int /\ f.minode[t].refCount >= 0
    BY <1>4, RefsAreInts DEF Counted, Debtless
  <2>3. InodesStay(f, h)
    BY <1>2, <2>1 DEF Given, InodesStay, FileStays
  <2>4. QED
    BY <1>1, <1>2, <2>1, <2>2, <2>3 DEF Given
<1>5. QED
  BY <1>3, <1>4 DEF Balanced, h

\* Of two references, the older is put back.
LEMMA PutBackOlder ==
  ASSUME NEW f, NEW g, NEW h, NEW r, NEW s, IsFs(f), Adds(f, g, r), Adds(g, h, s)
  PROVE  Adds(f, iput(h, r), s)
<1> DEFINE e == iput(h, r)
<1>1. r \in Slots /\ s \in Slots /\ IsFs(g) /\ IsFs(h) /\ Sane(f, g) /\ Sane(g, h)
  BY DEF Adds, Sane
<1>2. Given(h, e, r) /\ Sane(h, e)
  BY <1>1, iputGives, iputIsSane
<1> HIDE DEF e
<1>3. Sane(f, h) /\ Sane(f, e)
  BY <1>1, <1>2, SaneChain
<1>4. ASSUME Counted(f, e)
      PROVE  InodesStay(f, e) /\ \A t \in Slots : e.minode[t].refCount =
               f.minode[t].refCount + IF t = s THEN 1 ELSE 0
  <2>1. Counted(f, h) /\ Counted(f, g)
    BY <1>1, <1>2, <1>4 DEF Counted, Sane
  <2>2. InodesStay(f, g) /\ \A t \in Slots : g.minode[t].refCount =
          f.minode[t].refCount + IF t = r THEN 1 ELSE 0
    BY <2>1 DEF Adds
  <2>3. \A t \in Slots : f.minode[t].refCount \in Int /\ f.minode[t].refCount >= 0
    BY <1>4, RefsAreInts DEF Counted, Debtless
  <2>4. Counted(g, h)
    <3>1. Debtless(g)
      BY <2>2, <2>3 DEF Debtless
    <3>2. QED
      BY <2>1, <3>1 DEF Counted
  <2>5. InodesStay(g, h) /\ \A t \in Slots : h.minode[t].refCount =
          g.minode[t].refCount + IF t = s THEN 1 ELSE 0
    BY <2>4 DEF Adds
  <2>6. InodesStay(f, e)
    BY <1>2, <2>2, <2>3, <2>5 DEF Given, InodesStay, FileStays
  <2>7. QED
    BY <1>1, <1>2, <2>2, <2>3, <2>5, <2>6 DEF Given
<1>5. QED
  BY <1>1, <1>3, <1>4 DEF Adds, e

LEMMA igetAdds ==
  ASSUME NEW f, IsFs(f), NEW i
  PROVE  Adds(f, iget(f, i), SlotOf(f, i))
<1> DEFINE s == SlotOf(f, i)
           g == iget(f, i)
<1>1. Taken(f, g, s, i) /\ (OneCopyOf(f) => OneCopyOf(g)) /\ s \in Slots
  BY igetTakes, SlotOfIsSlot
<1> HIDE DEF s, g
<1>2. Sane(f, g)
  BY <1>1 DEF Taken, Sane
<1>3. ASSUME Counted(f, g)
      PROVE  InodesStay(f, g) /\ \A t \in Slots : g.minode[t].refCount =
               f.minode[t].refCount + IF t = s THEN 1 ELSE 0
  BY <1>1, <1>3, RefsAreInts DEF Taken, Counted, Debtless, InodesStay
<1>4. QED
  BY <1>1, <1>2, <1>3 DEF Adds, s, g

-----------------------------------------------------------------------------
(* The operators of Ext2.                                                  *)

LEMMA NothingIsBalanced ==
  ASSUME NEW f, IsFs(f)
  PROVE  Balanced(f, f)
BY DEF Balanced, Sane, InodesStay, FileStays

LEMMA ChangedSame ==
  ASSUME NEW f, IsFs(f), NEW s, NEW inode, IsInode(inode), FilesStay => inode.type = "reg"
  PROVE  SameSlots(f, Changed(f, s, inode))
BY DEF SameSlots, FileStays, IsFs, IsMinode, Fields, Changed

LEMMA RewriteIsBalanced ==
  ASSUME NEW f, IsFs(f), NEW i, NEW inode, IsInode(inode), FilesStay => inode.type = "reg"
  PROVE  Balanced(f, Rewrite(f, i, inode))
<1> DEFINE s == SlotOf(f, i)
           g == iget(f, i)
           h == Changed(g, s, inode)
<1>1. Adds(f, g, s)
  BY igetAdds
<1>2. Balanced(g, h)
  <2>1. IsFs(g)
    BY <1>1 DEF Adds, Sane
  <2>2. QED
    BY <2>1, ChangedSame, SameIsBalanced
<1> HIDE DEF g, h
<1>3. Balanced(f, iput(h, s))
  BY <1>1, <1>2, AddsThenBalanced, PutBack
<1>4. QED
  BY <1>3 DEF Rewrite, g, h

LEMMA MarkDirtyIsBalanced ==
  ASSUME NEW f, IsFs(f), NEW i
  PROVE  Balanced(f, MarkDirty(f, i))
<1> DEFINE s == SlotOf(f, i)
           g == iget(f, i)
           h == SetDirty(g, s)
<1>1. Adds(f, g, s)
  BY igetAdds
<1>2. Balanced(g, h)
  <2>1. IsFs(g)
    BY <1>1 DEF Adds, Sane
  <2>2. QED
    BY <2>1, SetDirtySame, SameIsBalanced
<1> HIDE DEF g, h
<1>3. Balanced(f, iput(h, s))
  BY <1>1, <1>2, AddsThenBalanced, PutBack
<1>4. QED
  BY <1>3 DEF MarkDirty, g, h

LEMMA LoadIsBalanced ==
  ASSUME NEW f, IsFs(f), NEW i
  PROVE  Balanced(f, Load(f, i))
BY igetAdds, PutBack DEF Load

LEMMA FreeBlockSame ==
  ASSUME NEW f, IsFs(f), NEW b
  PROVE  SameSlots(f, FreeBlock(f, b))
<1>1. SameSlots(f, f)
  BY DEF SameSlots, FileStays
<1>2. SameSlots(f, bdalloc(f, b))
  BY bdallocSame
<1>3. QED
  BY <1>1, <1>2 DEF FreeBlock

LEMMA FreeBlocksBalanced ==
  ASSUME NEW f, IsFs(f), NEW inode
  PROVE  Balanced(f, FreeBlocksOf(f, inode))
<1>1. PICK g : /\ g[0] = f
               /\ \A k \in 1 .. NDirect : g[k] = FreeBlock(g[k - 1], inode.blk[k])
               /\ FreeBlocksOf(f, inode) = g[NDirect]
  BY FreeLoop
<1> DEFINE T == {k \in 0 .. NDirect : Balanced(f, g[k])}
<1>2. 0 \in T
  BY <1>1, NothingIsBalanced, SizesFacts
<1>3. ASSUME NEW k \in 1 .. NDirect, k - 1 \in T
      PROVE  k \in T
  <2>1. Balanced(f, g[k - 1])
    BY <1>3
  <2>2. IsFs(g[k - 1])
    BY <2>1 DEF Balanced, Sane
  <2>3. Balanced(g[k - 1], g[k])
    BY <1>1, <2>2, FreeBlockSame, SameIsBalanced
  <2>4. k \in 0 .. NDirect
    BY SizesFacts
  <2>5. QED
    BY <2>1, <2>3, <2>4, BalancedChain
<1>4. NDirect \in T
  <2> HIDE DEF T
  <2>1. QED
    BY <1>2, <1>3, SizesFacts, LoopInduction
<1>5. QED
  BY <1>1, <1>4

LEMMA AddEntrySame ==
  ASSUME NEW f, IsFs(f), NEW s, NEW name, NEW ino
  PROVE  SameSlots(f, AddEntry(f, s, name, ino))
<1> DEFINE inode == f.minode[s].INODE
           n == Cardinality(Scanned(inode))
           last == inode.blk[n]
           b == NextBlock(f)
           e == Entry(name, ino)
           none == Require(f, FALSE)
           g == [f EXCEPT !.block[last] = Append(@, e)]
           h == [balloc(f) EXCEPT !.block[b] = <<e>>, !.minode[s].INODE.blk[n + 1] = b]
<1>1. SameSlots(f, none)
  BY RequireSame
<1>2. SameSlots(f, g)
  <2> HIDE DEF last, e
  <2>1. QED
    BY DEF SameSlots, FileStays, IsFs, Fields
<1>3. SameSlots(f, h)
  <2> DEFINE a == balloc(f)
  <2>1. SameSlots(f, a)
    BY ballocSame
  <2> HIDE DEF a, n, b, e
  <2>2. h = [a EXCEPT !.block[b] = <<e>>, !.minode[s].INODE.blk[n + 1] = b]
    BY DEF a
  <2> HIDE DEF h
  <2>3. QED
    BY <2>1, <2>2 DEF SameSlots, FileStays, IsFs, IsMinode, IsInode, Fields
<1>4. AddEntry(f, s, name, ino) \in {none, g, h}
  BY DEF AddEntry
<1> HIDE DEF none, g, h
<1>5. QED
  BY <1>1, <1>2, <1>3, <1>4

LEMMA rm_childSame ==
  ASSUME NEW f, IsFs(f), NEW s, NEW name
  PROVE  SameSlots(f, rm_child(f, s, name))
<1> DEFINE inode == f.minode[s].INODE
           in(j) == \E q \in DOMAIN f.block[inode.blk[j]] :
                      f.block[inode.blk[j]][q].name = name
           found == {j \in Scanned(inode) : in(j)}
           k == Min(found)
           b == inode.blk[k]
           p == SelectInSeq(f.block[b], LAMBDA x : x.name = name)
           g == [bdalloc(f, b) EXCEPT !.minode[s].INODE.blk[k] = 0]
           h == [f EXCEPT !.block[b] = RemoveAt(@, p)]
<1>1. SameSlots(f, f)
  BY DEF SameSlots, FileStays
<1>2. SameSlots(f, g)
  <2> DEFINE a == bdalloc(f, b)
  <2>1. SameSlots(f, a)
    BY bdallocSame
  <2> HIDE DEF a, k
  <2>2. g = [a EXCEPT !.minode[s].INODE.blk[k] = 0]
    BY DEF a
  <2> HIDE DEF g
  <2>3. QED
    BY <2>1, <2>2 DEF SameSlots, FileStays, IsFs, IsMinode, IsInode, Fields
<1>3. SameSlots(f, h)
  <2> HIDE DEF b, p
  <2>1. QED
    BY DEF SameSlots, FileStays, IsFs, Fields
<1>4. rm_child(f, s, name) \in {f, g, h}
  BY DEF rm_child
<1> HIDE DEF g, h
<1>5. QED
  BY <1>1, <1>2, <1>3, <1>4

-----------------------------------------------------------------------------
(* getino(): sane for every path, and balanced when it walks through no    *)
(* directory on its way.                                                   *)

IsPath(path) == DOMAIN path = {"abs", "names"} /\ \E S : path.names \in Seq(S)
TypedPath(path) == IsPath(path) /\ (ShortPaths => Len(path.names) <= 1)

LEMMA PathIsPath ==
  ASSUME NEW path \in Path
  PROVE  IsPath(path)
BY DEF Path, IsPath

WalkFrom(f, path) ==
  [fs |-> f, ino |-> f.minode[IF path.abs THEN f.root ELSE f.cwd].ino, mip |-> NULL,
   at |-> IF path.abs THEN f.root ELSE f.cwd]

IsWalked(g, f, path, n) ==
  /\ g[0] = WalkFrom(f, path)
  /\ \A k \in 1 .. n : g[k] = Walk(g[k - 1], path.names[k], k < n)
  /\ getino(f, path) = Arrived(g[n])

LEMMA WalkLoop ==
  ASSUME NEW f, NEW path, NEW n \in Nat, n = Len(path.names)
  PROVE  \E g : IsWalked(g, f, path, n)
<1> DEFINE Walked(g) ==
             g = [k \in 0 .. n |-> IF k = 0 THEN WalkFrom(f, path)
                                   ELSE Walk(g[k - 1], path.names[k], k < n)]
           walked == CHOOSE g : Walked(g)
<1>1. PICK g : Turns(g, "walk", path.names, WalkFrom(f, path), n)
  BY TurnsExist
<1>2. Walked(g)
  BY <1>1 DEF Turns, Turn
<1>3. getino(f, path) = Arrived(walked[n])
  BY DEF getino, WalkFrom
<1>4. Walked(walked)
  <2> HIDE DEF Walked
  <2>1. QED
    BY <1>2
<1> HIDE DEF walked
<1>5. /\ walked[0] = WalkFrom(f, path)
      /\ \A k \in 1 .. n : walked[k] = Walk(walked[k - 1], path.names[k], k < n)
  BY <1>4, SMTT(30)
<1>6. QED
  BY <1>3, <1>5 DEF IsWalked

IsWalk(f, w) ==
  /\ DOMAIN w = {"fs", "ino", "mip", "at"}
  /\ Sane(f, w.fs)
  /\ w.mip \in Slots \cup {NULL}

LEMMA ReleasedIsSane ==
  ASSUME NEW f, NEW w, IsWalk(f, w)
  PROVE  Sane(f, Released(w))
<1>1. CASE w.mip = NULL
  BY <1>1 DEF IsWalk, Released
<1>2. CASE w.mip # NULL
  <2>1. w.mip \in Slots /\ IsFs(w.fs)
    BY <1>2 DEF IsWalk, Sane
  <2>2. Sane(w.fs, iput(w.fs, w.mip))
    BY <2>1, iputIsSane
  <2>3. QED
    BY <1>2, <2>2, SaneChain DEF IsWalk, Released
<1>3. QED
  BY <1>1, <1>2

LEMMA WalkIsSane ==
  ASSUME NEW f, NEW w, IsWalk(f, w), NEW name, NEW more
  PROVE  IsWalk(f, Walk(w, name, more))
<1> DEFINE dir == w.fs.minode[w.at].INODE
           e == Require(Released(w), dir.type # "lnk")
           ino == search(w.fs, name, dir)
<1>1. Sane(f, e)
  <2>1. Sane(f, Released(w)) /\ IsFs(Released(w))
    BY ReleasedIsSane DEF Sane
  <2>2. Sane(Released(w), e)
    BY <2>1, RequireSame, SameIsBalanced DEF Balanced
  <2> HIDE DEF e
  <2>3. QED
    BY <2>1, <2>2, SaneChain
<1>2. Walk(w, name, more) \in {w, Onward(w, e, ino, more)}
  BY DEF Walk
<1> HIDE DEF e, ino
<1>3. Sane(f, iget(e, ino)) /\ SlotOf(e, ino) \in Slots
  <2>1. Sane(e, iget(e, ino))
    BY <1>1, igetAdds DEF Sane, Adds
  <2>2. QED
    BY <1>1, <2>1, SaneChain, SlotOfIsSlot
<1>4. IsWalk(f, Onward(w, e, ino, more))
  BY <1>1, <1>3 DEF IsWalk, Onward
<1>5. QED
  BY <1>2, <1>4

LEMMA getinoIsBalanced ==
  ASSUME NEW f, IsFs(f), NEW path, TypedPath(path)
  PROVE  Balanced(f, getino(f, path).fs)
<1>1. PICK n \in Nat : n = Len(path.names)
  BY DEF TypedPath, IsPath
<1>a. ShortPaths => n <= 1
  BY <1>1 DEF TypedPath
<1>2. ShortPaths => n \in {0, 1}
  BY <1>a
<1>b. PICK g : IsWalked(g, f, path, n)
  BY <1>1, WalkLoop
<1>3. /\ g[0] = WalkFrom(f, path)
      /\ \A k \in 1 .. n : g[k] = Walk(g[k - 1], path.names[k], k < n)
      /\ getino(f, path) = Arrived(g[n])
  BY <1>b DEF IsWalked
<1> DEFINE T == {k \in 0 .. n : IsWalk(f, g[k])}
<1>4. 0 \in T
  BY <1>1, <1>3, NothingIsBalanced DEF WalkFrom, IsWalk, Balanced
<1>5. ASSUME NEW k \in 1 .. n, k - 1 \in T
      PROVE  k \in T
  BY <1>1, <1>3, <1>5, WalkIsSane
<1>6. IsWalk(f, g[n])
  <2> HIDE DEF T
  <2>1. n \in T
    BY <1>1, <1>4, <1>5, LoopInduction
  <2>2. QED
    BY <2>1 DEF T
<1>7. Sane(f, getino(f, path).fs)
  BY <1>3, <1>6, ReleasedIsSane DEF Arrived, IsWalk
<1>8. CASE ShortPaths
  <2>1. \E c : getino(f, path).fs \in {f, Require(f, c)}
    <3>1. CASE n = 0
      <4>1. g[n] = WalkFrom(f, path)
        BY <1>3, <3>1
      <4>2. g[n].fs = f /\ g[n].mip = NULL
        BY <4>1 DEF WalkFrom
      <4>3. QED
        BY <1>3, <4>2 DEF Arrived, Released
    <3>2. CASE n = 1
      <4> DEFINE w == WalkFrom(f, path)
                 c == w.fs.minode[w.at].INODE.type # "lnk"
                 ino == search(w.fs, path.names[1], w.fs.minode[w.at].INODE)
      <4>1. g[0] = w /\ g[1] = Walk(w, path.names[1], FALSE)
        <5>1. g[1] = Walk(g[0], path.names[1], 1 < 1)
          BY <1>3, <3>2
        <5>2. (1 < 1) = FALSE
          OBVIOUS
        <5>3. QED
          BY <1>3, <5>1, <5>2
      <4>2. w.fs = f /\ w.mip = NULL /\ DOMAIN w = {"fs", "ino", "mip", "at"}
        BY DEF WalkFrom
      <4>3. Released(w) = f
        BY <4>2 DEF Released
      <4>4. g[1] \in {w, Onward(w, Require(f, c), ino, FALSE)}
        BY <4>1, <4>3 DEF Walk
      <4> HIDE DEF w, c, ino
      <4>5. g[1].fs \in {f, Require(f, c)} /\ g[1].mip = NULL
        BY <4>2, <4>4 DEF Onward
      <4>6. QED
        BY <1>3, <3>2, <4>5 DEF Arrived, Released
    <3>3. QED
      BY <1>2, <1>8, <3>1, <3>2
  <2>2. QED
    BY <2>1, RequireSame, SameIsBalanced, NothingIsBalanced
<1>9. QED
  BY <1>7, <1>8 DEF Balanced, Counted

-----------------------------------------------------------------------------
(* What the handlers of Ext2Shell share.                                   *)

LEMMA PathsAreTyped ==
  ASSUME NEW path \in Paths
  PROVE  TypedPath(path)
<1>1. IsPath(path)
  BY CommandsAssumption, PathIsPath
<1>2. ShortPaths => Len(path.names) <= 1
  BY DEF ShortPaths
<1>3. QED
  BY <1>1, <1>2 DEF TypedPath

LEMMA dnameIsTyped ==
  ASSUME NEW path, TypedPath(path)
  PROVE  TypedPath(dname(path))
<1> DEFINE s == path.names
           t == SubSeq(s, 1, Len(s) - 1)
<1>1. PICK S : s \in Seq(S)
  BY DEF TypedPath, IsPath
<1>2. Len(s) \in Nat /\ (ShortPaths => Len(s) <= 1) /\ DOMAIN path = {"abs", "names"}
  BY <1>1 DEF TypedPath, IsPath
<1>3. t \in Seq(S) /\ (Len(s) <= 1 => Len(t) <= 1)
  BY <1>1, <1>2
<1>4. dname(path) = [path EXCEPT !.names = t]
  BY DEF dname, Front
<1> HIDE DEF t
<1>5. DOMAIN dname(path) = {"abs", "names"} /\ dname(path).names = t
  BY <1>2, <1>4
<1>6. QED
  BY <1>2, <1>3, <1>5 DEF TypedPath, IsPath

LEMMA OneElement ==
  ASSUME NEW S, NEW e \in S
  PROVE  <<e>> \in Seq(S) /\ Len(<<e>>) = 1
OBVIOUS

LEMMA OneNameIsShort ==
  ASSUME NEW path, DOMAIN path = {"abs", "names"}, NEW e, path.names = <<e>>
  PROVE  TypedPath(path)
<1>1. <<e>> \in Seq({e}) /\ Len(<<e>>) = 1
  BY OneElement
<1>2. IsPath(path)
  BY <1>1, Zenon DEF IsPath
<1>3. Len(path.names) = 1
  BY <1>1, Zenon
<1>4. QED
  BY <1>2, <1>3 DEF TypedPath

LEMMA FirstPartIsTyped ==
  ASSUME NEW path, TypedPath(path)
  PROVE  TypedPath(FirstPart(path))
<1> DEFINE s == path.names
           t == IF s = <<>> THEN <<>> ELSE <<Head(s)>>
<1>1. DOMAIN path = {"abs", "names"}
  BY DEF TypedPath, IsPath
<1>2. FirstPart(path) = [path EXCEPT !.names = t]
  BY DEF FirstPart
<1>3. CASE s = <<>>
  <2>1. t = s
    BY <1>3
  <2> HIDE DEF t
  <2>2. FirstPart(path).names = s /\ DOMAIN FirstPart(path) = {"abs", "names"}
    BY <1>1, <1>2, <2>1
  <2>3. QED
    BY <2>2 DEF TypedPath, IsPath
<1>4. CASE s # <<>>
  <2> DEFINE e == Head(s)
  <2>1. t = <<e>>
    BY <1>4
  <2> HIDE DEF t, e
  <2>2. FirstPart(path).names = t /\ DOMAIN FirstPart(path) = {"abs", "names"}
    BY <1>1, <1>2
  <2>3. FirstPart(path).names = <<e>>
    BY <2>1, <2>2, Zenon
  <2>4. QED
    BY <2>2, <2>3, OneNameIsShort
<1>5. QED
  BY <1>3, <1>4

LEMMA GotAdds ==
  ASSUME NEW f, IsFs(f), NEW path, TypedPath(path)
  PROVE  Adds(f, Got(f, path).fs, Got(f, path).s)
<1> DEFINE r == getino(f, path)
<1>1. Balanced(f, r.fs)
  BY getinoIsBalanced
<1> HIDE DEF r
<1>2. IsFs(r.fs)
  BY <1>1 DEF Balanced, Sane
<1>3. Adds(r.fs, iget(r.fs, r.ino), SlotOf(r.fs, r.ino))
  BY <1>2, igetAdds
<1>4. Adds(f, iget(r.fs, r.ino), SlotOf(r.fs, r.ino))
  BY <1>1, <1>3, BalancedThenAdds
<1>5. Got(f, path) = [fs |-> iget(r.fs, r.ino), ino |-> r.ino, s |-> SlotOf(r.fs, r.ino)]
  BY DEF Got, r
<1>6. QED
  BY <1>4, <1>5

LEMMA InodeIsInode ==
  ASSUME NEW type, NEW links, NEW blk
  PROVE  IsInode(Inode(type, links, blk)) /\ Inode(type, links, blk).type = type
BY DEF IsInode, Inode

LEMMA BlockSame ==
  ASSUME NEW f, IsFs(f), NEW b, NEW e
  PROVE  SameSlots(f, [f EXCEPT !.block[b] = e])
BY DEF SameSlots, FileStays, IsFs, Fields

LEMMA LinksSame ==
  ASSUME NEW f, IsFs(f), NEW s, NEW x
  PROVE  SameSlots(f, [f EXCEPT !.minode[s].INODE.links = x])
BY DEF SameSlots, FileStays, IsFs, IsMinode, IsInode, Fields

LEMMA TouchListedIsBalanced ==
  ASSUME NEW f, IsFs(f), NEW ino
  PROVE  Balanced(f, TouchListed(f, ino))
BY MarkDirtyIsBalanced DEF TouchListed

\* A new inode, its name in the directory in slot s, and s marked dirty.
LEMMA NewNameIsBalanced ==
  ASSUME NEW f, IsFs(f), NEW s, NEW name, NEW i
  PROVE  Balanced(f, SetDirty(AddEntry(f, s, name, i), s))
<1> DEFINE g == AddEntry(f, s, name, i)
<1>1. Balanced(f, g)
  BY AddEntrySame, SameIsBalanced
<1> HIDE DEF g
<1>2. Balanced(g, SetDirty(g, s))
  BY <1>1, SetDirtySame, SameIsBalanced DEF Balanced, Sane
<1>3. QED
  BY <1>1, <1>2, BalancedChain DEF g

LEMMA NewFileIsBalanced ==
  ASSUME NEW p, IsFs(p.fs), NEW name, NEW i
  PROVE  Balanced(p.fs, NewFile(p, name, i))
<1> DEFINE e == ialloc(p.fs)
           inode == Inode("reg", 1, NoBlocks)
           g == Rewrite(e, i, inode)
           h == SetDirty(AddEntry(g, p.s, name, i), p.s)
<1>1. Balanced(p.fs, e)
  BY iallocSame, SameIsBalanced
<1> HIDE DEF e
<1>2. Balanced(e, g)
  <2>1. IsInode(inode) /\ inode.type = "reg"
    BY InodeIsInode
  <2> HIDE DEF inode
  <2>2. QED
    BY <1>1, <2>1, RewriteIsBalanced DEF Balanced, Sane
<1> HIDE DEF g
<1>3. Balanced(g, h)
  BY <1>2, NewNameIsBalanced DEF Balanced, Sane
<1> HIDE DEF h
<1>4. Balanced(p.fs, h)
  BY <1>1, <1>2, <1>3, BalancedChain
<1>5. QED
  BY <1>4 DEF NewFile, e, g, h, inode

LEMMA creat_fileIsBalanced ==
  ASSUME NEW f, IsFs(f), NEW p, NEW name, Adds(f, p.fs, p.s)
  PROVE  Balanced(f, creat_file(p, name))
<1> DEFINE g == NewFile(p, name, NextInode(p.fs))
           h == TouchListed(g, p.ino)
<1>1. IsFs(p.fs)
  BY DEF Adds, Sane
<1>2. Balanced(p.fs, g)
  BY <1>1, NewFileIsBalanced
<1> HIDE DEF g
<1>3. Balanced(g, h)
  BY <1>2, TouchListedIsBalanced DEF Balanced, Sane
<1> HIDE DEF h
<1>4. Adds(f, h, p.s)
  BY <1>2, <1>3, AddsThenBalanced
<1>5. QED
  BY <1>4, PutBack DEF creat_file, g, h

LEMMA my_creatIsBalanced ==
  ASSUME NEW f, IsFs(f), NEW path, TypedPath(path)
  PROVE  Balanced(f, my_creat(f, path))
<1> DEFINE p == Got(f, dname(path))
<1>1. Adds(f, p.fs, p.s)
  BY dnameIsTyped, GotAdds
<1> HIDE DEF p
<1>2. Balanced(f, creat_file(p, bname(path)))
  BY <1>1, creat_fileIsBalanced
<1>3. my_creat(f, path) \in {f, creat_file(p, bname(path))}
  BY DEF my_creat, p
<1>4. QED
  BY <1>2, <1>3, NothingIsBalanced

LEMMA my_touchIsBalanced ==
  ASSUME NEW f, IsFs(f), NEW path, TypedPath(path)
  PROVE  Balanced(f, my_touch(f, path))
<1> DEFINE r == getino(f, path)
<1>1. Balanced(f, r.fs)
  BY getinoIsBalanced
<1> HIDE DEF r
<1>2. IsFs(r.fs)
  BY <1>1 DEF Balanced, Sane
<1>3. my_touch(f, path) \in {MarkDirty(r.fs, r.ino), my_creat(r.fs, FirstPart(path))}
  BY DEF my_touch, r
<1>4. Balanced(r.fs, MarkDirty(r.fs, r.ino)) /\ Balanced(r.fs, my_creat(r.fs, FirstPart(path)))
  BY <1>2, MarkDirtyIsBalanced, FirstPartIsTyped, my_creatIsBalanced
<1>5. QED
  BY <1>1, <1>3, <1>4, BalancedChain

-----------------------------------------------------------------------------
(* The commands of Ext2Shell.                                              *)

\* The handler that was typed leaves the references as it found them, or more.
Keeps(f, g) ==
  /\ Sane(f, g)
  /\ Counted(f, g) => /\ InodesStay(f, g)
                      /\ \A t \in Slots : g.minode[t].refCount >= f.minode[t].refCount

LEMMA BalancedKeeps ==
  ASSUME NEW f, IsFs(f), NEW g, Balanced(f, g)
  PROVE  Keeps(f, g)
BY RefsAreInts DEF Balanced, Keeps

LEMMA AddsKeeps ==
  ASSUME NEW f, IsFs(f), NEW g, NEW s, Adds(f, g, s)
  PROVE  Keeps(f, g)
BY RefsAreInts DEF Adds, Keeps

LEMMA KeepsChain ==
  ASSUME NEW f, NEW g, NEW h, IsFs(f), Keeps(f, g), Keeps(g, h)
  PROVE  Keeps(f, h)
<1>1. Sane(f, h) /\ IsFs(g) /\ IsFs(h)
  BY SaneChain DEF Keeps, Sane
<1>2. ASSUME Counted(f, h)
      PROVE  InodesStay(f, h) /\ \A t \in Slots : h.minode[t].refCount >= f.minode[t].refCount
  <2>1. Counted(f, g)
    BY <1>2 DEF Counted, Keeps, Sane
  <2>2. InodesStay(f, g) /\ \A t \in Slots : g.minode[t].refCount >= f.minode[t].refCount
    BY <2>1 DEF Keeps
  <2>3. \A t \in Slots : /\ f.minode[t].refCount \in Int /\ f.minode[t].refCount >= 0
                         /\ g.minode[t].refCount \in Int /\ h.minode[t].refCount \in Int
    BY <1>1, <1>2, RefsAreInts DEF Counted, Debtless
  <2>4. Counted(g, h)
    BY <1>2, <2>2, <2>3 DEF Counted, Debtless
  <2>5. InodesStay(g, h) /\ \A t \in Slots : h.minode[t].refCount >= g.minode[t].refCount
    BY <2>4 DEF Keeps
  <2>6. InodesStay(f, h)
    BY <2>2, <2>3, <2>5 DEF InodesStay, FileStays
  <2>7. QED
    BY <2>2, <2>3, <2>5, <2>6
<1>3. QED
  BY <1>1, <1>2 DEF Keeps

LEMMA NewDirIsBalanced ==
  ASSUME NEW p, IsFs(p.fs), NEW name, NEW i, NEW b, NEW up, ~FilesStay
  PROVE  Balanced(p.fs, NewDir(p, name, i, b, up))
<1> DEFINE new == Inode("dir", 2, [NoBlocks EXCEPT ![1] = b])
           e0 == ialloc(p.fs)
           e1 == balloc(e0)
           e2 == Rewrite(e1, i, new)
           entries == <<Entry(".", i), Entry("..", up)>>
           e3 == [e2 EXCEPT !.block[b] = entries]
           e4 == SetDirty(AddEntry(e3, p.s, name, i), p.s)
           e5 == [e4 EXCEPT !.minode[p.s].INODE.links = @ + 1]
<1>1. IsInode(new)
  BY InodeIsInode
<1> HIDE DEF new, entries
<1>2. Balanced(p.fs, e0) /\ IsFs(e0)
  BY iallocSame, SameIsBalanced DEF Balanced, Sane
<1> HIDE DEF e0
<1>3. Balanced(e0, e1) /\ IsFs(e1)
  BY <1>2, ballocSame, SameIsBalanced DEF Balanced, Sane
<1> HIDE DEF e1
<1>4. Balanced(e1, e2) /\ IsFs(e2)
  BY <1>1, <1>3, RewriteIsBalanced DEF Balanced, Sane
<1> HIDE DEF e2
<1>5. Balanced(e2, e3) /\ IsFs(e3)
  BY <1>4, BlockSame, SameIsBalanced DEF Balanced, Sane
<1> HIDE DEF e3
<1>6. Balanced(e3, e4) /\ IsFs(e4)
  BY <1>5, NewNameIsBalanced DEF Balanced, Sane
<1> HIDE DEF e4
<1>7. Balanced(e4, e5)
  BY <1>6, LinksSame, SameIsBalanced
<1> HIDE DEF e5
<1>8. Balanced(p.fs, e5)
  BY <1>2, <1>3, <1>4, <1>5, <1>6, <1>7, BalancedChain
<1>9. QED
  BY <1>8 DEF NewDir, new, e0, e1, e2, entries, e3, e4, e5

LEMMA MkdirStep ==
  ASSUME IsFs(fs), NEW path \in Paths, Mkdir(path)
  PROVE  \E f : Do(f) /\ Balanced(fs, f)
<1> DEFINE p == Got(fs, dname(path))
           name == bname(path)
           g == NewDir(p, name, NextInode(p.fs), NextBlock(p.fs), p.ino)
           h == TouchListed(g, p.ino)
<1>1. ~FilesStay /\ Do(iput(h, p.s))
  BY DEF Mkdir, rmkdir, Typed, FilesStay
<1>2. Adds(fs, p.fs, p.s) /\ IsFs(p.fs)
  BY PathsAreTyped, dnameIsTyped, GotAdds DEF Adds, Sane
<1> HIDE DEF p, name
<1>3. Balanced(p.fs, g) /\ IsFs(g)
  BY <1>1, <1>2, NewDirIsBalanced DEF Balanced, Sane
<1> HIDE DEF g
<1>4. Balanced(g, h)
  BY <1>3, TouchListedIsBalanced
<1> HIDE DEF h
<1>5. Adds(fs, h, p.s)
  BY <1>2, <1>3, <1>4, AddsThenBalanced
<1>6. QED
  BY <1>1, <1>5, PutBack

LEMMA CreatStep ==
  ASSUME IsFs(fs), NEW path \in Paths, Creat(path)
  PROVE  \E f : Do(f) /\ Balanced(fs, f)
BY PathsAreTyped, my_creatIsBalanced DEF Creat

LEMMA TouchStep ==
  ASSUME IsFs(fs), NEW path \in Paths, Touch(path)
  PROVE  \E f : Do(f) /\ Balanced(fs, f)
BY PathsAreTyped, my_touchIsBalanced DEF Touch

LEMMA ChmodStep ==
  ASSUME IsFs(fs), NEW path \in Paths, Chmod(path)
  PROVE  \E f : Do(f) /\ Balanced(fs, f)
<1> DEFINE r == getino(fs, path)
<1>1. Balanced(fs, r.fs) /\ IsFs(r.fs)
  BY PathsAreTyped, getinoIsBalanced DEF Balanced, Sane
<1>2. Do(MarkDirty(r.fs, r.ino))
  BY DEF Chmod
<1> HIDE DEF r
<1>3. QED
  BY <1>1, <1>2, MarkDirtyIsBalanced, BalancedChain

LEMMA RmdirRefusedStep ==
  ASSUME IsFs(fs), NEW path \in Paths, RmdirRefused(path)
  PROVE  \E f : Do(f) /\ Keeps(fs, f)
<1> DEFINE g == Got(fs, path)
<1>1. Adds(fs, g.fs, g.s)
  BY PathsAreTyped, GotAdds
<1>2. \E f \in {g.fs, iput(g.fs, g.s)} : Do(f)
  BY DEF RmdirRefused
<1> HIDE DEF g
<1>3. Keeps(fs, g.fs) /\ Keeps(fs, iput(g.fs, g.s))
  BY <1>1, PutBack, BalancedKeeps, AddsKeeps
<1>4. QED
  BY <1>2, <1>3

LEMMA RmdirStep ==
  ASSUME IsFs(fs), NEW path \in Paths, Rmdir(path)
  PROVE  \E f : Do(f) /\ Keeps(fs, f)
<1> DEFINE g == Got(fs, path)
           e0 == FreeBlocksOf(g.fs, InodeOf(g))
           e1 == idalloc(e0, g.ino)
           p == Got(e1, dname(path))
           e2 == iput(p.fs, g.s)
           e3 == rm_child(e2, p.s, bname(path))
           e4 == [e3 EXCEPT !.minode[p.s].INODE.links = Dec(@)]
           t == getino(e4, FirstPart(dname(path)))
           e5 == MarkDirty(t.fs, t.ino)
           e6 == SetDirty(e5, p.s)
<1>1. Do(iput(e6, p.s))
  BY DEF Rmdir
<1>2. TypedPath(path) /\ TypedPath(dname(path)) /\ TypedPath(FirstPart(dname(path)))
  BY PathsAreTyped, dnameIsTyped, FirstPartIsTyped
<1>3. Adds(fs, g.fs, g.s) /\ IsFs(g.fs)
  BY <1>2, GotAdds DEF Adds, Sane
<1> HIDE DEF g
<1>4. Balanced(g.fs, e0) /\ IsFs(e0)
  BY <1>3, FreeBlocksBalanced DEF Balanced, Sane
<1> HIDE DEF e0
<1>5. Balanced(e0, e1) /\ IsFs(e1)
  BY <1>4, idallocSame, SameIsBalanced DEF Balanced, Sane
<1> HIDE DEF e1
<1>6. Adds(fs, e1, g.s)
  BY <1>3, <1>4, <1>5, AddsThenBalanced
<1>7. Adds(e1, p.fs, p.s)
  BY <1>2, <1>5, GotAdds
<1> HIDE DEF p
<1>8. Adds(fs, e2, p.s)
  BY <1>6, <1>7, PutBackOlder
<1> HIDE DEF e2
<1>a. IsFs(e2)
  BY <1>8 DEF Adds, Sane
<1>9. Balanced(e2, e3) /\ IsFs(e3)
  BY <1>a, rm_childSame, SameIsBalanced DEF Balanced, Sane
<1> HIDE DEF e3
<1>10. Balanced(e3, e4) /\ IsFs(e4)
  BY <1>9, LinksSame, SameIsBalanced DEF Balanced, Sane
<1> HIDE DEF e4
<1>11. Balanced(e4, t.fs) /\ IsFs(t.fs)
  BY <1>2, <1>10, getinoIsBalanced DEF Balanced, Sane
<1> HIDE DEF t
<1>12. Balanced(t.fs, e5) /\ IsFs(e5)
  BY <1>11, MarkDirtyIsBalanced DEF Balanced, Sane
<1> HIDE DEF e5
<1>13. Balanced(e5, e6)
  BY <1>12, SetDirtySame, SameIsBalanced
<1> HIDE DEF e6
<1>14. Balanced(e2, e6)
  BY <1>9, <1>10, <1>11, <1>12, <1>13, BalancedChain
<1>15. Balanced(fs, iput(e6, p.s))
  BY <1>8, <1>14, AddsThenBalanced, PutBack
<1>16. QED
  BY <1>1, <1>15, BalancedKeeps

LEMMA my_linkIsBalanced ==
  ASSUME NEW f, IsFs(f), NEW g, NEW p, NEW name, Adds(f, g.fs, g.s), Adds(g.fs, p.fs, p.s)
  PROVE  Balanced(f, my_link(g, p, name))
<1> DEFINE e0 == AddEntry(p.fs, p.s, name, g.ino)
           e1 == SetDirty(e0, g.s)
           e2 == [e1 EXCEPT !.minode[g.s].INODE.links = @ + 1]
<1>1. IsFs(g.fs) /\ IsFs(p.fs)
  BY DEF Adds, Sane
<1>2. Balanced(p.fs, e0) /\ IsFs(e0)
  BY <1>1, AddEntrySame, SameIsBalanced DEF Balanced, Sane
<1> HIDE DEF e0
<1>3. Balanced(e0, e1) /\ IsFs(e1)
  BY <1>2, SetDirtySame, SameIsBalanced DEF Balanced, Sane
<1> HIDE DEF e1
<1>4. Balanced(e1, e2)
  BY <1>3, LinksSame, SameIsBalanced
<1> HIDE DEF e2
<1>5. Adds(g.fs, e2, p.s)
  BY <1>1, <1>2, <1>3, <1>4, AddsThenBalanced
<1>6. Adds(f, iput(e2, g.s), p.s)
  BY <1>5, PutBackOlder
<1>7. Balanced(f, iput(iput(e2, g.s), p.s))
  BY <1>6, PutBack
<1>8. QED
  BY <1>7 DEF my_link, e0, e1, e2

LEMMA LinkStep ==
  ASSUME IsFs(fs), NEW old \in Paths, NEW new \in Paths, Link(old, new)
  PROVE  \E f : Do(f) /\ Balanced(fs, f)
<1> DEFINE g == Got(fs, old)
           p == Got(g.fs, dname(new))
<1>1. Do(my_link(g, p, bname(new)))
  BY DEF Link
<1>2. Adds(fs, g.fs, g.s) /\ IsFs(g.fs)
  BY PathsAreTyped, GotAdds DEF Adds, Sane
<1> HIDE DEF g
<1>3. Adds(g.fs, p.fs, p.s)
  BY <1>2, PathsAreTyped, dnameIsTyped, GotAdds
<1> HIDE DEF p
<1>4. QED
  BY <1>1, <1>2, <1>3, my_linkIsBalanced

LEMMA rmIsBalanced ==
  ASSUME NEW f, IsFs(f), NEW inode, NEW ino
  PROVE  Balanced(f, rm(f, inode, ino))
<1>1. PICK g : g \in {f, FreeBlocksOf(f, inode)} /\ rm(f, inode, ino) = idalloc(g, ino)
  BY DEF rm
<1>2. Balanced(f, g) /\ IsFs(g)
  BY <1>1, NothingIsBalanced, FreeBlocksBalanced DEF Balanced, Sane
<1>3. Balanced(g, idalloc(g, ino))
  BY <1>2, idallocSame, SameIsBalanced
<1>4. QED
  BY <1>1, <1>2, <1>3, BalancedChain

LEMMA my_unlinkIsBalanced ==
  ASSUME NEW f, IsFs(f), NEW g, NEW path, Adds(f, g.fs, g.s), TypedPath(path)
  PROVE  Balanced(f, my_unlink(g, path))
<1> DEFINE e0 == [g.fs EXCEPT !.minode[g.s].INODE.links = Dec(@)]
           e1 == IF e0.minode[g.s].INODE.links = 0 THEN rm(e0, InodeOf(g), g.ino) ELSE e0
           p == Got(e1, dname(path))
           e2 == iput(p.fs, g.s)
           e3 == rm_child(e2, p.s, bname(path))
<1>1. IsFs(g.fs)
  BY DEF Adds, Sane
<1>2. Balanced(g.fs, e0) /\ IsFs(e0)
  BY <1>1, LinksSame, SameIsBalanced DEF Balanced, Sane
<1> HIDE DEF e0
<1>3. Balanced(e0, e1)
  BY <1>2, rmIsBalanced, NothingIsBalanced
<1> HIDE DEF e1
<1>4. IsFs(e1)
  BY <1>3 DEF Balanced, Sane
<1>5. Adds(f, e1, g.s)
  BY <1>2, <1>3, AddsThenBalanced
<1>6. Adds(e1, p.fs, p.s)
  BY <1>4, dnameIsTyped, GotAdds
<1> HIDE DEF p
<1>7. Adds(f, e2, p.s)
  BY <1>5, <1>6, PutBackOlder
<1> HIDE DEF e2
<1>8. Balanced(e2, e3)
  BY <1>7, rm_childSame, SameIsBalanced DEF Adds, Sane
<1> HIDE DEF e3
<1>9. Balanced(f, iput(e3, p.s))
  BY <1>7, <1>8, AddsThenBalanced, PutBack
<1>10. QED
  BY <1>9 DEF my_unlink, e0, e1, p, e2, e3

LEMMA UnlinkStep ==
  ASSUME IsFs(fs), NEW path \in Paths, Unlink(path)
  PROVE  \E f : Do(f) /\ Balanced(fs, f)
BY PathsAreTyped, GotAdds, my_unlinkIsBalanced DEF Unlink

LEMMA SymlinkStep ==
  ASSUME IsFs(fs), NEW old \in Paths, NEW new \in Paths, Symlink(old, new)
  PROVE  \E f : Do(f) /\ Balanced(fs, f)
<1> DEFINE o == getino(fs, old)
           e0 == my_creat(o.fs, new)
           n == Got(e0, new)
           inode == [InodeOf(n) EXCEPT !.type = "lnk", !.blk = NoBlocks]
           e1 == Changed(n.fs, n.s, inode)
<1>1. ~FilesStay /\ Do(iput(e1, n.s))
  BY DEF Symlink, Typed, FilesStay
<1>2. TypedPath(old) /\ TypedPath(new)
  BY PathsAreTyped
<1>3. Balanced(fs, o.fs) /\ IsFs(o.fs)
  BY <1>2, getinoIsBalanced DEF Balanced, Sane
<1> HIDE DEF o
<1>4. Balanced(o.fs, e0) /\ IsFs(e0)
  BY <1>2, <1>3, my_creatIsBalanced DEF Balanced, Sane
<1> HIDE DEF e0
<1>5. Adds(e0, n.fs, n.s) /\ IsFs(n.fs) /\ n.s \in Slots
  BY <1>2, <1>4, GotAdds DEF Adds, Sane
<1> HIDE DEF n
<1>6. IsInode(inode)
  BY <1>5 DEF IsFs, IsMinode, IsInode, InodeOf
<1> HIDE DEF inode
<1>7. Balanced(n.fs, e1)
  BY <1>1, <1>5, <1>6, ChangedSame, SameIsBalanced
<1> HIDE DEF e1
<1>8. Adds(fs, e1, n.s)
  BY <1>3, <1>4, <1>5, <1>7, BalancedChain, BalancedThenAdds, AddsThenBalanced
<1>9. QED
  BY <1>1, <1>8, PutBack

\* h is what cd makes of f: its old directory is put back for the new one.
Moved(f, h) ==
  \E g, s : Adds(f, g, s) /\ h = [iput(g, g.cwd) EXCEPT !.cwd = s]

LEMMA ChdirStep ==
  ASSUME IsFs(fs), NEW path, path \in Paths \cup {[abs |-> TRUE, names |-> <<>>]}, Chdir(path)
  PROVE  \E f : Do(f) /\ (Balanced(fs, f) \/ Moved(fs, f))
<1> DEFINE g == Got(fs, path)
<1>1. TypedPath(path)
  <2> DEFINE top == [abs |-> TRUE, names |-> <<>>]
  <2>1. <<>> \in Seq(STRING) /\ Len(<<>>) = 0
    OBVIOUS
  <2>2. top \in Path /\ top.names = <<>> /\ IsPath(top)
    BY <2>1, PathIsPath DEF Path
  <2> HIDE DEF top
  <2>3. Len(top.names) <= 1
    <3>1. Len(top.names) = 0
      BY <2>1, <2>2, Zenon
    <3>2. QED
      BY <3>1
  <2>4. QED
    BY <2>2, <2>3, PathsAreTyped DEF TypedPath, top
<1>2. Adds(fs, g.fs, g.s)
  BY <1>1, GotAdds
<1>3. Do(iput(g.fs, g.s)) \/ Do([iput(g.fs, g.fs.cwd) EXCEPT !.cwd = g.s])
  BY DEF Chdir
<1> HIDE DEF g
<1>4. QED
  BY <1>2, <1>3, PutBack DEF Moved

LEMMA ListLoop ==
  ASSUME NEW f, NEW e, MaxEntries \in Nat
  PROVE  \E g : /\ g[0] = f
                /\ \A k \in 1 .. MaxEntries : g[k] \in {g[k - 1], Load(g[k - 1], e[k].ino)}
                /\ ls_dir(f, e) = g[MaxEntries]
<1> DEFINE Loaded(g) ==
             g = [k \in 0 .. MaxEntries |->
                    IF k = 0 THEN f
                    ELSE IF k > Len(e) THEN g[k - 1] ELSE Load(g[k - 1], e[k].ino)]
           loaded == CHOOSE g : Loaded(g)
<1>1. PICK g : Turns(g, "list", e, f, MaxEntries)
  BY TurnsExist
<1>2. Loaded(g)
  BY <1>1 DEF Turns, Turn
<1>3. ls_dir(f, e) = loaded[MaxEntries]
  BY DEF ls_dir
<1>4. Loaded(loaded)
  <2> HIDE DEF Loaded
  <2>1. QED
    BY <1>2
<1> HIDE DEF loaded
<1>5. loaded[0] = f
  BY <1>4
<1>6. ASSUME NEW k \in 1 .. MaxEntries
      PROVE  loaded[k] \in {loaded[k - 1], Load(loaded[k - 1], e[k].ino)}
  <2>1. k \in 0 .. MaxEntries /\ k # 0
    OBVIOUS
  <2>2. loaded[k] = IF k > Len(e) THEN loaded[k - 1] ELSE Load(loaded[k - 1], e[k].ino)
    BY <1>4, <2>1
  <2>3. QED
    BY <2>2
<1>7. QED
  BY <1>3, <1>5, <1>6

LEMMA ls_dirIsBalanced ==
  ASSUME NEW f, IsFs(f), NEW e
  PROVE  Balanced(f, ls_dir(f, e))
<1>1. MaxEntries \in Nat
  BY SizesAssumption DEF MaxEntries
<1>2. PICK g : /\ g[0] = f
               /\ \A k \in 1 .. MaxEntries : g[k] \in {g[k - 1], Load(g[k - 1], e[k].ino)}
               /\ ls_dir(f, e) = g[MaxEntries]
  BY <1>1, ListLoop
<1> DEFINE T == {k \in 0 .. MaxEntries : Balanced(f, g[k])}
<1>3. 0 \in T
  BY <1>1, <1>2, NothingIsBalanced
<1>4. ASSUME NEW k \in 1 .. MaxEntries, k - 1 \in T
      PROVE  k \in T
  <2>1. Balanced(f, g[k - 1])
    BY <1>4
  <2>2. IsFs(g[k - 1])
    BY <2>1 DEF Balanced, Sane
  <2>3. Balanced(g[k - 1], g[k])
    BY <1>2, <2>2, LoadIsBalanced, NothingIsBalanced
  <2>4. k \in 0 .. MaxEntries
    BY <1>1
  <2>5. QED
    BY <2>1, <2>3, <2>4, BalancedChain
<1>5. MaxEntries \in T
  <2> HIDE DEF T
  <2>1. QED
    BY <1>1, <1>3, <1>4, LoopInduction
<1>6. QED
  BY <1>2, <1>5

LEMMA LsStep ==
  ASSUME IsFs(fs), NEW path \in Paths, Ls(path)
  PROVE  \E f : Do(f) /\ Balanced(fs, f)
<1> DEFINE g == Got(fs, path)
           e == ls_dir(g.fs, Entries(g.fs, InodeOf(g)))
<1>1. Adds(fs, g.fs, g.s) /\ IsFs(g.fs)
  BY PathsAreTyped, GotAdds DEF Adds, Sane
<1>2. \E f \in {g.fs, e} : Do(iput(f, g.s))
  BY DEF Ls
<1> HIDE DEF g
<1>3. Balanced(g.fs, e) /\ Balanced(g.fs, g.fs)
  BY <1>1, ls_dirIsBalanced, NothingIsBalanced
<1> HIDE DEF e
<1>4. QED
  BY <1>1, <1>2, <1>3, AddsThenBalanced, PutBack

LEMMA StatStep ==
  ASSUME IsFs(fs), NEW path \in Paths, Stat(path)
  PROVE  \E f : Do(f) /\ Keeps(fs, f)
BY PathsAreTyped, GotAdds, AddsKeeps DEF Stat

-----------------------------------------------------------------------------
(* Mounting, quit, and what is wiped at the prompt.                        *)

LEMMA InodesAreNumbers == ROOT \in Inodes /\ 0 \in Slots /\ Slots \in SUBSET Nat
BY SizesFacts, SizesAssumption DEF Inodes, ROOT, Slots

LEMMA TidyIsBalanced ==
  ASSUME NEW f, IsFs(f)
  PROVE  Balanced(f, Tidy(f)) /\ Tidy(f).ok = f.ok
<1> DEFINE slots == {s \in Slots : f.minode[s].refCount # 0} \cup {f.root, f.cwd}
           inodes == f.imap \cup {f.minode[s].ino : s \in slots}
                       \cup UNION {{e.ino : e \in EntriesIn(f.block[b])} : b \in f.bmap}
           pointers == UNION {Range(f.inode[i].blk) : i \in inodes \cap Inodes}
                         \cup UNION {Range(f.minode[s].INODE.blk) : s \in slots}
           minode == [s \in Slots |-> IF s \in slots THEN f.minode[s] ELSE FreeSlot]
           inode == [i \in Inodes |-> IF i \in inodes THEN f.inode[i] ELSE Blank]
           block == [b \in Blocks |-> IF b \in f.bmap \cup pointers THEN f.block[b] ELSE <<>>]
           g == [f EXCEPT !.minode = minode, !.inode = inode, !.block = block]
<1>1. Tidy(f) = g
  BY DEF Tidy
<1>2. \A s \in Slots : s \notin slots => f.minode[s].refCount = 0
  OBVIOUS
<1> HIDE DEF slots
<1>3. /\ DOMAIN minode = Slots
      /\ \A s \in Slots : minode[s] = IF s \in slots THEN f.minode[s] ELSE FreeSlot
  OBVIOUS
<1>4. DOMAIN inode = Inodes /\ \A i \in Inodes : inode[i] \in {f.inode[i], Blank}
  <2> HIDE DEF inodes
  <2>1. QED
    OBVIOUS
<1> HIDE DEF minode, inode, block
<1>5. /\ DOMAIN g = Fields
      /\ g.minode = minode /\ g.inode = inode /\ g.root = f.root /\ g.cwd = f.cwd /\ g.ok = f.ok
  BY DEF IsFs, Fields
<1> HIDE DEF g
<1>6. IsMinode(FreeSlot) /\ IsInode(Blank) /\ FreeSlot.refCount = 0
  BY DEF IsMinode, IsInode, FreeSlot, Blank, Inode
<1>7. IsFs(g)
  BY <1>3, <1>4, <1>5, <1>6 DEF IsFs
<1>8. \A s \in Slots : g.minode[s].refCount = f.minode[s].refCount
  BY <1>2, <1>3, <1>5, <1>6
<1>9. \A s \in Slots : f.minode[s].refCount > 0 => g.minode[s] = f.minode[s]
  BY <1>2, <1>3, <1>5
<1>10. Sane(f, g)
  BY <1>5, <1>7, <1>8, <1>9 DEF Sane, OneCopyOf
<1>11. InodesStay(f, g)
  BY <1>9 DEF InodesStay, FileStays
<1>12. QED
  BY <1>1, <1>5, <1>8, <1>10, <1>11 DEF Balanced

\* The first slot has n references of the root, the others none.
RootOnly(f, n) ==
  /\ IsFs(f) /\ OneCopyOf(f) /\ f.root = 0 /\ f.cwd = 0
  /\ f.ok => /\ f.minode[0].refCount = n /\ \A s \in Slots \ {0} : f.minode[s].refCount = 0
             /\ n > 0 => f.minode[0].ino = ROOT

LEMMA RootAgain ==
  ASSUME NEW f, NEW n \in Nat, RootOnly(f, n)
  PROVE  RootOnly(iget(f, ROOT), n + 1) /\ (f.ok => iget(f, ROOT).ok)
<1> DEFINE s == SlotOf(f, ROOT)
           g == iget(f, ROOT)
<1>1. Taken(f, g, s, ROOT) /\ (OneCopyOf(f) => OneCopyOf(g)) /\ s \in Slots
  BY igetTakes, SlotOfIsSlot DEF RootOnly
<1>2. f.ok => s = 0
  <2>1. SUFFICES ASSUME f.ok PROVE s = 0
    OBVIOUS
  <2>2. f.minode[0].refCount = n /\ \A t \in Slots \ {0} : f.minode[t].refCount = 0
    BY <2>1 DEF RootOnly
  <2>3. Hits(f, ROOT) = {} \/ Hits(f, ROOT) = {0}
    BY <2>2 DEF Hits
  <2>4. n = 0 => 0 \in FreeSlots(f) /\ FreeSlots(f) \in SUBSET Nat
    BY <2>2, InodesAreNumbers DEF FreeSlots
  <2>5. n > 0 => Hits(f, ROOT) # {}
    BY <2>1, <2>2, InodesAreNumbers DEF RootOnly, Hits
  <2>6. CASE Hits(f, ROOT) # {}
    BY <2>3, <2>6, MinIsIn DEF SlotOf
  <2>7. CASE Hits(f, ROOT) = {}
    <3>1. Min(FreeSlots(f)) = 0
      <4>1. Min(FreeSlots(f)) \in Nat /\ Min(FreeSlots(f)) <= 0
        BY <2>4, <2>5, <2>7, MinIsIn
      <4>2. QED
        BY <4>1
    <3>2. QED
      BY <2>7, <3>1 DEF SlotOf
  <2>8. QED
    BY <2>6, <2>7
<1>3. f.ok => g.ok
  <2>1. SUFFICES ASSUME f.ok PROVE g.ok
    OBVIOUS
  <2>2. Hits(f, ROOT) # {} \/ FreeSlots(f) # {}
    BY <2>1, InodesAreNumbers DEF RootOnly, Hits, FreeSlots
  <2>3. g.ok = f.ok
    BY <2>2, InodesAreNumbers DEF iget, RootOnly, IsFs, Fields
  <2>4. QED
    BY <2>1, <2>3
<1> HIDE DEF s, g
<1>4. RootOnly(g, n + 1)
  BY <1>1, <1>2 DEF RootOnly, Taken
<1>5. QED
  BY <1>3, <1>4 DEF g

LEMMA MountedIsRootOnly ==
  ASSUME NEW f, IsFs(f)
  PROVE  RootOnly(Mounted(f), 3) /\ (f.ok => Mounted(f).ok)
<1> DEFINE free == [s \in Slots |-> FreeSlot]
           g == [f EXCEPT !.minode = free, !.root = 0, !.cwd = 0]
<1>1. IsMinode(FreeSlot) /\ FreeSlot.refCount = 0
  BY DEF IsMinode, IsInode, FreeSlot, Blank, Inode
<1>2. RootOnly(g, 0) /\ g.ok = f.ok
  BY <1>1, InodesAreNumbers DEF RootOnly, IsFs, Fields, OneCopyOf
<1>3. Mounted(f) = iget(iget(iget(g, ROOT), ROOT), ROOT)
  BY DEF Mounted
<1> HIDE DEF g
<1>4. RootOnly(iget(g, ROOT), 1) /\ (f.ok => iget(g, ROOT).ok)
  BY <1>2, RootAgain
<1>5. RootOnly(iget(iget(g, ROOT), ROOT), 2) /\ (f.ok => iget(iget(g, ROOT), ROOT).ok)
  BY <1>4, RootAgain
<1>6. QED
  BY <1>3, <1>5, RootAgain

LEMMA NewDiskIsFs == IsFs(NewDisk)
<1>1. IsMinode(FreeSlot) /\ IsInode(Blank)
  BY DEF IsMinode, IsInode, FreeSlot, Blank, Inode
<1>2. \A b : IsInode(Inode("dir", 2, b))
  BY InodeIsInode
<1>3. NewDisk.inode = [i \in Inodes |->
                         IF i = ROOT THEN Inode("dir", 2, [NoBlocks EXCEPT ![1] = 1]) ELSE Blank]
  BY DEF NewDisk
<1>4. DOMAIN NewDisk.inode = Inodes /\ \A i \in Inodes : IsInode(NewDisk.inode[i])
  BY <1>1, <1>2, <1>3
<1>5. /\ NewDisk.minode = [s \in Slots |-> FreeSlot] /\ NewDisk.root = 0 /\ NewDisk.cwd = 0
      /\ DOMAIN NewDisk = Fields
  BY DEF NewDisk, Fields
<1>6. QED
  BY <1>1, <1>4, <1>5, InodesAreNumbers DEF IsFs

LEMMA FlushLoop ==
  ASSUME NEW f
  PROVE  \E g : /\ g[0] = f
                /\ \A k \in 1 .. NMINODES : g[k] = Flush(g[k - 1], k - 1)
                /\ Flushed(f) = g[NMINODES]
<1> DEFINE Loop(g) == g = [k \in 0 .. NMINODES |-> IF k = 0 THEN f ELSE Flush(g[k - 1], k - 1)]
           flushed == CHOOSE g : Loop(g)
<1>1. PICK g : Turns(g, "flush", <<>>, f, NMINODES)
  BY TurnsExist, SizesFacts
<1>2. Loop(g)
  BY <1>1 DEF Turns, Turn
<1>3. Flushed(f) = flushed[NMINODES]
  BY DEF Flushed
<1>4. Loop(flushed)
  <2> HIDE DEF Loop
  <2>1. QED
    BY <1>2
<1> HIDE DEF flushed
<1>5. flushed[0] = f /\ \A k \in 1 .. NMINODES : flushed[k] = Flush(flushed[k - 1], k - 1)
  BY <1>4, SizesFacts
<1>6. QED
  BY <1>3, <1>5

LEMMA FlushedIsFs ==
  ASSUME NEW f, IsFs(f)
  PROVE  IsFs(Flushed(f))
<1>1. PICK g : /\ g[0] = f
               /\ \A k \in 1 .. NMINODES : g[k] = Flush(g[k - 1], k - 1)
               /\ Flushed(f) = g[NMINODES]
  BY FlushLoop
<1> DEFINE T == {k \in 0 .. NMINODES : IsFs(g[k])}
<1>2. 0 \in T
  BY <1>1, SizesFacts
<1>3. ASSUME NEW k \in 1 .. NMINODES, k - 1 \in T
      PROVE  k \in T
  <2> DEFINE e == g[k - 1]
             s == k - 1
             h == [e EXCEPT !.minode[s].refCount = 1]
  <2>1. IsFs(e)
    BY <1>3
  <2>2. s \in Slots /\ k \in 0 .. NMINODES
    BY SizesFacts DEF Slots
  <2>3. g[k] \in {e, iput(h, s)}
    BY <1>1 DEF Flush
  <2> HIDE DEF e, s
  <2>4. IsFs(h)
    BY <2>1 DEF IsFs, IsMinode, Fields
  <2> HIDE DEF h
  <2>5. IsFs(iput(h, s))
    BY <2>2, <2>4, iputIsSane DEF Sane
  <2>6. QED
    BY <2>1, <2>2, <2>3, <2>5
<1>4. NMINODES \in T
  <2> HIDE DEF T
  <2>1. QED
    BY <1>2, <1>3, SizesFacts, LoopInduction
<1>5. QED
  BY <1>1, <1>4

LEMMA RestartStep ==
  ASSUME IsFs(fs), Restart
  PROVE  \E f : Do(f) /\ RootOnly(f, 3)
BY FlushedIsFs, MountedIsRootOnly DEF Restart, Quit, Kill

LEMMA CommandStep ==
  ASSUME IsFs(fs), Command
  PROVE  \E f : /\ Do(f)
                /\ Keeps(fs, f) \/ Moved(fs, f)
                /\ Commands \cap {"stat", "rmdir"} = {} => Balanced(fs, f) \/ Moved(fs, f)
<1>1. ASSUME NEW path \in Paths, Mkdir(path) \/ Creat(path) \/ Touch(path) \/ Chmod(path)
      PROVE  \E f : Do(f) /\ Balanced(fs, f)
  BY <1>1, MkdirStep, CreatStep, TouchStep, ChmodStep
<1>2. ASSUME NEW path \in Paths, Rmdir(path) \/ RmdirRefused(path) \/ Stat(path)
      PROVE  Commands \cap {"stat", "rmdir"} # {} /\ \E f : Do(f) /\ Keeps(fs, f)
  <2>1. Commands \cap {"stat", "rmdir"} # {}
    BY <1>2 DEF Rmdir, RmdirRefused, Stat, Typed
  <2>2. QED
    BY <1>2, <2>1, RmdirStep, RmdirRefusedStep, StatStep
<1>3. ASSUME NEW path \in Paths, Unlink(path) \/ Ls(path)
      PROVE  \E f : Do(f) /\ Balanced(fs, f)
  BY <1>3, UnlinkStep, LsStep
<1>4. ASSUME NEW old \in Paths, NEW new \in Paths, Link(old, new) \/ Symlink(old, new)
      PROVE  \E f : Do(f) /\ Balanced(fs, f)
  BY <1>4, LinkStep, SymlinkStep
<1>5. ASSUME NEW path \in Paths \cup {[abs |-> TRUE, names |-> <<>>]}, Chdir(path)
      PROVE  \E f : Do(f) /\ (Balanced(fs, f) \/ Moved(fs, f))
  BY <1>5, ChdirStep
<1>6. QED
  BY <1>1, <1>2, <1>3, <1>4, <1>5, BalancedKeeps DEF Command

-----------------------------------------------------------------------------
(* An inode is in one slot.                                                *)

WellFormed(f) == IsFs(f) /\ OneCopyOf(f)

LEMMA MovedIsSane ==
  ASSUME NEW f, NEW h, WellFormed(f), Moved(f, h)
  PROVE  WellFormed(h)
<1>1. PICK g, s : Adds(f, g, s) /\ h = [iput(g, g.cwd) EXCEPT !.cwd = s]
  BY DEF Moved
<1> DEFINE e == iput(g, g.cwd)
<1>2. WellFormed(g) /\ g.cwd \in Slots /\ s \in Slots
  BY <1>1 DEF WellFormed, Adds, Sane, IsFs
<1>3. WellFormed(e)
  BY <1>2, iputIsSane DEF WellFormed, Sane
<1>4. h = [e EXCEPT !.cwd = s]
  BY <1>1
<1> HIDE DEF e
<1>5. QED
  BY <1>2, <1>3, <1>4 DEF WellFormed, IsFs, Fields, OneCopyOf

LEMMA DoIsWellFormed ==
  ASSUME NEW f, WellFormed(f), Do(f)
  PROVE  WellFormed(fs')
BY TidyIsBalanced DEF Do, WellFormed, Balanced, Sane

LEMMA NamesStayWellFormed ==
  ASSUME WellFormed(fs), Next
  PROVE  WellFormed(fs')
<1>1. CASE Command
  <2>1. PICK f : Do(f) /\ (Keeps(fs, f) \/ Moved(fs, f))
    BY <1>1, CommandStep DEF WellFormed
  <2>2. WellFormed(f)
    BY <2>1, MovedIsSane DEF Keeps, Sane, WellFormed
  <2>3. QED
    BY <2>1, <2>2, DoIsWellFormed
<1>2. CASE Restart
  <2>1. PICK f : Do(f) /\ RootOnly(f, 3)
    BY <1>2, RestartStep DEF WellFormed
  <2>2. QED
    BY <2>1, DoIsWellFormed DEF RootOnly, WellFormed
<1>3. QED
  BY <1>1, <1>2 DEF Next

LEMMA InitIsRootOnly ==
  ASSUME Init
  PROVE  RootOnly(fs, 3) /\ WellFormed(fs)
BY NewDiskIsFs, MountedIsRootOnly DEF Init, RootOnly, WellFormed

LEMMA WellFormedHasOneCopy ==
  ASSUME WellFormed(fs)
  PROVE  OneCopy
<1>1. SUFFICES ASSUME NEW i \in Inodes PROVE Cardinality(Held(i)) <= 1
  BY DEF OneCopy
<1>2. CASE Held(i) = {}
  BY <1>2, FS_EmptySet
<1>3. CASE Held(i) # {}
  <2>1. PICK s : s \in Held(i)
    BY <1>3
  <2>2. Held(i) = {s}
    BY <2>1 DEF Held, WellFormed, OneCopyOf
  <2>3. QED
    BY <2>2, FS_Singleton
<1>4. QED
  BY <1>2, <1>3

\* iget() never loads a second copy of an inode that a slot in use holds,
\* whatever the commands typed, the references they leave and the restarts.
THEOREM InodesHaveOneCopy == Spec => []OneCopy
<1>1. Init => WellFormed(fs)
  BY InitIsRootOnly
<1>2. WellFormed(fs) /\ [Next]_vars => WellFormed(fs)'
  BY NamesStayWellFormed DEF vars, WellFormed, IsFs, OneCopyOf
<1>3. WellFormed(fs) => OneCopy
  BY WellFormedHasOneCopy
<1>4. QED
  BY <1>1, <1>2, <1>3, PTL DEF Spec

-----------------------------------------------------------------------------
(* The references of root, of cwd and of the descriptors.                  *)

\* Each slot has a reference for everyone who points to it; u[s] descriptors do.
Covered(f, u) ==
  \A s \in Slots :
    f.minode[s].refCount >=
      u[s] + (IF s = f.root THEN 1 ELSE 0) + (IF s = f.cwd THEN 1 ELSE 0)

LEMMA CoveredIsKept ==
  ASSUME ShortPaths, NEW f, NEW g, NEW u \in [Slots -> Nat], IsFs(f), Covered(f, u),
         Keeps(f, g), g.ok
  PROVE  Covered(g, u) /\ InodesStay(f, g) /\ g.root = f.root
<1>1. \A s \in Slots : f.minode[s].refCount \in Int /\ g.minode[s].refCount \in Int /\ u[s] \in Nat
  BY RefsAreInts DEF Keeps, Sane
<1>2. Debtless(f)
  BY <1>1 DEF Covered, Debtless
<1>3. InodesStay(f, g) /\ \A s \in Slots : g.minode[s].refCount >= f.minode[s].refCount
  BY <1>2 DEF Keeps, Counted
<1>4. g.root = f.root /\ g.cwd = f.cwd
  BY DEF Keeps, Sane
<1>5. QED
  BY <1>1, <1>3, <1>4 DEF Covered

\* What cd does to the references.
LEMMA MovedRefs ==
  ASSUME ShortPaths, NEW f, NEW h, IsFs(f), Debtless(f), f.minode[f.cwd].refCount > 0,
         Moved(f, h), h.ok
  PROVE  /\ InodesStay(f, h) /\ h.root = f.root /\ h.cwd \in Slots
         /\ \A t \in Slots : h.minode[t].refCount =
              f.minode[t].refCount + (IF t = h.cwd THEN 1 ELSE 0) - (IF t = f.cwd THEN 1 ELSE 0)
<1>1. PICK g, s : Adds(f, g, s) /\ h = [iput(g, g.cwd) EXCEPT !.cwd = s]
  BY DEF Moved
<1> DEFINE e == iput(g, g.cwd)
<1>2. IsFs(g) /\ g.cwd = f.cwd /\ g.root = f.root /\ g.cwd \in Slots /\ s \in Slots /\ Sane(f, g)
  BY <1>1 DEF Adds, Sane, IsFs
<1>3. Given(g, e, g.cwd)
  BY <1>2, iputGives
<1>4. h = [e EXCEPT !.cwd = s]
  BY <1>1
<1> HIDE DEF e
<1>5. h.minode = e.minode /\ h.root = e.root /\ h.cwd = s /\ h.ok = e.ok
  BY <1>3, <1>4 DEF Given, IsFs, Fields
<1>6. Counted(f, g)
  BY <1>3, <1>5 DEF Counted, Given
<1>7. InodesStay(f, g) /\ \A t \in Slots : g.minode[t].refCount =
        f.minode[t].refCount + IF t = s THEN 1 ELSE 0
  BY <1>1, <1>6 DEF Adds
<1>8. \A t \in Slots : f.minode[t].refCount \in Int /\ f.minode[t].refCount >= 0
  BY RefsAreInts DEF Debtless
<1>9. g.minode[g.cwd].refCount > 0
  BY <1>2, <1>7, <1>8
<1>10. InodesStay(f, h)
  BY <1>3, <1>5, <1>7 DEF Given, InodesStay, FileStays
<1>11. \A t \in Slots : h.minode[t].refCount =
         g.minode[t].refCount - (IF t = f.cwd THEN 1 ELSE 0)
  BY <1>2, <1>3, <1>5, <1>7, <1>8, <1>9 DEF Given
<1>12. QED
  BY <1>2, <1>3, <1>5, <1>7, <1>8, <1>10, <1>11 DEF Given

LEMMA CoveredIsMoved ==
  ASSUME ShortPaths, NEW f, NEW h, NEW u \in [Slots -> Nat], IsFs(f), Covered(f, u),
         Moved(f, h), h.ok
  PROVE  Covered(h, u) /\ InodesStay(f, h) /\ h.root = f.root
<1>1. \A s \in Slots : f.minode[s].refCount \in Int /\ u[s] \in Nat
  BY RefsAreInts
<1>2. f.cwd \in Slots
  BY DEF IsFs
<1>3. Debtless(f) /\ f.minode[f.cwd].refCount > 0
  BY <1>1, <1>2 DEF Covered, Debtless
<1>4. /\ InodesStay(f, h) /\ h.root = f.root
      /\ \A t \in Slots : h.minode[t].refCount =
           f.minode[t].refCount + (IF t = h.cwd THEN 1 ELSE 0) - (IF t = f.cwd THEN 1 ELSE 0)
  BY <1>3, MovedRefs
<1>5. QED
  BY <1>1, <1>4 DEF Covered

LEMMA DoneIsCovered ==
  ASSUME ShortPaths, NEW f, NEW u \in [Slots -> Nat], IsFs(f), Covered(f, u), Do(f)
  PROVE  /\ Covered(fs', u) /\ InodesStay(f, fs') /\ fs'.root = f.root /\ fs'.cwd = f.cwd
         /\ fs'.ok
         /\ \A t \in Slots : fs'.minode[t].refCount = f.minode[t].refCount
<1> DEFINE g == Tidy(f)
<1>1. f.ok /\ fs' = g
  BY DEF Do
<1>2. Balanced(f, g) /\ g.ok
  BY <1>1, TidyIsBalanced
<1> HIDE DEF g
<1>3. Keeps(f, g)
  BY <1>2, BalancedKeeps
<1>4. Covered(g, u) /\ InodesStay(f, g) /\ g.root = f.root
  BY <1>2, <1>3, CoveredIsKept
<1>5. Debtless(f)
  BY RefsAreInts DEF Covered, Debtless
<1>6. \A t \in Slots : g.minode[t].refCount = f.minode[t].refCount
  BY <1>2, <1>5 DEF Balanced, Counted
<1>7. g.cwd = f.cwd
  BY <1>3 DEF Keeps, Sane
<1>8. QED
  BY <1>1, <1>2, <1>4, <1>6, <1>7

NoUsers == [s \in Slots |-> 0]

LEMMA NoUsersType == NoUsers \in [Slots -> Nat] /\ \A s \in Slots : NoUsers[s] = 0
BY DEF NoUsers

\* After a mount root and cwd have three references of the first slot.
LEMMA RootOnlyIsCovered ==
  ASSUME NEW f, RootOnly(f, 3), f.ok
  PROVE  Covered(f, NoUsers) /\ f.minode[f.root].ino = ROOT
BY NoUsersType DEF RootOnly, Covered

\* The inductive invariant of the commands on names.
Pointed(f) ==
  /\ IsFs(f) /\ f.ok
  /\ Covered(f, NoUsers)
  /\ f.minode[f.root].ino = ROOT

LEMMA DoneIsPointed ==
  ASSUME ShortPaths, NEW f, Pointed(f), Do(f)
  PROVE  Pointed(fs')
<1>1. /\ Covered(fs', NoUsers) /\ InodesStay(f, fs') /\ fs'.root = f.root /\ fs'.ok
  BY NoUsersType, DoneIsCovered DEF Pointed
<1>2. IsFs(fs')
  BY TidyIsBalanced DEF Do, Pointed, Balanced, Sane
<1>3. f.root \in Slots /\ f.minode[f.root].refCount \in Int /\ f.minode[f.root].refCount > 0
  BY NoUsersType, RefsAreInts DEF Pointed, IsFs, Covered
<1>4. QED
  BY <1>1, <1>2, <1>3 DEF Pointed, InodesStay

LEMMA CommandIsPointed ==
  ASSUME ShortPaths, Pointed(fs), NEW f, Keeps(fs, f) \/ Moved(fs, f), f.ok, IsFs(f)
  PROVE  Pointed(f)
<1>1. Covered(f, NoUsers) /\ InodesStay(fs, f) /\ f.root = fs.root
  BY NoUsersType, CoveredIsKept, CoveredIsMoved DEF Pointed
<1>2. fs.root \in Slots /\ fs.minode[fs.root].refCount \in Int /\ fs.minode[fs.root].refCount > 0
  BY NoUsersType, RefsAreInts DEF Pointed, IsFs, Covered
<1>3. QED
  BY <1>1, <1>2 DEF Pointed, InodesStay

LEMMA MovedIsFs ==
  ASSUME NEW f, NEW h, IsFs(f), Moved(f, h)
  PROVE  IsFs(h)
<1>1. PICK g, s : Adds(f, g, s) /\ h = [iput(g, g.cwd) EXCEPT !.cwd = s]
  BY DEF Moved
<1> DEFINE e == iput(g, g.cwd)
<1>2. IsFs(g) /\ g.cwd \in Slots /\ s \in Slots
  BY <1>1 DEF Adds, Sane, IsFs
<1>3. IsFs(e)
  BY <1>2, iputIsSane DEF Sane
<1>4. h = [e EXCEPT !.cwd = s]
  BY <1>1
<1> HIDE DEF e
<1>5. QED
  BY <1>2, <1>3, <1>4 DEF IsFs, Fields

LEMMA PointedStep ==
  ASSUME ShortPaths, Pointed(fs), Next
  PROVE  Pointed(fs')
<1>1. CASE Command
  <2>1. PICK f : Do(f) /\ (Keeps(fs, f) \/ Moved(fs, f))
    BY <1>1, CommandStep DEF Pointed
  <2>2. IsFs(f) /\ f.ok
    BY <2>1, MovedIsFs DEF Keeps, Sane, Pointed, Do
  <2>3. QED
    BY <2>1, <2>2, CommandIsPointed, DoneIsPointed
<1>2. CASE Restart
  <2>1. PICK f : Do(f) /\ RootOnly(f, 3)
    BY <1>2, RestartStep DEF Pointed
  <2>2. Pointed(f)
    BY <2>1, RootOnlyIsCovered DEF RootOnly, Pointed, Do
  <2>3. QED
    BY <2>1, <2>2, DoneIsPointed
<1>3. QED
  BY <1>1, <1>2 DEF Next

LEMMA PointedSlotsInUse ==
  ASSUME Pointed(fs)
  PROVE  SlotsInUse
BY NoUsersType, RefsAreInts DEF Pointed, IsFs, Covered, SlotsInUse

LEMMA InitIsPointed ==
  ASSUME Init
  PROVE  Pointed(fs) /\ RootOnly(fs, 3)
<1>1. NewDisk.ok
  BY DEF NewDisk
<1>2. RootOnly(fs, 3) /\ fs.ok
  BY <1>1, NewDiskIsFs, MountedIsRootOnly DEF Init
<1>3. QED
  BY <1>2, RootOnlyIsCovered DEF Pointed, RootOnly

\* With no path of two names, the slots of the root and of cwd are always in
\* use, and the root's holds it: no command puts back a reference that root
\* or running->cwd holds, and no iget() takes their slots for another inode.
THEOREM RootAndCwdStayInUse == ASSUME ShortPaths PROVE Spec => []SlotsInUse
<1>1. Init => Pointed(fs)
  BY InitIsPointed
<1>2. Pointed(fs) /\ [Next]_vars => Pointed(fs)'
  BY PointedStep DEF vars, Pointed, IsFs, Covered
<1>3. Pointed(fs) => SlotsInUse
  BY PointedSlotsInUse
<1>4. QED
  BY <1>1, <1>2, <1>3, PTL DEF Spec

\* Nobody but root and cwd has a reference, and cwd has one: what holds as
\* long as no command that keeps a reference is typed.
Exact(f) ==
  /\ Pointed(f)
  /\ \A s \in Slots \ {f.root} : f.minode[s].refCount = IF s = f.cwd THEN 1 ELSE 0

LEMMA PointedIsDebtless ==
  ASSUME NEW f, Pointed(f)
  PROVE  Debtless(f) /\ f.cwd \in Slots /\ f.minode[f.cwd].refCount > 0
BY NoUsersType, RefsAreInts DEF Pointed, IsFs, Covered, Debtless

LEMMA DoneIsExact ==
  ASSUME ShortPaths, NEW f, Exact(f), Do(f)
  PROVE  Exact(fs')
<1>1. Pointed(fs')
  BY DoneIsPointed DEF Exact
<1>2. /\ fs'.root = f.root /\ fs'.cwd = f.cwd
      /\ \A t \in Slots : fs'.minode[t].refCount = f.minode[t].refCount
  BY NoUsersType, DoneIsCovered DEF Exact, Pointed
<1>3. QED
  BY <1>1, <1>2 DEF Exact

LEMMA ExactStep ==
  ASSUME ShortPaths, Commands \cap {"stat", "rmdir"} = {}, Exact(fs), Next
  PROVE  Exact(fs')
<1>1. CASE Command
  <2>1. PICK f : Do(f) /\ (Balanced(fs, f) \/ Moved(fs, f))
    BY <1>1, CommandStep DEF Exact, Pointed
  <2>2. Pointed(fs) /\ IsFs(fs) /\ f.ok
    BY <2>1 DEF Exact, Pointed, Do
  <2>3. Debtless(fs) /\ fs.cwd \in Slots /\ fs.minode[fs.cwd].refCount > 0
    BY <2>2, PointedIsDebtless
  <2>4. Pointed(f)
    BY <2>1, <2>2, BalancedKeeps, MovedIsFs, CommandIsPointed DEF Keeps, Sane
  <2>5. \A t \in Slots \ {fs.root} : fs.minode[t].refCount = IF t = fs.cwd THEN 1 ELSE 0
    BY DEF Exact
  <2>6. CASE Balanced(fs, f)
    <3>1. \A t \in Slots : f.minode[t].refCount = fs.minode[t].refCount
      BY <2>2, <2>3, <2>6 DEF Balanced, Counted
    <3>2. f.root = fs.root /\ f.cwd = fs.cwd
      BY <2>6 DEF Balanced, Sane
    <3>3. Exact(f)
      BY <2>4, <2>5, <3>1, <3>2 DEF Exact
    <3>4. QED
      BY <2>1, <3>3, DoneIsExact
  <2>7. CASE Moved(fs, f)
    <3>1. /\ f.root = fs.root
          /\ \A t \in Slots : f.minode[t].refCount =
               fs.minode[t].refCount + (IF t = f.cwd THEN 1 ELSE 0)
                 - (IF t = fs.cwd THEN 1 ELSE 0)
      BY <2>2, <2>3, <2>7, MovedRefs
    <3>2. Exact(f)
      BY <2>4, <2>5, <3>1 DEF Exact
    <3>3. QED
      BY <2>1, <3>2, DoneIsExact
  <2>8. QED
    BY <2>1, <2>6, <2>7
<1>2. CASE Restart
  <2>1. PICK f : Do(f) /\ RootOnly(f, 3)
    BY <1>2, RestartStep DEF Exact, Pointed
  <2>2. Exact(f)
    BY <2>1, RootOnlyIsCovered DEF RootOnly, Exact, Pointed, Do
  <2>3. QED
    BY <2>1, <2>2, DoneIsExact
<1>3. QED
  BY <1>1, <1>2 DEF Next

\* When neither stat nor rmdir, which keep references, is typed, and no path
\* of two names, every slot in use at the prompt is the root's or cwd's: every
\* other handler puts back all it has taken.
THEOREM OthersPutBack ==
  ASSUME ShortPaths, Commands \cap {"stat", "rmdir"} = {}
  PROVE  Spec => []HeldDirsAreUsed
<1>1. Init => Exact(fs)
  BY InitIsPointed DEF RootOnly, Pointed, Exact
<1>2. Exact(fs) /\ [Next]_vars => Exact(fs)'
  BY ExactStep DEF vars, Exact, Pointed, IsFs, Covered
<1>3. Exact(fs) => HeldDirsAreUsed
  BY DEF Exact, HeldDirsAreUsed
<1>4. QED
  BY <1>1, <1>2, <1>3, PTL DEF Spec

-----------------------------------------------------------------------------
(* Writing and copying.                                                    *)

LEMMA AllocatedSame ==
  ASSUME NEW f, IsFs(f), NEW s, NEW lblk
  PROVE  SameSlots(f, Allocated(f, s, lblk))
<1> DEFINE none == Require(f, FALSE)
           a == balloc(f)
           b == NextBlock(f)
           g == [a EXCEPT !.minode[s].INODE.blk[lblk] = b]
<1>1. SameSlots(f, none) /\ SameSlots(f, f)
  BY RequireSame DEF SameSlots, FileStays
<1>2. SameSlots(f, g)
  <2>1. SameSlots(f, a)
    BY ballocSame
  <2> HIDE DEF a, b
  <2>2. QED
    BY <2>1 DEF SameSlots, FileStays, IsFs, IsMinode, IsInode, Fields
<1>3. Allocated(f, s, lblk) \in {none, f, g}
  BY DEF Allocated
<1> HIDE DEF none, g
<1>4. QED
  BY <1>1, <1>2, <1>3

LEMMA GrowIsInode ==
  ASSUME NEW inode, IsInode(inode), NEW end, NEW n
  PROVE  IsInode(Grow(inode, end, n)) /\ Grow(inode, end, n).type = inode.type
BY DEF Grow, IsInode

LEMMA PutSame ==
  ASSUME NEW f, IsFs(f), NEW s \in Slots, NEW b, NEW e, NEW end, NEW n
  PROVE  SameSlots(f, [f EXCEPT !.block[b] = e, !.minode[s].INODE = Grow(@, end, n),
                                !.minode[s].dirty = TRUE])
<1> DEFINE inode == Grow(f.minode[s].INODE, end, n)
           g == [f EXCEPT !.block[b] = e, !.minode[s].INODE = inode, !.minode[s].dirty = TRUE]
<1>1. IsMinode(f.minode[s])
  BY DEF IsFs
<1>2. IsInode(inode) /\ inode.type = f.minode[s].INODE.type
  BY <1>1, GrowIsInode DEF IsMinode
<1> HIDE DEF inode
<1>3. SameSlots(f, g)
  BY <1>1, <1>2 DEF SameSlots, FileStays, IsFs, IsMinode, Fields
<1>4. QED
  BY <1>3 DEF inode

LEMMA WriteChunkIsBalanced ==
  ASSUME NEW w, IsFs(w.fs), NEW s \in Slots, NEW text
  PROVE  Balanced(w.fs, WriteChunk(w, s, text).fs)
<1> DEFINE at == Place(w.offset)
           n == Min({BLKSIZE - at.start, w.left})
           f == Allocated(w.fs, s, at.lblk)
           b == f.minode[s].INODE.blk[at.lblk]
           e == Overlay(f.block[b], at.start, SubSeq(text, 1, n))
           g == [f EXCEPT !.block[b] = e, !.minode[s].INODE = Grow(@, w.offset + n, n),
                          !.minode[s].dirty = TRUE]
<1>1. Balanced(w.fs, f)
  BY AllocatedSame, SameIsBalanced
<1>2. WriteChunk(w, s, text).fs \in {w.fs, f, g}
  BY DEF WriteChunk
<1> HIDE DEF f, e, b, n, at
<1>3. Balanced(f, g)
  <2>1. IsFs(f)
    BY <1>1 DEF Balanced, Sane
  <2> DEFINE end == w.offset + n
  <2> HIDE DEF end
  <2>2. SameSlots(f, [f EXCEPT !.block[b] = e, !.minode[s].INODE = Grow(@, end, n),
                               !.minode[s].dirty = TRUE])
    BY <2>1, PutSame
  <2>3. SameSlots(f, g)
    BY <2>2 DEF end
  <2> HIDE DEF g
  <2>4. QED
    BY <2>3, SameIsBalanced
<1> HIDE DEF g
<1>4. QED
  BY <1>1, <1>2, <1>3, NothingIsBalanced, BalancedChain

LEMMA WriteLoop ==
  ASSUME NEW f, NEW s, NEW offset, NEW text
  PROVE  \E g : /\ g[0].fs = f
                /\ \A k \in 1 .. NDirect + 1 : g[k] = WriteChunk(g[k - 1], s, text)
                /\ my_write(f, s, offset, text) = g[NDirect + 1]
<1> DEFINE start == [fs |-> f, offset |-> offset, left |-> Len(text)]
           c == [s |-> s, text |-> text]
           Loop(g) == g = [k \in 0 .. NDirect + 1 |->
                             IF k = 0 THEN start ELSE WriteChunk(g[k - 1], s, text)]
           turns == CHOOSE g : Loop(g)
<1>0. NDirect + 1 \in Nat
  BY SizesFacts
<1>1. PICK g : Turns(g, "write", c, start, NDirect + 1)
  BY <1>0, TurnsExist
<1>2. Loop(g)
  BY <1>1 DEF Turns, Turn
<1>3. my_write(f, s, offset, text) = turns[NDirect + 1]
  BY DEF my_write
<1>4. Loop(turns)
  <2> HIDE DEF Loop
  <2>1. QED
    BY <1>2
<1> HIDE DEF turns
<1>5. turns[0] = start /\ \A k \in 1 .. NDirect + 1 : turns[k] = WriteChunk(turns[k - 1], s, text)
  BY <1>4, SizesFacts
<1>6. QED
  BY <1>3, <1>5

LEMMA my_writeIsBalanced ==
  ASSUME NEW f, IsFs(f), NEW s \in Slots, NEW offset, NEW text
  PROVE  Balanced(f, my_write(f, s, offset, text).fs)
<1>1. PICK g : /\ g[0].fs = f
               /\ \A k \in 1 .. NDirect + 1 : g[k] = WriteChunk(g[k - 1], s, text)
               /\ my_write(f, s, offset, text) = g[NDirect + 1]
  BY WriteLoop
<1>a. NDirect + 1 \in Nat
  BY SizesFacts
<1> DEFINE T == {k \in 0 .. NDirect + 1 : Balanced(f, g[k].fs)}
<1>2. 0 \in T
  BY <1>1, <1>a, NothingIsBalanced
<1>3. ASSUME NEW k \in 1 .. NDirect + 1, k - 1 \in T
      PROVE  k \in T
  <2>1. Balanced(f, g[k - 1].fs)
    BY <1>3
  <2>2. IsFs(g[k - 1].fs)
    BY <2>1 DEF Balanced, Sane
  <2>3. Balanced(g[k - 1].fs, g[k].fs)
    BY <1>1, <2>2, WriteChunkIsBalanced
  <2>4. k \in 0 .. NDirect + 1
    BY <1>a
  <2>5. QED
    BY <2>1, <2>3, <2>4, BalancedChain
<1>4. NDirect + 1 \in T
  <2> HIDE DEF T
  <2>1. QED
    BY <1>2, <1>3, <1>a, LoopInduction
<1>5. QED
  BY <1>1, <1>4

LEMMA CopyLoop ==
  ASSUME NEW f, NEW from, NEW to
  PROVE  \E g : /\ g[0].fs = f
                /\ \A k \in 1 .. NDirect : g[k] = CopyChunk(g[k - 1], from, to)
                /\ Copied(f, from, to) = g[NDirect].fs
<1> DEFINE start == [fs |-> f, at |-> 0]
           c == [from |-> from, to |-> to]
           Loop(g) == g = [k \in 0 .. NDirect |->
                             IF k = 0 THEN start ELSE CopyChunk(g[k - 1], from, to)]
           turns == CHOOSE g : Loop(g)
<1>1. PICK g : Turns(g, "copy", c, start, NDirect)
  BY TurnsExist, SizesFacts
<1>2. Loop(g)
  BY <1>1 DEF Turns, Turn
<1>3. Copied(f, from, to) = turns[NDirect].fs
  BY DEF Copied
<1>4. Loop(turns)
  <2> HIDE DEF Loop
  <2>1. QED
    BY <1>2
<1> HIDE DEF turns
<1>5. turns[0] = start /\ \A k \in 1 .. NDirect : turns[k] = CopyChunk(turns[k - 1], from, to)
  BY <1>4, SizesFacts
<1>6. QED
  BY <1>3, <1>5

LEMMA CopyChunkIsBalanced ==
  ASSUME NEW w, IsFs(w.fs), NEW from, NEW to \in Slots
  PROVE  Balanced(w.fs, CopyChunk(w, from, to).fs)
<1> DEFINE r == my_read(w.fs, w.fs.minode[from].INODE, w.at, BLKSIZE)
           g == my_write(w.fs, to, w.at, r.buf)
<1>1. CopyChunk(w, from, to).fs \in {w.fs, g.fs}
  BY DEF CopyChunk
<1> HIDE DEF r
<1>2. Balanced(w.fs, g.fs)
  BY my_writeIsBalanced
<1> HIDE DEF g
<1>3. QED
  BY <1>1, <1>2, NothingIsBalanced

LEMMA CopiedIsBalanced ==
  ASSUME NEW f, IsFs(f), NEW from, NEW to \in Slots
  PROVE  Balanced(f, Copied(f, from, to))
<1>1. PICK g : /\ g[0].fs = f
               /\ \A k \in 1 .. NDirect : g[k] = CopyChunk(g[k - 1], from, to)
               /\ Copied(f, from, to) = g[NDirect].fs
  BY CopyLoop
<1> DEFINE T == {k \in 0 .. NDirect : Balanced(f, g[k].fs)}
<1>2. 0 \in T
  BY <1>1, NothingIsBalanced, SizesFacts
<1>3. ASSUME NEW k \in 1 .. NDirect, k - 1 \in T
      PROVE  k \in T
  <2>1. Balanced(f, g[k - 1].fs)
    BY <1>3
  <2>2. IsFs(g[k - 1].fs)
    BY <2>1 DEF Balanced, Sane
  <2>3. Balanced(g[k - 1].fs, g[k].fs)
    BY <1>1, <2>2, CopyChunkIsBalanced
  <2>4. k \in 0 .. NDirect
    BY SizesFacts
  <2>5. QED
    BY <2>1, <2>3, <2>4, BalancedChain
<1>4. NDirect \in T
  <2> HIDE DEF T
  <2>1. QED
    BY <1>2, <1>3, SizesFacts, LoopInduction
<1>5. QED
  BY <1>1, <1>4

LEMMA my_truncateIsBalanced ==
  ASSUME NEW f, IsFs(f), NEW s
  PROVE  Balanced(f, my_truncate(f, s))
<1> DEFINE e == FreeBlocksOf(f, f.minode[s].INODE)
           g == [e EXCEPT !.minode[s].INODE.size = 0, !.minode[s].dirty = TRUE]
<1>1. Balanced(f, e) /\ IsFs(e)
  BY FreeBlocksBalanced DEF Balanced, Sane
<1>2. my_truncate(f, s) = g
  BY DEF my_truncate
<1> HIDE DEF e
<1>3. SameSlots(e, g)
  BY <1>1 DEF SameSlots, FileStays, IsFs, IsMinode, IsInode, Fields
<1> HIDE DEF g
<1>4. QED
  BY <1>1, <1>2, <1>3, SameIsBalanced, BalancedChain

-----------------------------------------------------------------------------
(* The descriptor table t, next to the file system f.                      *)

IsTable(t) ==
  /\ DOMAIN t = Fds
  /\ \A i \in Fds : t[i] # NoOFT =>
       DOMAIN t[i] = {"mode", "inodeptr", "offset"} /\ t[i].inodeptr \in Slots

Users(t, s) == {i \in Fds : t[i] # NoOFT /\ t[i].inodeptr = s}
UsersOf(t) == [s \in Slots |-> Cardinality(Users(t, s))]

\* Two descriptors of one slot are both for reading.
Shared(t) ==
  \A i, j \in Fds :
    i # j /\ t[i] # NoOFT /\ t[j] # NoOFT /\ t[i].inodeptr = t[j].inodeptr
      => t[i].mode = "R" /\ t[j].mode = "R"

OpenAreFiles(f, t) ==
  \A i \in Fds : t[i] # NoOFT => f.minode[t[i].inodeptr].INODE.type = "reg"

\* The inductive invariant of the commands on files.
InHand(f, t) ==
  /\ IsFs(f) /\ OneCopyOf(f) /\ IsTable(t) /\ Shared(t)
  /\ ShortPaths /\ f.ok => /\ Covered(f, UsersOf(t))
                           /\ f.minode[f.root].ino = ROOT
                           /\ FilesStay => OpenAreFiles(f, t)

LEMMA UsersAreFinite ==
  ASSUME NEW t, NEW s
  PROVE  IsFiniteSet(Users(t, s)) /\ Cardinality(Users(t, s)) \in Nat
<1>1. IsFiniteSet(Fds)
  <2>1. NFD - 1 \in Int
    BY FilesAssumption
  <2>2. QED
    BY <2>1, FS_Interval DEF Fds
<1>2. Users(t, s) \in SUBSET Fds
  BY DEF Users
<1>3. QED
  BY <1>1, <1>2, FS_Subset, FS_CardinalityType

LEMMA UsersOfType ==
  ASSUME NEW t
  PROVE  /\ UsersOf(t) \in [Slots -> Nat]
         /\ \A s \in Slots : UsersOf(t)[s] = Cardinality(Users(t, s))
BY UsersAreFinite DEF UsersOf

\* A slot that a descriptor points to has a user.
LEMMA UsedByOne ==
  ASSUME NEW t, IsTable(t), NEW i \in Fds, t[i] # NoOFT
  PROVE  t[i].inodeptr \in Slots /\ UsersOf(t)[t[i].inodeptr] >= 1
<1> DEFINE s == t[i].inodeptr
<1>1. s \in Slots /\ i \in Users(t, s)
  BY DEF IsTable, Users
<1>2. Cardinality(Users(t, s)) # 0 /\ Cardinality(Users(t, s)) \in Nat
  BY <1>1, UsersAreFinite, FS_EmptySet
<1>3. QED
  BY <1>1, <1>2, UsersOfType

LEMMA UsedIsPositive ==
  ASSUME NEW f, NEW t, IsFs(f), IsTable(t), Covered(f, UsersOf(t)), NEW i \in Fds, t[i] # NoOFT
  PROVE  f.minode[t[i].inodeptr].refCount > 0
<1> DEFINE s == t[i].inodeptr
<1>1. s \in Slots /\ UsersOf(t)[s] >= 1 /\ UsersOf(t)[s] \in Nat /\ f.minode[s].refCount \in Int
  BY UsedByOne, UsersOfType, RefsAreInts
<1>2. QED
  BY <1>1 DEF Covered

LEMMA RootIsPositive ==
  ASSUME NEW f, NEW t, IsFs(f), Covered(f, UsersOf(t))
  PROVE  f.root \in Slots /\ f.minode[f.root].refCount > 0
<1>1. f.root \in Slots /\ UsersOf(t)[f.root] \in Nat /\ f.minode[f.root].refCount \in Int
  BY UsersOfType, RefsAreInts DEF IsFs
<1>2. QED
  BY <1>1 DEF Covered

\* What keeps the inodes of the slots in use keeps the descriptors' files.
LEMMA InodesStayInHand ==
  ASSUME NEW f, NEW g, NEW t, IsFs(f), IsTable(t), Covered(f, UsersOf(t)),
         f.minode[f.root].ino = ROOT, FilesStay => OpenAreFiles(f, t),
         InodesStay(f, g), g.root = f.root
  PROVE  /\ g.minode[g.root].ino = ROOT
         /\ FilesStay => OpenAreFiles(g, t)
<1>1. g.minode[g.root].ino = ROOT
  BY RootIsPositive DEF InodesStay
<1>2. ASSUME FilesStay, NEW i \in Fds, t[i] # NoOFT
      PROVE  g.minode[t[i].inodeptr].INODE.type = "reg"
  <2>1. t[i].inodeptr \in Slots /\ f.minode[t[i].inodeptr].refCount > 0
    BY <1>2, UsedIsPositive, UsedByOne
  <2>2. f.minode[t[i].inodeptr].INODE.type = "reg"
    BY <1>2 DEF OpenAreFiles
  <2>3. QED
    BY <1>2, <2>1, <2>2 DEF InodesStay, FileStays
<1>3. QED
  BY <1>1, <1>2 DEF OpenAreFiles

LEMMA KeptInHand ==
  ASSUME NEW f, NEW g, NEW t, InHand(f, t), Keeps(f, g)
  PROVE  InHand(g, t)
<1>1. IsFs(g) /\ OneCopyOf(g) /\ IsFs(f) /\ IsTable(t) /\ Shared(t) /\ (g.ok => f.ok)
  BY DEF InHand, Keeps, Sane
<1>2. ASSUME ShortPaths, g.ok
      PROVE  /\ Covered(g, UsersOf(t))
             /\ g.minode[g.root].ino = ROOT
             /\ FilesStay => OpenAreFiles(g, t)
  <2>1. Covered(f, UsersOf(t)) /\ f.minode[f.root].ino = ROOT /\ (FilesStay => OpenAreFiles(f, t))
    BY <1>1, <1>2 DEF InHand
  <2>2. Covered(g, UsersOf(t)) /\ InodesStay(f, g) /\ g.root = f.root
    BY <1>1, <1>2, <2>1, UsersOfType, CoveredIsKept
  <2>3. QED
    BY <1>1, <2>1, <2>2, InodesStayInHand
<1>3. QED
  BY <1>1, <1>2 DEF InHand

LEMMA MovedInHand ==
  ASSUME NEW f, NEW h, NEW t, InHand(f, t), Moved(f, h)
  PROVE  InHand(h, t)
<1>1. IsFs(h) /\ OneCopyOf(h) /\ IsFs(f) /\ IsTable(t) /\ Shared(t)
  BY MovedIsSane DEF InHand, WellFormed
<1>2. h.ok => f.ok
  <2>1. PICK g, s : Adds(f, g, s) /\ h = [iput(g, g.cwd) EXCEPT !.cwd = s]
    BY DEF Moved
  <2> DEFINE e == iput(g, g.cwd)
  <2>2. IsFs(g) /\ g.cwd \in Slots /\ (g.ok => f.ok)
    BY <2>1 DEF Adds, Sane, IsFs
  <2>3. IsFs(e) /\ (e.ok => g.ok)
    BY <2>2, iputIsSane DEF Sane
  <2>4. h = [e EXCEPT !.cwd = s]
    BY <2>1
  <2> HIDE DEF e
  <2>5. QED
    BY <2>2, <2>3, <2>4 DEF IsFs, Fields
<1>3. ASSUME ShortPaths, h.ok
      PROVE  /\ Covered(h, UsersOf(t))
             /\ h.minode[h.root].ino = ROOT
             /\ FilesStay => OpenAreFiles(h, t)
  <2>1. Covered(f, UsersOf(t)) /\ f.minode[f.root].ino = ROOT /\ (FilesStay => OpenAreFiles(f, t))
    BY <1>2, <1>3 DEF InHand
  <2>2. Covered(h, UsersOf(t)) /\ InodesStay(f, h) /\ h.root = f.root
    BY <1>1, <1>3, <2>1, UsersOfType, CoveredIsMoved
  <2>3. QED
    BY <1>1, <2>1, <2>2, InodesStayInHand
<1>4. QED
  BY <1>1, <1>3 DEF InHand

LEMMA DoneInHand ==
  ASSUME NEW f, NEW t, InHand(f, t), Do(f)
  PROVE  InHand(fs', t) /\ fs'.ok
<1>1. f.ok /\ fs' = Tidy(f) /\ IsFs(f)
  BY DEF Do, InHand
<1>2. Keeps(f, Tidy(f)) /\ Tidy(f).ok
  BY <1>1, TidyIsBalanced, BalancedKeeps
<1>3. QED
  BY <1>1, <1>2, KeptInHand

\* read, write and lseek move an offset.
LEMMA OffsetInHand ==
  ASSUME NEW f, NEW t, InHand(f, t), NEW i \in Fds, t[i] # NoOFT, NEW offset
  PROVE  InHand(f, [t EXCEPT ![i].offset = offset])
<1> DEFINE e == [t[i] EXCEPT !.offset = offset]
           u == [t EXCEPT ![i] = e]
<1>1. DOMAIN t = Fds /\ DOMAIN t[i] = {"mode", "inodeptr", "offset"} /\ t[i].inodeptr \in Slots
  BY DEF InHand, IsTable
<1>2. NoOFT.inodeptr \notin Slots
  BY DEF NoOFT, NULL, Slots
<1>3. /\ DOMAIN e = {"mode", "inodeptr", "offset"}
      /\ e.inodeptr = t[i].inodeptr /\ e.mode = t[i].mode /\ e # NoOFT
  BY <1>1, <1>2
<1> HIDE DEF e
<1>4. /\ DOMAIN u = Fds
      /\ \A j \in Fds : /\ u[j] # NoOFT <=> t[j] # NoOFT
                        /\ u[j].inodeptr = t[j].inodeptr /\ u[j].mode = t[j].mode
                        /\ DOMAIN u[j] = DOMAIN t[j]
  BY <1>1, <1>3
<1>5. u = [t EXCEPT ![i].offset = offset]
  BY DEF e
<1> HIDE DEF u
<1>6. IsTable(u) /\ Shared(u)
  BY <1>4 DEF InHand, IsTable, Shared
<1>7. \A s : Users(u, s) = Users(t, s)
  BY <1>4 DEF Users
<1>8. UsersOf(u) = UsersOf(t)
  BY <1>7 DEF UsersOf
<1>9. OpenAreFiles(f, t) => OpenAreFiles(f, u)
  BY <1>4 DEF OpenAreFiles
<1>10. InHand(f, u)
  BY <1>6, <1>8, <1>9 DEF InHand
<1>11. QED
  BY <1>5, <1>10

-----------------------------------------------------------------------------
(* open_file() and my_close().                                             *)

\* On the way from f to g a reference of slot s has been added, for a file.
Holds(f, g, s) ==
  \E p : /\ Keeps(f, p) /\ Adds(p, g, s)
         /\ Counted(p, g) /\ FilesStay => g.minode[s].INODE.type = "reg"

\* u is t with i a new descriptor of slot s.
Gains(t, u, i, mode, s) ==
  i \in Fds /\ t[i] = NoOFT /\ \E offset : u = [t EXCEPT ![i] = OFT(mode, s, offset)]

\* o is what open_file() makes of f and t: nothing more, or a descriptor.
Opens(f, t, o) ==
  \/ o.i = -1 /\ o.fd = t /\ Keeps(f, o.fs)
  \/ \E mode, s : Gains(t, o.fd, o.i, mode, s) /\ ~InUse(t, s, mode) /\ Holds(f, o.fs, s)

LEMMA NewUser ==
  ASSUME NEW t, IsTable(t), NEW u, NEW i, NEW mode, NEW s \in Slots, Gains(t, u, i, mode, s)
  PROVE  /\ IsTable(u)
         /\ ~InUse(t, s, mode) /\ Shared(t) => Shared(u)
         /\ u[i].inodeptr = s
         /\ \A j \in Fds \ {i} : u[j] = t[j]
         /\ \A x \in Slots : UsersOf(u)[x] = UsersOf(t)[x] + IF x = s THEN 1 ELSE 0
<1>a. PICK offset : u = [t EXCEPT ![i] = OFT(mode, s, offset)]
  BY DEF Gains
<1>b. i \in Fds /\ t[i] = NoOFT
  BY DEF Gains
<1> DEFINE e == OFT(mode, s, offset)
<1>1. /\ DOMAIN e = {"mode", "inodeptr", "offset"}
      /\ e.inodeptr = s /\ e.mode = mode
  BY DEF OFT
<1>2. e # NoOFT
  BY <1>1 DEF NoOFT, NULL, Slots
<1>3. u[i] = e /\ DOMAIN u = Fds /\ \A j \in Fds \ {i} : u[j] = t[j]
  BY <1>a, <1>b DEF IsTable
<1> HIDE DEF e
<1>4. IsTable(u)
  BY <1>1, <1>3 DEF IsTable
<1>5. ASSUME ~InUse(t, s, mode), Shared(t)
      PROVE  Shared(u)
  <2>1. SUFFICES ASSUME NEW j \in Fds, NEW k \in Fds, j # k, u[j] # NoOFT, u[k] # NoOFT,
                        u[j].inodeptr = u[k].inodeptr
                 PROVE  u[j].mode = "R" /\ u[k].mode = "R"
    BY DEF Shared
  <2>2. \A x \in Fds : t[x].inodeptr = s => t[x].mode = "R" /\ mode = "R"
    BY <1>5 DEF InUse
  <2>3. CASE j = i
    BY <1>1, <1>3, <2>1, <2>2, <2>3
  <2>4. CASE k = i
    BY <1>1, <1>3, <2>1, <2>2, <2>4
  <2>5. CASE j # i /\ k # i
    BY <1>3, <1>5, <2>1, <2>5 DEF Shared
  <2>6. QED
    BY <2>3, <2>4, <2>5
<1>6. ASSUME NEW x \in Slots
      PROVE  UsersOf(u)[x] = UsersOf(t)[x] + IF x = s THEN 1 ELSE 0
  <2>1. i \notin Users(t, x)
    BY <1>b DEF Users
  <2>2. Users(u, x) = IF x = s THEN Users(t, x) \cup {i} ELSE Users(t, x)
    BY <1>1, <1>2, <1>3, <1>b DEF Users
  <2>3. IsFiniteSet(Users(t, x)) /\ Cardinality(Users(t, x)) \in Nat
    BY UsersAreFinite
  <2>4. Cardinality(Users(t, x) \cup {i}) = Cardinality(Users(t, x)) + 1
    BY <2>1, <2>3, FS_AddElement
  <2>5. Cardinality(Users(u, x)) = Cardinality(Users(t, x)) + IF x = s THEN 1 ELSE 0
    BY <2>2, <2>3, <2>4
  <2>6. QED
    BY <2>5, UsersOfType
<1>7. QED
  BY <1>1, <1>3, <1>4, <1>5, <1>6

LEMMA OpenedInHand ==
  ASSUME NEW f, NEW t, InHand(f, t), NEW g, NEW u, NEW i, NEW mode, NEW s,
         Gains(t, u, i, mode, s), ~InUse(t, s, mode), Holds(f, g, s)
  PROVE  s \in Slots /\ InHand(g, u) /\ u[i].inodeptr = s
<1>1. PICK p : /\ Keeps(f, p) /\ Adds(p, g, s)
               /\ Counted(p, g) /\ FilesStay => g.minode[s].INODE.type = "reg"
  BY DEF Holds
<1>2. InHand(p, t)
  BY <1>1, KeptInHand
<1>3. /\ IsFs(p) /\ IsFs(g) /\ OneCopyOf(g) /\ s \in Slots
      /\ g.root = p.root /\ g.cwd = p.cwd /\ (g.ok => p.ok)
      /\ IsTable(t) /\ Shared(t)
  BY <1>1, <1>2 DEF Adds, Sane, InHand
<1>4. /\ IsTable(u) /\ Shared(u) /\ u[i].inodeptr = s
      /\ \A j \in Fds \ {i} : u[j] = t[j]
      /\ \A x \in Slots : UsersOf(u)[x] = UsersOf(t)[x] + IF x = s THEN 1 ELSE 0
  BY <1>3, NewUser
<1>5. ASSUME ShortPaths, g.ok
      PROVE  /\ Covered(g, UsersOf(u))
             /\ g.minode[g.root].ino = ROOT
             /\ FilesStay => OpenAreFiles(g, u)
  <2>1. Covered(p, UsersOf(t)) /\ p.minode[p.root].ino = ROOT /\ (FilesStay => OpenAreFiles(p, t))
    BY <1>2, <1>3, <1>5 DEF InHand
  <2>2. \A x \in Slots : UsersOf(t)[x] \in Nat /\ p.minode[x].refCount \in Int
    BY <1>3, UsersOfType, RefsAreInts
  <2>3. Debtless(p)
    BY <2>1, <2>2 DEF Covered, Debtless
  <2>4. Counted(p, g)
    BY <1>5, <2>3 DEF Counted
  <2>5. InodesStay(p, g) /\ \A x \in Slots : g.minode[x].refCount =
          p.minode[x].refCount + IF x = s THEN 1 ELSE 0
    BY <1>1, <2>4 DEF Adds
  <2>6. Covered(g, UsersOf(u))
    BY <1>3, <1>4, <2>1, <2>2, <2>5 DEF Covered
  <2>7. g.minode[g.root].ino = ROOT /\ (FilesStay => OpenAreFiles(g, t))
    BY <1>3, <2>1, <2>5, InodesStayInHand
  <2>8. ASSUME FilesStay
        PROVE  OpenAreFiles(g, u)
    BY <1>1, <1>4, <2>4, <2>7, <2>8 DEF OpenAreFiles
  <2>9. QED
    BY <2>6, <2>7, <2>8
<1>6. QED
  BY <1>3, <1>4, <1>5 DEF InHand

LEMMA OrNewAdds ==
  ASSUME NEW p, IsFs(p.fs), NEW name
  PROVE  Adds(p.fs, OrNew(p, name).fs, OrNew(p, name).s)
<1> DEFINE here == [abs |-> FALSE, names |-> <<name>>]
           ino == search(p.fs, name, InodeOf(p))
           e == Require(p.fs, InodeOf(p).type = "dir")
           c == my_creat(e, here)
           r == getino(c, here)
           old == [fs |-> iget(p.fs, ino), ino |-> ino, s |-> SlotOf(p.fs, ino)]
           new == [fs |-> iget(r.fs, r.ino), ino |-> r.ino, s |-> SlotOf(r.fs, r.ino)]
<1>1. TypedPath(here)
  <2>1. here.names = <<name>> /\ DOMAIN here = {"abs", "names"}
    OBVIOUS
  <2> HIDE DEF here
  <2>2. QED
    BY <2>1, OneNameIsShort
<1>2. OrNew(p, name) \in {old, new}
  BY DEF OrNew
<1> HIDE DEF here, ino
<1>3. Adds(p.fs, old.fs, old.s)
  BY igetAdds
<1>4. Balanced(p.fs, e) /\ IsFs(e)
  BY RequireSame, SameIsBalanced DEF Balanced, Sane
<1> HIDE DEF e
<1>5. Balanced(e, c) /\ IsFs(c)
  BY <1>1, <1>4, my_creatIsBalanced DEF Balanced, Sane
<1> HIDE DEF c
<1>6. Balanced(c, r.fs) /\ IsFs(r.fs)
  BY <1>1, <1>5, getinoIsBalanced DEF Balanced, Sane
<1>7. Balanced(p.fs, r.fs)
  BY <1>4, <1>5, <1>6, BalancedChain
<1> HIDE DEF r
<1>8. Adds(r.fs, new.fs, new.s)
  BY <1>6, igetAdds
<1>9. Adds(p.fs, new.fs, new.s)
  BY <1>7, <1>8, BalancedThenAdds
<1> HIDE DEF old, new
<1>10. QED
  BY <1>2, <1>3, <1>9

LEMMA IntoOpens ==
  ASSUME NEW f, NEW p, NEW h, NEW t, NEW s, NEW mode,
         IsFs(f), IsTable(t), Keeps(f, p), Adds(p, h, s), ~InUse(t, s, mode),
         Counted(p, h) /\ FilesStay => h.minode[s].INODE.type = "reg"
  PROVE  Opens(f, t, Into(h, t, s, mode))
<1> DEFINE free == {i \in Fds : t[i] = NoOFT}
           i == Min(free)
           offset == IF mode = "APPEND" THEN h.minode[s].INODE.size ELSE 0
           g == IF mode = "R" THEN h ELSE SetDirty(h, s)
           none == [fs |-> iput(h, s), fd |-> t, i |-> -1]
           one == [fs |-> g, fd |-> [t EXCEPT ![i] = OFT(mode, s, offset)], i |-> i]
<1>1. IsFs(p) /\ IsFs(h) /\ s \in Slots
  BY DEF Keeps, Adds, Sane
<1>2. CASE free = {}
  <2>1. Into(h, t, s, mode) = none
    BY <1>2 DEF Into
  <2>2. Keeps(p, iput(h, s))
    BY <1>1, PutBack, BalancedKeeps
  <2>3. Keeps(f, iput(h, s))
    BY <2>2, KeepsChain
  <2>4. QED
    BY <2>1, <2>3 DEF Opens
<1>3. CASE free # {}
  <2>1. Into(h, t, s, mode) = one
    BY <1>3 DEF Into
  <2>2. free \in SUBSET Nat
    BY DEF Fds
  <2>3. i \in Fds /\ t[i] = NoOFT
    <3>1. i \in free
      BY <1>3, <2>2, MinIsIn
    <3>2. QED
      BY <3>1
  <2> HIDE DEF i, offset
  <2>4. SameSlots(h, g)
    <3>1. SameSlots(h, h)
      BY <1>1 DEF SameSlots, FileStays
    <3>2. SameSlots(h, SetDirty(h, s))
      BY <1>1, SetDirtySame
    <3>3. QED
      BY <3>1, <3>2
  <2> HIDE DEF g
  <2>5. Adds(p, g, s)
    BY <1>1, <2>4, SameIsBalanced, AddsThenBalanced
  <2>6. Counted(p, g) /\ FilesStay => g.minode[s].INODE.type = "reg"
    BY <1>1, <2>4 DEF Counted, SameSlots, FileStays
  <2>7. Holds(f, g, s)
    BY <2>5, <2>6 DEF Holds
  <2>8. one.i = i /\ one.fs = g /\ one.fd = [t EXCEPT ![i] = OFT(mode, s, offset)]
    OBVIOUS
  <2> HIDE DEF one
  <2>9. Gains(t, one.fd, one.i, mode, s)
    BY <2>3, <2>8 DEF Gains
  <2>10. QED
    BY <2>1, <2>7, <2>8, <2>9 DEF Opens
<1>4. QED
  BY <1>2, <1>3

LEMMA OpenedOpens ==
  ASSUME NEW f, NEW p, NEW g, NEW t, NEW path, NEW mode,
         IsFs(f), IsTable(t), Keeps(f, p), Adds(p, g.fs, g.s), TypedPath(path)
  PROVE  Opens(f, t, Opened(g, t, path, mode))
<1> DEFINE none == [fs |-> iput(g.fs, g.s), fd |-> t, i |-> -1]
           cut == IF mode = "W" THEN my_truncate(g.fs, g.s) ELSE g.fs
           h == my_touch(cut, path)
<1>1. IsFs(p) /\ IsFs(g.fs) /\ g.s \in Slots
  BY DEF Keeps, Adds, Sane
<1>2. CASE InodeOf(g).type # "reg" \/ InUse(t, g.s, mode)
  <2>1. Opened(g, t, path, mode) = none
    BY <1>2 DEF Opened
  <2>2. Keeps(p, iput(g.fs, g.s))
    BY <1>1, PutBack, BalancedKeeps
  <2>3. Keeps(f, iput(g.fs, g.s))
    BY <2>2, KeepsChain
  <2>4. QED
    BY <2>1, <2>3 DEF Opens
<1>3. CASE InodeOf(g).type = "reg" /\ ~InUse(t, g.s, mode)
  <2>1. Opened(g, t, path, mode) = Into(h, t, g.s, mode)
    BY <1>3 DEF Opened
  <2>2. Balanced(g.fs, cut)
    BY <1>1, my_truncateIsBalanced, NothingIsBalanced
  <2> HIDE DEF cut
  <2>3. Balanced(g.fs, h)
    <3>1. IsFs(cut)
      BY <2>2 DEF Balanced, Sane
    <3>2. Balanced(cut, h)
      BY <3>1, my_touchIsBalanced
    <3>3. QED
      BY <2>2, <3>2, BalancedChain
  <2> HIDE DEF h
  <2>4. Adds(p, h, g.s)
    BY <1>1, <2>3, AddsThenBalanced
  <2>5. ASSUME Counted(p, h), FilesStay
        PROVE  h.minode[g.s].INODE.type = "reg"
    <3>1. Counted(p, g.fs)
      BY <2>3, <2>5 DEF Counted, Balanced, Sane
    <3>2. \A x \in Slots : p.minode[x].refCount \in Int /\ p.minode[x].refCount >= 0
      BY <1>1, <2>5, RefsAreInts DEF Counted, Debtless
    <3>3. \A x \in Slots : g.fs.minode[x].refCount =
            p.minode[x].refCount + IF x = g.s THEN 1 ELSE 0
      BY <3>1 DEF Adds
    <3>4. Counted(g.fs, h)
      BY <2>5, <3>2, <3>3 DEF Counted, Debtless
    <3>5. g.fs.minode[g.s].refCount > 0
      BY <1>1, <3>2, <3>3
    <3>6. FileStays(g.fs, h, g.s)
      BY <1>1, <2>3, <3>4, <3>5 DEF Balanced, InodesStay
    <3>7. QED
      BY <1>3, <2>5, <3>6 DEF FileStays, InodeOf
  <2>6. Opens(f, t, Into(h, t, g.s, mode))
    BY <1>3, <2>4, <2>5, IntoOpens
  <2>7. QED
    BY <2>1, <2>6
<1>4. QED
  BY <1>2, <1>3

LEMMA open_fileOpens ==
  ASSUME NEW f, IsFs(f), NEW t, IsTable(t), NEW path, TypedPath(path), NEW mode
  PROVE  Opens(f, t, open_file(f, t, path, mode))
<1> DEFINE p == Got(f, dname(path))
           g == OrNew(p, bname(path))
<1>1. Adds(f, p.fs, p.s)
  BY dnameIsTyped, GotAdds
<1> HIDE DEF p
<1>2. Keeps(f, p.fs) /\ IsFs(p.fs)
  BY <1>1, AddsKeeps DEF Adds, Sane
<1>3. Adds(p.fs, g.fs, g.s)
  BY <1>2, OrNewAdds
<1> HIDE DEF g
<1>4. QED
  BY <1>2, <1>3, OpenedOpens DEF open_file, g, p

\* After open_file() there is no descriptor -1, or a descriptor of a slot.
LEMMA OpensInHand ==
  ASSUME NEW f, NEW t, InHand(f, t), NEW o, Opens(f, t, o)
  PROVE  /\ InHand(o.fs, o.fd)
         /\ o.i # -1 => /\ o.i \in Fds /\ t[o.i] = NoOFT
                        /\ o.fd[o.i] # NoOFT /\ o.fd[o.i].inodeptr \in Slots
         /\ \A j \in Fds : t[j] # NoOFT => o.fd[j] = t[j]
<1>1. CASE o.i = -1 /\ o.fd = t /\ Keeps(f, o.fs)
  BY <1>1, KeptInHand
<1>2. ASSUME NEW mode, NEW s, Gains(t, o.fd, o.i, mode, s), ~InUse(t, s, mode), Holds(f, o.fs, s)
      PROVE  /\ InHand(o.fs, o.fd)
             /\ o.i \in Fds /\ t[o.i] = NoOFT
             /\ o.fd[o.i] # NoOFT /\ o.fd[o.i].inodeptr \in Slots
             /\ \A j \in Fds : t[j] # NoOFT => o.fd[j] = t[j]
  <2>1. s \in Slots /\ InHand(o.fs, o.fd) /\ o.fd[o.i].inodeptr = s
    BY <1>2, OpenedInHand
  <2>2. o.i \in Fds /\ t[o.i] = NoOFT
    BY <1>2 DEF Gains
  <2>3. \A j \in Fds \ {o.i} : o.fd[j] = t[j]
    BY <1>2, <2>1, NewUser DEF InHand
  <2>4. NoOFT.inodeptr \notin Slots
    BY DEF NoOFT, NULL, Slots
  <2>5. QED
    BY <2>1, <2>2, <2>3, <2>4
<1>3. QED
  BY <1>1, <1>2 DEF Opens

\* u is t without the descriptor i.
Loses(t, u, i) == i \in Fds /\ t[i] # NoOFT /\ u = [t EXCEPT ![i] = NoOFT]

LEMMA LostUser ==
  ASSUME NEW t, IsTable(t), NEW i, NEW u, Loses(t, u, i)
  PROVE  /\ IsTable(u)
         /\ Shared(t) => Shared(u)
         /\ u[i] = NoOFT /\ \A j \in Fds \ {i} : u[j] = t[j]
         /\ \A x \in Slots :
              UsersOf(u)[x] = UsersOf(t)[x] - IF x = t[i].inodeptr THEN 1 ELSE 0
<1>1. /\ i \in Fds /\ t[i] # NoOFT
      /\ u[i] = NoOFT /\ DOMAIN u = Fds /\ \A j \in Fds \ {i} : u[j] = t[j]
  BY DEF IsTable, Loses
<1>2. IsTable(u)
  BY <1>1 DEF IsTable
<1>3. Shared(t) => Shared(u)
  BY <1>1 DEF Shared
<1>4. ASSUME NEW x \in Slots
      PROVE  UsersOf(u)[x] = UsersOf(t)[x] - IF x = t[i].inodeptr THEN 1 ELSE 0
  <2>1. t[i].inodeptr = x <=> i \in Users(t, x)
    BY <1>1 DEF Users
  <2>2. Users(u, x) = IF x = t[i].inodeptr THEN Users(t, x) \ {i} ELSE Users(t, x)
    BY <1>1, <2>1 DEF Users
  <2>3. IsFiniteSet(Users(t, x)) /\ Cardinality(Users(t, x)) \in Nat
    BY UsersAreFinite
  <2>4. i \in Users(t, x) => Cardinality(Users(t, x) \ {i}) = Cardinality(Users(t, x)) - 1
    BY <2>3, FS_RemoveElement
  <2>5. Cardinality(Users(u, x)) =
          Cardinality(Users(t, x)) - IF x = t[i].inodeptr THEN 1 ELSE 0
    BY <2>1, <2>2, <2>3, <2>4
  <2>6. QED
    BY <2>5, UsersOfType
<1>5. QED
  BY <1>1, <1>2, <1>3, <1>4

LEMMA GivenInHand ==
  ASSUME NEW f, NEW t, InHand(f, t), NEW i, NEW u, Loses(t, u, i)
  PROVE  InHand(iput(f, t[i].inodeptr), u)
<1> DEFINE s == t[i].inodeptr
           g == iput(f, s)
<1>1. IsFs(f) /\ IsTable(t) /\ Shared(t) /\ s \in Slots /\ i \in Fds /\ t[i] # NoOFT
  BY DEF InHand, IsTable, Loses
<1>2. Given(f, g, s) /\ Sane(f, g)
  BY <1>1, iputGives, iputIsSane
<1>3. /\ IsTable(u) /\ Shared(u)
      /\ u[i] = NoOFT /\ \A j \in Fds \ {i} : u[j] = t[j]
      /\ \A x \in Slots : UsersOf(u)[x] = UsersOf(t)[x] - IF x = s THEN 1 ELSE 0
  BY <1>1, LostUser
<1> HIDE DEF s, g
<1>4. IsFs(g) /\ OneCopyOf(g) /\ g.root = f.root /\ g.cwd = f.cwd /\ (g.ok => f.ok)
  BY <1>2 DEF Sane, InHand
<1>5. ASSUME ShortPaths, g.ok
      PROVE  /\ Covered(g, UsersOf(u))
             /\ g.minode[g.root].ino = ROOT
             /\ FilesStay => OpenAreFiles(g, u)
  <2>1. Covered(f, UsersOf(t)) /\ f.minode[f.root].ino = ROOT /\ (FilesStay => OpenAreFiles(f, t))
    BY <1>4, <1>5 DEF InHand
  <2>2. \A x \in Slots : UsersOf(t)[x] \in Nat /\ f.minode[x].refCount \in Int
    BY <1>1, UsersOfType, RefsAreInts
  <2>3. f.minode[s].refCount > 0
    BY <1>1, <2>1, UsedIsPositive DEF s
  <2>4. \A x \in Slots : g.minode[x].refCount = f.minode[x].refCount - IF x = s THEN 1 ELSE 0
    BY <1>2, <2>2, <2>3 DEF Given
  <2>5. Covered(g, UsersOf(u))
    <3>1. ASSUME NEW x \in Slots
          PROVE  g.minode[x].refCount >=
                   UsersOf(u)[x] + (IF x = g.root THEN 1 ELSE 0) + (IF x = g.cwd THEN 1 ELSE 0)
      BY <1>3, <1>4, <2>1, <2>2, <2>4, <3>1 DEF Covered
    <3>2. QED
      BY <3>1 DEF Covered
  <2>6. InodesStay(f, g)
    BY <1>2 DEF Given, InodesStay
  <2>7. g.minode[g.root].ino = ROOT /\ (FilesStay => OpenAreFiles(g, t))
    BY <1>1, <1>4, <2>1, <2>6, InodesStayInHand
  <2>8. ASSUME FilesStay
        PROVE  OpenAreFiles(g, u)
    BY <1>3, <2>7, <2>8 DEF OpenAreFiles
  <2>9. QED
    BY <2>5, <2>7, <2>8
<1>6. InHand(g, u)
  BY <1>3, <1>4, <1>5 DEF InHand
<1>7. QED
  BY <1>6 DEF g, s

LEMMA my_closeInHand ==
  ASSUME NEW o, DOMAIN o = {"fs", "fd", "i"}, InHand(o.fs, o.fd),
         o.i # -1 => o.i \in Fds /\ o.fd[o.i] # NoOFT
  PROVE  /\ InHand(my_close(o).fs, my_close(o).fd) /\ DOMAIN my_close(o) = {"fs", "fd", "i"}
         /\ \A j \in Fds : j # o.i => my_close(o).fd[j] = o.fd[j]
<1>1. CASE o.i = -1
  BY <1>1 DEF my_close
<1>2. CASE o.i # -1
  <2> DEFINE i == o.i
             f == iput(o.fs, o.fd[i].inodeptr)
             u == [o.fd EXCEPT ![i] = NoOFT]
             c == [o EXCEPT !.fs = f, !.fd = u]
  <2>1. i \in Fds /\ o.fd[i] # NoOFT
    BY <1>2
  <2>2. my_close(o) = c
    BY <1>2 DEF my_close
  <2>3. InHand(f, u)
    BY <2>1, GivenInHand DEF Loses
  <2>4. \A j \in Fds : j # i => u[j] = o.fd[j]
    BY DEF InHand, IsTable
  <2> HIDE DEF f, u
  <2>5. c.fs = f /\ c.fd = u /\ DOMAIN c = {"fs", "fd", "i"}
    OBVIOUS
  <2> HIDE DEF c
  <2>6. QED
    BY <2>2, <2>3, <2>4, <2>5
<1>3. QED
  BY <1>1, <1>2

-----------------------------------------------------------------------------
(* The commands on files.                                                  *)

LEMMA TransferredIsBalanced ==
  ASSUME NEW r, NEW w, IsFs(w.fs), w.i # -1 => w.fd[w.i].inodeptr \in Slots
  PROVE  Balanced(w.fs, Transferred(r, w))
<1> DEFINE from == w.fd[r.i].inodeptr
           none == Require(w.fs, FALSE)
           copy == Copied(w.fs, from, w.fd[w.i].inodeptr)
           c == w.fs.minode[from].INODE.size = 0
<1>1. Transferred(r, w) \in {none, Require(w.fs, c)} \/ (w.i # -1 /\ Transferred(r, w) = copy)
  BY DEF Transferred
<1>2. Balanced(w.fs, none) /\ Balanced(w.fs, Require(w.fs, c))
  BY RequireSame, SameIsBalanced
<1>3. w.i # -1 => Balanced(w.fs, copy)
  BY CopiedIsBalanced
<1> HIDE DEF none, copy, c
<1>4. QED
  BY <1>1, <1>2, <1>3

\* cp, and what mv to another directory begins with.
LEMMA CopyInHand ==
  ASSUME NEW f, NEW t, InHand(f, t), NEW old, NEW new, TypedPath(old), TypedPath(new),
         NEW r, r = open_file(f, t, old, "R"), NEW w, w = open_file(r.fs, r.fd, new, "W"),
         NEW o, o = CloseBoth(Transferred(r, w), r, w)
  PROVE  InHand(o.fs, o.fd)
<1>1. /\ InHand(r.fs, r.fd)
      /\ r.i # -1 => r.i \in Fds /\ r.fd[r.i] # NoOFT
  BY open_fileOpens, OpensInHand DEF InHand
<1>2. /\ InHand(w.fs, w.fd)
      /\ w.i # -1 => /\ w.i \in Fds /\ r.fd[w.i] = NoOFT
                     /\ w.fd[w.i] # NoOFT /\ w.fd[w.i].inodeptr \in Slots
      /\ \A j \in Fds : r.fd[j] # NoOFT => w.fd[j] = r.fd[j]
  <2>1. IsFs(r.fs) /\ IsTable(r.fd)
    BY <1>1 DEF InHand
  <2>2. Opens(r.fs, r.fd, w)
    BY <2>1, open_fileOpens
  <2>3. QED
    BY <1>1, <2>2, OpensInHand
<1> DEFINE g == Transferred(r, w)
           c0 == [fs |-> g, fd |-> w.fd, i |-> r.i]
           c1 == my_close(c0)
           c2 == [c1 EXCEPT !.i = w.i]
<1>3. InHand(g, w.fd)
  <2>1. Balanced(w.fs, g) /\ IsFs(w.fs)
    BY <1>2, TransferredIsBalanced DEF InHand
  <2>2. QED
    BY <1>2, <2>1, BalancedKeeps, KeptInHand
<1>4. o = my_close(c2)
  BY DEF CloseBoth
<1> HIDE DEF g
<1>5. /\ InHand(c1.fs, c1.fd) /\ DOMAIN c1 = {"fs", "fd", "i"}
      /\ \A j \in Fds : j # r.i => c1.fd[j] = w.fd[j]
  <2>1. c0.fs = g /\ c0.fd = w.fd /\ c0.i = r.i /\ DOMAIN c0 = {"fs", "fd", "i"}
    OBVIOUS
  <2> HIDE DEF c0
  <2>2. c0.i # -1 => c0.i \in Fds /\ c0.fd[c0.i] # NoOFT
    BY <1>1, <1>2, <2>1
  <2>3. QED
    BY <1>3, <2>1, <2>2, my_closeInHand
<1> HIDE DEF c1
<1>6. c2.fs = c1.fs /\ c2.fd = c1.fd /\ c2.i = w.i /\ DOMAIN c2 = {"fs", "fd", "i"}
  BY <1>5
<1> HIDE DEF c2
<1>7. c2.i # -1 => c2.i \in Fds /\ c2.fd[c2.i] # NoOFT
  BY <1>1, <1>2, <1>5, <1>6
<1>8. QED
  BY <1>4, <1>5, <1>6, <1>7, my_closeInHand

LEMMA LinkedIsBalanced ==
  ASSUME NEW f, IsFs(f), NEW old, NEW new, TypedPath(old), TypedPath(new)
  PROVE  Balanced(f, Linked(f, old, new))
<1> DEFINE g == Got(f, old)
           p == Got(g.fs, dname(new))
           done == my_link(g, p, bname(new))
<1>1. Linked(f, old, new) \in {f, done}
  BY DEF Linked
<1>2. Adds(f, g.fs, g.s) /\ IsFs(g.fs)
  BY GotAdds DEF Adds, Sane
<1> HIDE DEF g
<1>3. Adds(g.fs, p.fs, p.s)
  BY <1>2, dnameIsTyped, GotAdds
<1> HIDE DEF p
<1>4. Balanced(f, done)
  BY <1>2, <1>3, my_linkIsBalanced
<1> HIDE DEF done
<1>5. QED
  BY <1>1, <1>4, NothingIsBalanced

\* The end of both forms of mv.
LEMMA UnlinkedInHand ==
  ASSUME NEW f, NEW t, InHand(f, t), NEW path, TypedPath(path), NEW g, g = Got(f, path)
  PROVE  InHand(my_unlink(g, path), t)
<1>1. IsFs(f)
  BY DEF InHand
<1>2. Balanced(f, my_unlink(g, path))
  BY <1>1, GotAdds, my_unlinkIsBalanced
<1>3. QED
  BY <1>1, <1>2, BalancedKeeps, KeptInHand

LEMMA PairsAreTyped ==
  ASSUME NEW p \in Pairs
  PROVE  TypedPath(p[1]) /\ TypedPath(p[2])
<1>1. p[1] \in Path /\ p[2] \in Path
  BY FilesAssumption
<1>2. ShortPaths => Len(p[1].names) <= 1 /\ Len(p[2].names) <= 1
  BY DEF ShortPaths
<1>3. QED
  BY <1>1, <1>2, PathIsPath DEF TypedPath

\* A step of the commands on files leaves the table t and the file system f.
LEMMA FilesDone ==
  ASSUME NEW f, NEW t, InHand(f, t), NEW wrong, DoFiles(f, t, wrong)
  PROVE  InHand(fs', fd') /\ fs'.ok
BY DoneInHand DEF DoFiles

LEMMA OpenStep ==
  ASSUME InHand(fs, fd), NEW path \in Paths, NEW mode, Open(path, mode)
  PROVE  InHand(fs', fd') /\ fs'.ok
<1>1. PICK o : o = open_file(fs, fd, path, mode) /\ DoFiles(o.fs, o.fd, Cuts(fs, path, mode))
  BY DEF Open
<1>2. InHand(o.fs, o.fd)
  <2>1. IsFs(fs) /\ IsTable(fd)
    BY DEF InHand
  <2>2. Opens(fs, fd, o)
    BY <1>1, <2>1, PathsAreTyped, open_fileOpens
  <2>3. QED
    BY <2>2, OpensInHand
<1>3. QED
  BY <1>1, <1>2, FilesDone

LEMMA CloseStep ==
  ASSUME InHand(fs, fd), NEW i \in Fds, Close(i)
  PROVE  InHand(fs', fd') /\ fs'.ok
<1> DEFINE c == [fs |-> fs, fd |-> fd, i |-> i]
           o == my_close(c)
<1>1. fd[i] # NoOFT /\ DoFiles(o.fs, o.fd, {})
  BY DEF Close
<1>2. c.fs = fs /\ c.fd = fd /\ c.i = i /\ DOMAIN c = {"fs", "fd", "i"}
  OBVIOUS
<1> HIDE DEF c
<1>3. InHand(o.fs, o.fd)
  BY <1>1, <1>2, my_closeInHand
<1> HIDE DEF o
<1>4. QED
  BY <1>1, <1>3, FilesDone

LEMMA WriteStep ==
  ASSUME InHand(fs, fd), NEW i \in Fds, NEW text, Write(i, text)
  PROVE  InHand(fs', fd') /\ fs'.ok
<1> DEFINE s == fd[i].inodeptr
           w == my_write(fs, s, fd[i].offset, text)
           wrong == Spills(fs.minode[s].INODE.size, fd[i].offset, Len(text))
           t == [fd EXCEPT ![i].offset = w.offset]
<1>1. fd[i].mode # "none" /\ DoFiles(w.fs, t, wrong)
  BY DEF Write
<1>2. fd[i] # NoOFT
  BY <1>1 DEF NoOFT
<1>3. s \in Slots /\ IsFs(fs)
  BY <1>2 DEF InHand, IsTable
<1>4. Balanced(fs, w.fs)
  BY <1>3, my_writeIsBalanced
<1> HIDE DEF w, wrong
<1>5. InHand(w.fs, fd)
  BY <1>3, <1>4, BalancedKeeps, KeptInHand
<1>6. InHand(w.fs, t)
  BY <1>2, <1>5, OffsetInHand
<1>7. QED
  BY <1>1, <1>6, FilesDone

LEMMA SeekStep ==
  ASSUME InHand(fs, fd), NEW i \in Fds, NEW n, Read(i, n) \/ Lseek(i, n)
  PROVE  InHand(fs', fd') /\ fs'.ok
<1>1. PICK offset : fd[i] # NoOFT /\ DoFiles(fs, [fd EXCEPT ![i].offset = offset], {})
  BY DEF Read, Lseek
<1>2. InHand(fs, [fd EXCEPT ![i].offset = offset])
  BY <1>1, OffsetInHand
<1>3. QED
  BY <1>1, <1>2, FilesDone

LEMMA CopyStep ==
  ASSUME InHand(fs, fd), NEW p \in Pairs, Copy(p[1], p[2])
  PROVE  InHand(fs', fd') /\ fs'.ok
<1>1. PICK r : r = open_file(fs, fd, p[1], "R") /\
               \E w \in {open_file(r.fs, r.fd, p[2], "W")} :
               \E o \in {CloseBoth(Transferred(r, w), r, w)} :
                 DoFiles(o.fs, o.fd, Cuts(fs, p[2], "W"))
  BY DEF Copy
<1>2. PICK w, o : /\ w = open_file(r.fs, r.fd, p[2], "W")
                  /\ o = CloseBoth(Transferred(r, w), r, w)
                  /\ DoFiles(o.fs, o.fd, Cuts(fs, p[2], "W"))
  BY <1>1
<1>3. InHand(o.fs, o.fd)
  BY <1>1, <1>2, PairsAreTyped, CopyInHand
<1>4. QED
  BY <1>2, <1>3, FilesDone

LEMMA MoveStep ==
  ASSUME InHand(fs, fd), NEW p \in Pairs, Move(p[1], p[2])
  PROVE  InHand(fs', fd') /\ fs'.ok
<1> DEFINE e == Linked(fs, p[1], p[2])
<1>1. PICK g : g = Got(e, p[1]) /\ DoFiles(my_unlink(g, p[1]), fd, {})
  BY DEF Move
<1>2. InHand(e, fd)
  <2>1. IsFs(fs)
    BY DEF InHand
  <2>2. Balanced(fs, e)
    BY <2>1, PairsAreTyped, LinkedIsBalanced
  <2>3. QED
    BY <2>1, <2>2, BalancedKeeps, KeptInHand
<1> HIDE DEF e
<1>3. InHand(my_unlink(g, p[1]), fd)
  BY <1>1, <1>2, PairsAreTyped, UnlinkedInHand
<1>4. QED
  BY <1>1, <1>3, FilesDone

LEMMA MoveAwayStep ==
  ASSUME InHand(fs, fd), NEW p \in Pairs, MoveAway(p[1], p[2])
  PROVE  InHand(fs', fd') /\ fs'.ok
<1>1. PICK r : r = open_file(fs, fd, p[1], "R") /\
               \E w \in {open_file(r.fs, r.fd, p[2], "W")} :
               \E o \in {CloseBoth(Transferred(r, w), r, w)} :
               \E g \in {Got(o.fs, p[1])} :
                 DoFiles(my_unlink(g, p[1]), o.fd, Cuts(fs, p[2], "W"))
  BY DEF MoveAway
<1>2. PICK w, o, g : /\ w = open_file(r.fs, r.fd, p[2], "W")
                     /\ o = CloseBoth(Transferred(r, w), r, w)
                     /\ g = Got(o.fs, p[1])
                     /\ DoFiles(my_unlink(g, p[1]), o.fd, Cuts(fs, p[2], "W"))
  BY <1>1
<1>3. InHand(o.fs, o.fd)
  BY <1>1, <1>2, PairsAreTyped, CopyInHand
<1>4. InHand(my_unlink(g, p[1]), o.fd)
  BY <1>2, <1>3, PairsAreTyped, UnlinkedInHand
<1>5. QED
  BY <1>2, <1>4, FilesDone

LEMMA OnNamesStep ==
  ASSUME InHand(fs, fd), OnNames
  PROVE  InHand(fs', fd') /\ fs'.ok
<1>1. PICK f : Do(f) /\ (Keeps(fs, f) \/ Moved(fs, f))
  BY CommandStep DEF InHand, OnNames
<1>2. InHand(f, fd)
  BY <1>1, KeptInHand, MovedInHand
<1>3. QED
  BY <1>1, <1>2, DoneInHand DEF OnNames

LEMMA ClosedInHand ==
  ASSUME NEW f, RootOnly(f, 3), NEW t, t = [i \in Fds |-> NoOFT]
  PROVE  InHand(f, t)
<1>1. DOMAIN t = Fds /\ \A i \in Fds : t[i] = NoOFT
  OBVIOUS
<1>2. IsTable(t) /\ Shared(t) /\ OpenAreFiles(f, t)
  BY <1>1 DEF IsTable, Shared, OpenAreFiles
<1>3. \A s : Users(t, s) = {}
  BY <1>1 DEF Users
<1>4. UsersOf(t) = NoUsers
  BY <1>3, FS_EmptySet DEF UsersOf, NoUsers
<1>5. QED
  BY <1>2, <1>4, RootOnlyIsCovered DEF InHand, RootOnly

LEMMA RestartInHand ==
  ASSUME InHand(fs, fd), Restart, fd' = [i \in Fds |-> NoOFT]
  PROVE  InHand(fs', fd') /\ fs'.ok
<1>1. PICK f : Do(f) /\ RootOnly(f, 3)
  BY RestartStep DEF InHand
<1>2. InHand(f, fd')
  BY <1>1, ClosedInHand
<1>3. QED
  BY <1>1, <1>2, DoneInHand

LEMMA FilesInitInHand ==
  ASSUME FilesInit
  PROVE  InHand(fs, fd) /\ fs.ok
BY InitIsPointed, ClosedInHand DEF FilesInit, Pointed

LEMMA FilesStep ==
  ASSUME InHand(fs, fd), FilesNext
  PROVE  InHand(fs', fd') /\ fs'.ok
<1>1. ASSUME NEW path \in Paths, NEW mode \in Modes, Open(path, mode)
      PROVE  InHand(fs', fd') /\ fs'.ok
  BY <1>1, OpenStep
<1>2. ASSUME NEW i \in Fds, Close(i)
      PROVE  InHand(fs', fd') /\ fs'.ok
  BY <1>2, CloseStep
<1>3. ASSUME NEW i \in Fds, NEW text \in Lines, Write(i, text)
      PROVE  InHand(fs', fd') /\ fs'.ok
  BY <1>3, WriteStep
<1>4. ASSUME NEW i \in Fds, NEW n, Read(i, n) \/ Lseek(i, n)
      PROVE  InHand(fs', fd') /\ fs'.ok
  BY <1>4, SeekStep
<1>5. ASSUME NEW p \in Pairs, Copy(p[1], p[2]) \/ Move(p[1], p[2]) \/ MoveAway(p[1], p[2])
      PROVE  InHand(fs', fd') /\ fs'.ok
  BY <1>5, CopyStep, MoveStep, MoveAwayStep
<1>6. CASE OnNames
  BY <1>6, OnNamesStep
<1>7. CASE Restart /\ fd' = [i \in Fds |-> NoOFT]
  BY <1>7, RestartInHand
<1>8. QED
  BY <1>1, <1>2, <1>3, <1>4, <1>5, <1>6, <1>7 DEF FilesNext

\* The invariant of the commands on files.
FilesInv == InHand(fs, fd) /\ fs.ok

LEMMA FilesInvHolds == FilesSpec => []FilesInv
<1>1. FilesInit => FilesInv
  BY FilesInitInHand DEF FilesInv
<1>2. FilesInv /\ [FilesNext]_fvars => FilesInv'
  <2>1. ASSUME FilesInv, FilesNext PROVE FilesInv'
    BY <2>1, FilesStep DEF FilesInv
  <2>2. ASSUME FilesInv, UNCHANGED fvars PROVE FilesInv'
    <3>1. fs' = fs /\ fd' = fd
      BY <2>2 DEF fvars
    <3>2. QED
      BY <2>2, <3>1 DEF FilesInv, InHand, IsFs, OneCopyOf, IsTable, Shared, Covered,
                        OpenAreFiles
  <2>3. QED
    BY <2>1, <2>2
<1>3. QED
  BY <1>1, <1>2, PTL DEF FilesSpec

LEMMA InHandHasUsers ==
  ASSUME ShortPaths, FilesInv
  PROVE  /\ Covered(fs, UsersOf(fd)) /\ IsFs(fs) /\ OneCopyOf(fs) /\ IsTable(fd) /\ Shared(fd)
         /\ fs.minode[fs.root].ino = ROOT
         /\ FilesStay => OpenAreFiles(fs, fd)
BY DEF FilesInv, InHand

LEMMA InHandOneWriter ==
  ASSUME ShortPaths, FilesInv
  PROVE  OneWriter
<1>1. SUFFICES ASSUME NEW i \in OpenFds, NEW j \in OpenFds, i # j,
                      fs.minode[fd[i].inodeptr].ino = fs.minode[fd[j].inodeptr].ino
               PROVE  fd[i].mode = "R" /\ fd[j].mode = "R"
  BY DEF OneWriter
<1>2. i \in Fds /\ fd[i] # NoOFT /\ j \in Fds /\ fd[j] # NoOFT
  BY DEF OpenFds
<1>3. /\ fs.minode[fd[i].inodeptr].refCount > 0 /\ fd[i].inodeptr \in Slots
      /\ fs.minode[fd[j].inodeptr].refCount > 0 /\ fd[j].inodeptr \in Slots
  BY <1>2, InHandHasUsers, UsedIsPositive, UsedByOne
<1>4. fd[i].inodeptr = fd[j].inodeptr
  BY <1>1, <1>3, InHandHasUsers DEF OneCopyOf
<1>5. QED
  BY <1>1, <1>2, <1>4, InHandHasUsers DEF Shared

LEMMA InHandReferencesHeld ==
  ASSUME ShortPaths, FilesInv, NEW s \in Slots
  PROVE  ReferencesHeld(s)
<1>1. OpenOn(s) = Users(fd, s)
  BY DEF OpenOn, OpenFds, Users
<1>2. UsersOf(fd)[s] = Cardinality(OpenOn(s)) /\ UsersOf(fd)[s] \in Nat
  BY <1>1, UsersOfType
<1>3. fs.minode[s].refCount \in Int
  BY InHandHasUsers, RefsAreInts
<1>4. QED
  BY <1>2, <1>3, InHandHasUsers DEF Covered, ReferencesHeld

LEMMA InHandFileHeld ==
  ASSUME ShortPaths, FilesStay, FilesInv, NEW s \in Slots
  PROVE  FileHeld(s)
BY InHandHasUsers DEF OpenAreFiles, FileHeld, OpenOn, OpenFds

\* With files open too, iget() never loads a second copy of an inode that a
\* slot in use holds.
THEOREM FilesHaveOneCopy == FilesSpec => []OneCopy
<1>1. FilesInv => OneCopy
  BY WellFormedHasOneCopy DEF FilesInv, InHand, WellFormed
<1>2. QED
  BY <1>1, FilesInvHolds, PTL

\* With no path of two names, any number of descriptors, and every command:
\* a file that is open for anything but reading is open once.
THEOREM AWriterIsAlone == ASSUME ShortPaths PROVE FilesSpec => []OneWriter
<1>1. FilesInv => OneWriter
  BY InHandOneWriter
<1>2. QED
  BY <1>1, FilesInvHolds, PTL

\* With no path of two names, a slot has a reference for every descriptor
\* that points to it, and the slots of the root and cwd one for each of them.
THEOREM ReferencesCoverUsers ==
  ASSUME ShortPaths
  PROVE  FilesSpec => [](SlotsInUse /\ \A s \in Slots : ReferencesHeld(s))
<1>1. FilesInv => SlotsInUse
  BY InHandHasUsers, UsersOfType, RefsAreInts DEF SlotsInUse, Covered, IsFs
<1>2. FilesInv => \A s \in Slots : ReferencesHeld(s)
  BY InHandReferencesHeld
<1>3. QED
  BY <1>1, <1>2, FilesInvHolds, PTL

\* When no command that is typed makes a directory or a symlink, what a
\* descriptor points to is also a file, whatever is removed or moved.
THEOREM DescriptorsHoldFiles ==
  ASSUME ShortPaths, FilesStay
  PROVE  FilesSpec => []DescriptorsHold
<1>1. FilesInv => DescriptorsHold
  BY InHandReferencesHeld, InHandFileHeld DEF DescriptorsHold
<1>2. QED
  BY <1>1, FilesInvHolds, PTL

=============================================================================
