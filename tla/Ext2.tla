-------------------------------- MODULE Ext2 --------------------------------
(***************************************************************************)
(* The ext2 file system program of src/Final below its commands: bitmaps,  *)
(* the table of in-memory inodes (minode) and directories.  util.c, and    *)
(* the parts of f1.c that the commands share.                              *)
(*                                                                         *)
(* fs is the whole state: the disk (imap, bmap: what the bitmaps mark as   *)
(* used; the two free counts; inode: the inode table; block: the entries   *)
(* in each directory block, the bytes in a file's) and the memory (minode, *)
(* and the slots that root and running->cwd point to).  The size of an     *)
(* inode is that of a file; a directory's is left out (0).                 *)
(* A step of the code takes an fs to an fs.  fs.ok turns FALSE where the   *)
(* code runs into undefined behaviour or a bound of this model: a full     *)
(* disk or table (ialloc, balloc and iget then return 0, unchecked), an    *)
(* inode number outside the table, a walk through a symlink (whose i_block *)
(* holds a name), an i_block beyond the direct ones.  The super block and  *)
(* the group descriptor hold the same two counts and are always written    *)
(* together: one pair stands for both.                                     *)
(***************************************************************************)
EXTENDS Integers, Sequences, SequencesExt, FiniteSetsExt

CONSTANTS
  NInodes,          \* the inode numbers are ROOT .. NInodes
  NBlocks,          \* the block numbers are 1 .. NBlocks
  NMINODES,         \* slots of the minode table
  NDirect,          \* direct block pointers of an inode
  EntriesPerBlock   \* directory entries that fit in a block

ASSUME SizesAssumption ==
  /\ {NInodes, NBlocks, NMINODES, NDirect} \subseteq Nat \ {0}
  /\ NInodes >= 2 /\ EntriesPerBlock \in Nat /\ EntriesPerBlock >= 2

ROOT   == 2
NULL   == -1
Inodes == ROOT .. NInodes
Blocks == 1 .. NBlocks
Slots  == 0 .. NMINODES - 1

NoBlocks == [k \in 1 .. NDirect |-> 0]
Inode(type, links, blk) == [type |-> type, links |-> links, blk |-> blk, size |-> 0]
Blank == Inode("none", 0, NoBlocks)
FreeSlot == [refCount |-> 0, ino |-> 0, dirty |-> FALSE, INODE |-> Blank]

Require(fs, condition) == [fs EXCEPT !.ok = @ /\ condition]

-----------------------------------------------------------------------------
(* Bitmaps.  ialloc and balloc take the lowest free number.                *)

LowestFree(used, all) == IF all \subseteq used THEN 0 ELSE Min(all \ used)
NextInode(fs) == LowestFree(fs.imap, Inodes)
NextBlock(fs) == LowestFree(fs.bmap, Blocks)

ialloc(fs) ==
  LET i == NextInode(fs) IN
    IF i = 0 THEN Require(fs, FALSE)
    ELSE [fs EXCEPT !.imap = @ \cup {i}, !.freeInodes = @ - 1]

balloc(fs) ==
  LET b == NextBlock(fs) IN
    IF b = 0 THEN Require(fs, FALSE)
    ELSE [fs EXCEPT !.bmap = @ \cup {b}, !.freeBlocks = @ - 1, !.block[b] = <<>>]

\* Fault: the free count is left alone.
IdallocKeepsCount(fs, i) == [fs EXCEPT !.imap = @ \ {i}]

idalloc(fs, i) == [fs EXCEPT !.imap = @ \ {i}, !.freeInodes = @ + 1]
bdalloc(fs, b) == [fs EXCEPT !.bmap = @ \ {b}, !.freeBlocks = @ + 1]

\* Fault: the blocks stay marked.
FreeNoBlocks(fs, inode) == fs

FreeBlock(fs, b) == IF b = 0 THEN fs ELSE bdalloc(fs, b)

FreeBlocksOf(fs, inode) ==
  LET freed[k \in 0 .. NDirect] == IF k = 0 THEN fs ELSE FreeBlock(freed[k - 1], inode.blk[k])
  IN  freed[NDirect]

-----------------------------------------------------------------------------
(* The minode table.  A slot is in use when its refCount is positive, but  *)
(* iget finds an inode in every slot whose refCount is not 0.              *)

\* Fault: the first slot is not looked at.
HitsAfterFirst(fs, i) ==
  {s \in Slots \ {0} : fs.minode[s].refCount # 0 /\ fs.minode[s].ino = i}

Hits(fs, i) == {s \in Slots : fs.minode[s].refCount # 0 /\ fs.minode[s].ino = i}
FreeSlots(fs) == {s \in Slots : fs.minode[s].refCount <= 0}

\* The slot that iget returns.
SlotOf(fs, i) ==
  IF Hits(fs, i) # {} THEN Min(Hits(fs, i))
  ELSE IF FreeSlots(fs) # {} THEN Min(FreeSlots(fs))
  ELSE 0

iget(fs, i) ==
  LET s == SlotOf(fs, i) IN
    IF i \notin Inodes THEN Require(fs, FALSE)
    ELSE IF Hits(fs, i) # {} THEN [fs EXCEPT !.minode[s].refCount = @ + 1]
    ELSE IF FreeSlots(fs) = {} THEN Require(fs, FALSE)
    ELSE [fs EXCEPT !.minode[s] =
            [refCount |-> 1, ino |-> i, dirty |-> FALSE, INODE |-> fs.inode[i]]]

\* Fault: a dirty inode is not written back.
iputForgets(fs, s) == [fs EXCEPT !.minode[s].refCount = @ - 1]

iput(fs, s) ==
  LET m == fs.minode[s] IN
    IF m.refCount > 1 \/ ~m.dirty THEN [fs EXCEPT !.minode[s].refCount = @ - 1]
    ELSE [Require(fs, m.ino \in Inodes) EXCEPT
            !.minode[s].refCount = 0, !.inode[m.ino] = m.INODE]

SetDirty(fs, s) == [fs EXCEPT !.minode[s].dirty = TRUE]

\* *mip = inode; mip->dirty = 1
Changed(fs, s, inode) == [fs EXCEPT !.minode[s].INODE = inode, !.minode[s].dirty = TRUE]

\* Fault: the new inode is left in its slot.
RewriteLater(fs, i, inode) == Changed(iget(fs, i), SlotOf(fs, i), inode)

\* mip = iget(ino); change *mip; mip->dirty = 1; iput(mip), as on a new inode.
Rewrite(fs, i, inode) ==
  LET s == SlotOf(fs, i) IN iput(Changed(iget(fs, i), s, inode), s)

\* mip = iget(ino); mip->dirty = 1; iput(mip).
MarkDirty(fs, i) ==
  LET s == SlotOf(fs, i) IN iput(SetDirty(iget(fs, i), s), s)

-----------------------------------------------------------------------------
(* Directories: the entries of an inode are those of its blocks up to the  *)
(* first block pointer that is 0.                                          *)

Scanned(inode) == {k \in 1 .. NDirect : \A j \in 1 .. k : inode.blk[j] # 0}

Entries(fs, inode) ==
  FlattenSeq([k \in 1 .. Cardinality(Scanned(inode)) |-> fs.block[inode.blk[k]]])

search(fs, name, inode) ==
  LET first(e, k) == IF k = 0 THEN 0 ELSE e[k].ino
      in(e) == first(e, SelectInSeq(e, LAMBDA x : x.name = name))
  IN  in(Entries(fs, inode))

Entry(name, ino) == [name |-> name, ino |-> ino]

\* The code that rmkdir, creat_file and my_link share: a new entry in *pip.
AddEntry(fs, s, name, ino) ==
  LET inode == fs.minode[s].INODE
      n     == Cardinality(Scanned(inode))
      last  == inode.blk[n]
      b     == NextBlock(fs)
  IN  IF ~fs.ok \/ n = 0 THEN Require(fs, FALSE)
      ELSE IF Len(fs.block[last]) < EntriesPerBlock
        THEN [fs EXCEPT !.block[last] = Append(@, Entry(name, ino))]
      ELSE IF n = NDirect \/ b = 0 THEN Require(fs, FALSE)
      ELSE [balloc(fs) EXCEPT !.block[b] = <<Entry(name, ino)>>,
                              !.minode[s].INODE.blk[n + 1] = b]

\* Fault: the entry after the one to remove goes.
rm_childNext(fs, s, name) ==
  LET b == fs.minode[s].INODE.blk[1]
      p == SelectInSeq(fs.block[b], LAMBDA x : x.name = name)
  IN  IF p \in 1 .. Len(fs.block[b]) - 1
        THEN [fs EXCEPT !.block[b] = RemoveAt(@, p + 1)] ELSE fs

\* The only entry of a block takes the block with it.
rm_child(fs, s, name) ==
  LET inode == fs.minode[s].INODE
      in(k) == \E p \in DOMAIN fs.block[inode.blk[k]] : fs.block[inode.blk[k]][p].name = name
      found == {k \in Scanned(inode) : in(k)}
      k     == Min(found)
      b     == inode.blk[k]
      p     == SelectInSeq(fs.block[b], LAMBDA x : x.name = name)
  IN  IF found = {} THEN fs
      ELSE IF Len(fs.block[b]) = 1
        THEN [bdalloc(fs, b) EXCEPT !.minode[s].INODE.blk[k] = 0]
      ELSE [fs EXCEPT !.block[b] = RemoveAt(@, p)]

-----------------------------------------------------------------------------
(* Paths: does it start with "/", and its parts.                            *)

Path == [abs : BOOLEAN, names : Seq(STRING)]

CwdIno(fs) == fs.minode[fs.cwd].ino

Released(walk) == IF walk.mip = NULL THEN walk.fs ELSE iput(walk.fs, walk.mip)

\* The walk when the next name is that of ino; f is what its iputs leave.
Onward(walk, f, ino, more) ==
  IF ino = 0 THEN [walk EXCEPT !.fs = f, !.ino = NULL]
  ELSE IF ~more THEN [walk EXCEPT !.fs = f, !.ino = ino]
  ELSE [fs |-> iget(f, ino), ino |-> ino, mip |-> SlotOf(f, ino), at |-> SlotOf(f, ino)]

Arrived(walk) ==
  IF walk.ino = NULL \/ ~walk.fs.ok THEN [fs |-> walk.fs, ino |-> NULL]
  ELSE [fs |-> Released(walk), ino |-> walk.ino]

\* One turn of the loop of getino(): the next name.
Walk(walk, name, more) ==
  LET dir == walk.fs.minode[walk.at].INODE
  IN  IF walk.ino = NULL \/ ~walk.fs.ok THEN walk
      ELSE Onward(walk, Require(Released(walk), dir.type # "lnk"),
                  search(walk.fs, name, dir), more)

(***************************************************************************)
(* getino(): the inode number at the end of the path, or NULL.  A walk has *)
(* the slot at whose INODE ip points to, and the slot mip that it holds a  *)
(* reference of: it gives that up when it finds the next name, and, after  *)
(* the last name, once more (util.c:134, util.c:149).                      *)
(***************************************************************************)
getino(fs, path) ==
  LET n == Len(path.names)
      start == IF path.abs THEN fs.root ELSE fs.cwd
      walk0 == [fs |-> fs, ino |-> fs.minode[start].ino, mip |-> NULL, at |-> start]
      walked[k \in 0 .. n] ==
        IF k = 0 THEN walk0 ELSE Walk(walked[k - 1], path.names[k], k < n)
  IN  Arrived(walked[n])

dname(path) == [path EXCEPT !.names = Front(@)]
bname(path) == Last(path.names)

\* What strtok in getino leaves of the string it is given.
FirstPart(path) == [path EXCEPT !.names = IF @ = <<>> THEN <<>> ELSE <<Head(@)>>]

=============================================================================
