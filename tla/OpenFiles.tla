----------------------------- MODULE OpenFiles -----------------------------
(***************************************************************************)
(* Open files of the file system program: the descriptor table and the     *)
(* commands of Final/f2.c, on top of the commands on names.                *)
(*                                                                         *)
(* A byte of a file is a cell; a block holds BLKSIZE of them.  As for      *)
(* directories only the direct blocks are modelled: a file that needs more *)
(* is where the model ends.  cat copies its argument through a pointer     *)
(* that was never set and is left out; pdf only prints.                    *)
(***************************************************************************)
EXTENDS Ext2Shell

CONSTANTS
  NFD,        \* descriptors: 0 .. NFD-1
  BLKSIZE,    \* cells of a block
  Modes,      \* of R, W, RW and APPEND, those that are typed
  Lines,      \* the texts that are written
  Pairs,      \* the two paths of a cp or mv
  MaxBytes    \* bound: the files have no more bytes in all

ASSUME FilesAssumption ==
  /\ {NFD, BLKSIZE, MaxBytes} \subseteq Nat \ {0}
  /\ Modes \subseteq {"R", "W", "RW", "APPEND"}
  /\ Pairs \subseteq Path \X Path

VARIABLES
  fd,         \* running->fd
  damage      \* what has been done that the code gets wrong, of "cut", "spilt"
              \* and "removed": a history variable (see Cuts, Spills, LeftOpen)
fvars == <<fs, fd, damage>>

Fds   == 0 .. NFD - 1
NoOFT == [mode |-> "none", inodeptr |-> NULL, offset |-> 0]
OFT(mode, s, offset) == [mode |-> mode, inodeptr |-> s, offset |-> offset]

Cell(c) == [char |-> c]
NUL     == Cell("")

\* old with new over it after the first k cells.
Overlay(old, k, new) ==
  [j \in 1 .. Max({Len(old), k + Len(new)}) |->
     IF j \in k + 1 .. k + Len(new) THEN new[j - k]
     ELSE IF j <= Len(old) THEN old[j] ELSE NUL]

-----------------------------------------------------------------------------
(* my_write() and my_read(): loops over blocks.  w and r are where the     *)
(* loop is: the offset and the bytes left.  The caller's buffer is not     *)
(* advanced: each turn writes its beginning, and reads to it.              *)

Place(offset) == [lblk |-> offset \div BLKSIZE + 1, start |-> offset % BLKSIZE]

\* Fault: the block that is taken stays free in the bitmap.
AllocatedUnmarked(f, s, lblk) ==
  IF lblk > NDirect THEN Require(f, FALSE)
  ELSE IF f.minode[s].INODE.blk[lblk] # 0 THEN f
  ELSE [f EXCEPT !.minode[s].INODE.blk[lblk] = NextBlock(f)]

\* The block for the write, allocated if the inode has none.
Allocated(f, s, lblk) ==
  IF lblk > NDirect THEN Require(f, FALSE)
  ELSE IF f.minode[s].INODE.blk[lblk] # 0 THEN f
  ELSE [balloc(f) EXCEPT !.minode[s].INODE.blk[lblk] = NextBlock(f)]

\* Fault: the size is left alone.
GrowNot(inode, end, n) == inode

\* A chunk of n bytes that ends beyond the size adds all of n to it.
Grow(inode, end, n) == IF end > inode.size THEN [inode EXCEPT !.size = @ + n] ELSE inode

\* One turn, until there is nothing left.
WriteChunk(w, s, text) ==
  LET at == Place(w.offset)
      n  == Min({BLKSIZE - at.start, w.left})
      put(f) == IF ~f.ok THEN f
                ELSE [f EXCEPT !.block[f.minode[s].INODE.blk[at.lblk]] =
                                 Overlay(@, at.start, SubSeq(text, 1, n)),
                               !.minode[s].INODE = Grow(@, w.offset + n, n),
                               !.minode[s].dirty = TRUE]
  IN  IF w.left = 0 \/ ~w.fs.ok THEN w
      ELSE [fs |-> put(Allocated(w.fs, s, at.lblk)),
            offset |-> w.offset + n, left |-> w.left - n]

\* Each turn but the last ends where a block does.
my_write(f, s, offset, text) ==
  LET turns[k \in 0 .. NDirect + 1] ==
        IF k = 0 THEN [fs |-> f, offset |-> offset, left |-> Len(text)]
        ELSE WriteChunk(turns[k - 1], s, text)
  IN  turns[NDirect + 1]

\* The cell of an inode at offset; block 0 is no block of the file.
CellAt(f, inode, offset) ==
  LET at == Place(offset)
      b  == inode.blk[at.lblk]
  IN  IF b = 0 THEN NUL
      ELSE IF at.start < Len(f.block[b]) THEN f.block[b][at.start + 1] ELSE NUL

Bytes(f, inode) == [k \in 1 .. inode.size |-> CellAt(f, inode, k - 1)]

ReadChunk(r, f, inode) ==
  LET n == Min({BLKSIZE - Place(r.offset).start, inode.size - r.offset, r.left})
  IN  [offset |-> r.offset + n, left |-> r.left - n,
       buf |-> Overlay(r.buf, 0, SubSeq(Bytes(f, inode), r.offset + 1, r.offset + n))]

my_read(f, inode, offset, nbytes) ==
  LET turn(r, k) == IF r.left = 0 \/ r.offset = inode.size THEN r ELSE ReadChunk(r, f, inode)
  IN  FoldLeft(turn, [offset |-> offset, left |-> nbytes, buf |-> <<>>],
               [k \in 1 .. nbytes |-> k])

-----------------------------------------------------------------------------
(* open_file() and my_close().                                             *)

\* Blocks are freed, and the inode keeps its pointers to them.
my_truncate(f, s) ==
  [FreeBlocksOf(f, f.minode[s].INODE) EXCEPT
     !.minode[s].INODE.size = 0, !.minode[s].dirty = TRUE]

\* What open_file() makes of a file that is not there: one in cwd.
OrNew(p, name) ==
  LET here == [abs |-> FALSE, names |-> <<name>>]
      ino  == search(p.fs, name, InodeOf(p))
      new(r) == [fs |-> iget(r.fs, r.ino), ino |-> r.ino, s |-> SlotOf(r.fs, r.ino)]
  IN  IF InodeOf(p).type = "dir" /\ ino # 0 THEN new([fs |-> p.fs, ino |-> ino])
      ELSE new(getino(my_creat(Require(p.fs, InodeOf(p).type = "dir"), here), here))

\* Fault: only a writer is in the way of a reader.
InUseByWriter(table, s, mode) ==
  \E i \in Fds : table[i].inodeptr = s /\ table[i].mode # "R"

InUse(table, s, mode) ==
  \E i \in Fds : table[i].inodeptr = s /\ (table[i].mode # "R" \/ mode # "R")

\* Fault: a descriptor holds no reference.
IntoUnheld(f, table, s, mode) ==
  LET free == {i \in Fds : table[i] = NoOFT}
      offset == IF mode = "APPEND" THEN f.minode[s].INODE.size ELSE 0
  IN  IF free = {} THEN [fs |-> iput(f, s), fd |-> table, i |-> -1]
      ELSE [fs |-> iput(f, s), fd |-> [table EXCEPT ![Min(free)] = OFT(mode, s, offset)],
            i |-> Min(free)]

\* Fault: the mode of a new descriptor is not set.
IntoUnset(f, table, s, mode) ==
  LET free == {i \in Fds : table[i] = NoOFT}
  IN  IF free = {} THEN [fs |-> iput(f, s), fd |-> table, i |-> -1]
      ELSE [fs |-> f, fd |-> [table EXCEPT ![Min(free)] = OFT("none", s, 0)], i |-> Min(free)]

\* The descriptor for slot s; when there is none left the file is put back.
Into(f, table, s, mode) ==
  LET free == {i \in Fds : table[i] = NoOFT}
      offset == IF mode = "APPEND" THEN f.minode[s].INODE.size ELSE 0
  IN  IF free = {} THEN [fs |-> iput(f, s), fd |-> table, i |-> -1]
      ELSE [fs |-> IF mode = "R" THEN f ELSE SetDirty(f, s),
            fd |-> [table EXCEPT ![Min(free)] = OFT(mode, s, offset)], i |-> Min(free)]

Opened(g, table, path, mode) ==
  IF InodeOf(g).type # "reg" \/ InUse(table, g.s, mode)
    THEN [fs |-> iput(g.fs, g.s), fd |-> table, i |-> -1]
  ELSE Into(my_touch(IF mode = "W" THEN my_truncate(g.fs, g.s) ELSE g.fs, path),
            table, g.s, mode)

\* open_file(): the file system, the table and the number of the descriptor,
\* or -1.  The parent is not put back.
open_file(f, table, path, mode) ==
  Opened(OrNew(Got(f, dname(path)), bname(path)), table, path, mode)

\* o.i is the descriptor to close; -1 is refused.
my_close(o) ==
  IF o.i = -1 THEN o
  ELSE [o EXCEPT !.fs = iput(@, o.fd[o.i].inodeptr), !.fd[o.i] = NoOFT]

-----------------------------------------------------------------------------
(* The commands.                                                           *)

\* Mode W cuts a file that has blocks.
Cuts(f, path, mode) ==
  LET cut(r) == r.ino # NULL /\ Now(r.ino).type = "reg" /\ Now(r.ino).blk # NoBlocks
  IN  IF mode = "W" /\ cut(getino(f, path)) THEN {"cut"} ELSE {}

LeftOpen(table, f) ==
  \E i \in Fds : table[i] # NoOFT /\ f.minode[table[i].inodeptr].INODE.links = 0

\* A write of n bytes goes over the end of a block, or over the old end of the
\* file from before it.
Spills(size, offset, n) ==
  IF (offset % BLKSIZE) + n > BLKSIZE \/ (offset < size /\ offset + n > size)
    THEN {"spilt"} ELSE {}

BytesInAll(f) ==
  LET size(i) == IF Hits(f, i) = {} THEN f.inode[i].size ELSE f.minode[Min(Hits(f, i))].INODE.size
  IN  MapThenSumSet(size, Inodes)

After(f, t, wrong) == damage \cup wrong \cup IF LeftOpen(t, f) THEN {"removed"} ELSE {}

\* The handler leaves the file system f and the table t, within the bounds (a
\* block that is freed twice is counted twice).
DoFiles(f, t, wrong) ==
  /\ Do(f) /\ fd' = t
  /\ f.freeBlocks <= NBlocks
  /\ BytesInAll(f) <= MaxBytes /\ \A i \in Fds : t[i].offset <= MaxBytes
  /\ \A i \in Inodes \ {ROOT} : f.inode[i].links <= MaxLinks
  /\ damage' = After(f, t, wrong)

Open(path, mode) ==
  /\ Typed("open")
  /\ \E o \in {open_file(fs, fd, path, mode)} : DoFiles(o.fs, o.fd, Cuts(fs, path, mode))

Close(i) ==
  /\ Typed("close") /\ fd[i] # NoOFT
  /\ \E o \in {my_close([fs |-> fs, fd |-> fd, i |-> i])} : DoFiles(o.fs, o.fd, {})

Write(i, text) ==
  /\ Typed("write") /\ fd[i].mode \notin {"none", "R"}
  /\ \E w \in {my_write(fs, fd[i].inodeptr, fd[i].offset, text)} :
       DoFiles(w.fs, [fd EXCEPT ![i].offset = w.offset],
               Spills(fs.minode[fd[i].inodeptr].INODE.size, fd[i].offset, Len(text)))

\* read does not look at the mode.  With an offset beyond the size it reads
\* what is not there: undefined.
Read(i, nbytes) ==
  LET inode == fs.minode[fd[i].inodeptr].INODE
  IN  /\ Typed("read") /\ fd[i] # NoOFT /\ fd[i].offset < inode.size
      /\ DoFiles(fs, [fd EXCEPT ![i].offset = my_read(fs, inode, @, nbytes).offset], {})

\* lseek goes to a byte of the file, not to its end.
Lseek(i, position) ==
  /\ Typed("lseek") /\ fd[i] # NoOFT
  /\ position \in 0 .. fs.minode[fd[i].inodeptr].INODE.size - 1
  /\ DoFiles(fs, [fd EXCEPT ![i].offset = position], {})

\* Fault: the last piece is not copied.
CopyChunkShort(w, from, to) ==
  LET inode == w.fs.minode[from].INODE
      r == my_read(w.fs, inode, w.at, BLKSIZE)
  IN  IF r.offset = inode.size THEN w
      ELSE [fs |-> my_write(w.fs, to, w.at, r.buf).fs, at |-> r.offset]

\* A block is read, then written at the same offset.
CopyChunk(w, from, to) ==
  LET inode == w.fs.minode[from].INODE
      r == my_read(w.fs, inode, w.at, BLKSIZE)
  IN  IF w.at = inode.size THEN w
      ELSE [fs |-> my_write(w.fs, to, w.at, r.buf).fs, at |-> r.offset]

\* The loop of copy_file().
Copied(f, from, to) ==
  LET turns[k \in 0 .. NDirect] ==
        IF k = 0 THEN [fs |-> f, at |-> 0] ELSE CopyChunk(turns[k - 1], from, to)
  IN  turns[NDirect].fs

\* copy_file() when both files have a descriptor, r and w; without one it
\* goes on with running->fd[-1] unless there is nothing to copy.
Transferred(r, w) ==
  LET from == w.fd[r.i].inodeptr
  IN  IF r.i = -1 THEN Require(w.fs, FALSE)
      ELSE IF w.i # -1 THEN Copied(w.fs, from, w.fd[w.i].inodeptr)
      ELSE Require(w.fs, w.fs.minode[from].INODE.size = 0)

CloseBoth(f, r, w) ==
  my_close([my_close([fs |-> f, fd |-> w.fd, i |-> r.i]) EXCEPT !.i = w.i])

Copy(old, new) ==
  /\ Typed("cp")
  /\ \E r \in {open_file(fs, fd, old, "R")} :
     \E w \in {open_file(r.fs, r.fd, new, "W")} :
     \E o \in {CloseBoth(Transferred(r, w), r, w)} :
       DoFiles(o.fs, o.fd, Cuts(fs, new, "W"))

\* my_link(), which does nothing to a new name that exists, or in no directory.
Linked(f, old, new) ==
  LET link(g, p) == IF g.fs.ok /\ InodeOf(g).type = "reg" /\ Free(p, bname(new))
                      THEN my_link(g, p, bname(new)) ELSE f
      to(g) == link(g, Got(g.fs, dname(new)))
  IN  to(Got(f, old))

\* mv within a directory: a link, and unlink whether or not that has worked.
Move(old, new) ==
  /\ Typed("mv") /\ dname(old) = dname(new)
  /\ \E g \in {Got(Linked(fs, old, new), old)} :
       Unlinkable(g) /\ DoFiles(my_unlink(g, old), fd, {})

\* mv to another directory: a copy, and unlink.
MoveAway(old, new) ==
  /\ Typed("mv") /\ dname(old) # dname(new)
  /\ \E r \in {open_file(fs, fd, old, "R")} :
     \E w \in {open_file(r.fs, r.fd, new, "W")} :
     \E o \in {CloseBoth(Transferred(r, w), r, w)} :
     \E g \in {Got(o.fs, old)} :
       Unlinkable(g) /\ DoFiles(my_unlink(g, old), o.fd, Cuts(fs, new, "W"))

\* The commands on names leave the descriptors alone.
OnNames ==
  /\ Command
  /\ UNCHANGED fd
  /\ fs'.freeBlocks <= NBlocks
  /\ damage' = After(fs', fd, {})

FilesInit == Init /\ fd = [i \in Fds |-> NoOFT] /\ damage = {}

FilesNext ==
  \/ \E path \in Paths, mode \in Modes : Open(path, mode)
  \/ \E i \in Fds : Close(i)
  \/ \E i \in Fds, text \in Lines : Write(i, text)
  \/ \E i \in Fds, n \in 1 .. MaxBytes : Read(i, n)
  \/ \E i \in Fds, n \in 0 .. MaxBytes : Lseek(i, n)
  \/ \E p \in Pairs : Copy(p[1], p[2]) \/ Move(p[1], p[2]) \/ MoveAway(p[1], p[2])
  \/ OnNames
  \/ Restart /\ fd' = [i \in Fds |-> NoOFT] /\ UNCHANGED damage

FilesSpec == FilesInit /\ [][FilesNext]_fvars

-----------------------------------------------------------------------------
OpenFds == {i \in Fds : fd[i] # NoOFT}
InodeOfFd(i) == fs.minode[fd[i].inodeptr].INODE

\* Type invariant of the descriptor table.
FilesTypeOK ==
  /\ TypeOKWith([char : STRING])
  /\ \A i \in OpenFds : fd[i] \in [mode : Modes \cup {"R", "W"}, inodeptr : Slots, offset : 0 .. MaxBytes]
  /\ damage \subseteq {"cut", "spilt", "removed"}

(***************************************************************************)
(* A file is open any number of times for reading, or once for anything    *)
(* else: open_file() looks for the inode's slot in the table (f2.c:118),   *)
(* which finds every descriptor of a file only as long as the file stays   *)
(* in the one slot, through renames, removals and reuse of its number.     *)
(***************************************************************************)
OneWriter ==
  \A i, j \in OpenFds :
    i # j /\ fs.minode[fd[i].inodeptr].ino = fs.minode[fd[j].inodeptr].ino
      => fd[i].mode = "R" /\ fd[j].mode = "R"

OpenOn(s) == {i \in OpenFds : fd[i].inodeptr = s}
ReferencesHeld(s) == fs.minode[s].refCount >= Cardinality(OpenOn(s))
FileHeld(s) == OpenOn(s) # {} => fs.minode[s].INODE.type = "reg"

(***************************************************************************)
(* Every descriptor holds a reference of its slot, and the slot a file: no *)
(* close, refused open, cp, mv or removal gives back one reference too     *)
(* many, which would let iget() load another inode under a descriptor.     *)
(***************************************************************************)
DescriptorsHold == \A s \in Slots : ReferencesHeld(s) /\ FileHeld(s)

(***************************************************************************)
(* No descriptor is beyond the end of its file, as my_read() takes for     *)
(* granted when it subtracts (f2.c:419): no other descriptor, cp, mv or    *)
(* unlink shortens a file under it - unless the open file was removed.     *)
(***************************************************************************)
OffsetInFile == damage = {} => \A i \in OpenFds : fd[i].offset <= InodeOfFd(i).size

(***************************************************************************)
(* The blocks of the files and directories that have a name are marked in  *)
(* the bitmap, belong to one of them only, and cover the file up to its    *)
(* size: writes through open descriptors, copies, renames, removals and    *)
(* restarts never hand a block out twice - until my_truncate() ("currently *)
(* broken", f2.c:6) has cut a file that has blocks, my_write() has gone    *)
(* over the end of the file or a block, or an open file has been removed.  *)
(***************************************************************************)
BlocksApart ==
  damage = {} => \A named \in {{ROOT} \cup {t[3] : t \in Tree}} :
    /\ \A i \in named : BlocksOf(i) \subseteq fs.bmap
    /\ \A i, j \in named : i # j => BlocksOf(i) \cap BlocksOf(j) = {}
    /\ \A i \in named : \A k \in 0 .. Now(i).size - 1 : Now(i).blk[Place(k).lblk] # 0

\* The files that have a name: <<<<directory, name>>, bytes>>.
TextOf(i) == SubSeq(Bytes(fs, Now(i)), 1, Now(i).size)
Files ==
  {<< <<t[1], t[2]>>, TextOf(t[3])>> : t \in {u \in Tree : Now(u[3]).type = "reg"}}

(***************************************************************************)
(* The commands implement ByteFiles: a write changes the bytes under one   *)
(* name, and as the text says; cp makes an equal file and leaves the other *)
(* alone; close, read, lseek and quit change no byte; open and mv lose     *)
(* none but those of a file that is replaced or (mv within a directory     *)
(* onto a name that is there) of the file that was to be moved.            *)
(***************************************************************************)
BF == INSTANCE ByteFiles WITH files <- Files
ImplementsByteFiles == [][damage' = {} => UNCHANGED Files \/ BF!Next]_fvars

=============================================================================
