----------------------------- MODULE Ext2Shell -----------------------------
(***************************************************************************)
(* The commands of the file system program of src/Final on names: one      *)
(* action per command line that main() reads, each a whole handler of f1.c *)
(* with every call it makes.  A command on something that is not there, or *)
(* of the wrong type, prints a message; it is a step here only where it    *)
(* also leaves something behind.                                           *)
(***************************************************************************)
EXTENDS Ext2

CONSTANTS
  Commands,      \* the names of the commands that are typed
  Paths,         \* the paths that are typed
  HiddenNames,   \* the names that start with "."
  MaxRefs,       \* bound: no refCount leaves -MaxRefs .. MaxRefs
  MaxLinks       \* bound: no file has more links (no directory more than NInodes + 1)

ASSUME CommandsAssumption == {".", ".."} \subseteq HiddenNames /\ Paths \subseteq Path

VARIABLE fs
vars == fs

Types == {"none", "dir", "reg", "lnk"}

\* Fault: the count stays.
DecNot(links) == links

\* 16-bit i_links_count.
Dec(links) == (links - 1) % 2^16

-----------------------------------------------------------------------------
(* What no step can read any more is wiped: a slot that nobody uses or     *)
(* points to, a free inode that no slot and no entry names (ialloc's caller*)
(* rewrites all of it), a free block that no inode points to.              *)
EntriesIn(block) == {e \in ToSet(block) : "ino" \in DOMAIN e}
Tidy(f) ==
  LET slots == {s \in Slots : f.minode[s].refCount # 0} \cup {f.root, f.cwd}
      inodes == f.imap \cup {f.minode[s].ino : s \in slots}
                  \cup UNION {{e.ino : e \in EntriesIn(f.block[b])} : b \in f.bmap}
      pointers == UNION {Range(f.inode[i].blk) : i \in inodes \cap Inodes}
                  \cup UNION {Range(f.minode[s].INODE.blk) : s \in slots}
  IN  [f EXCEPT
        !.minode = [s \in Slots |-> IF s \in slots THEN f.minode[s] ELSE FreeSlot],
        !.inode = [i \in Inodes |-> IF i \in inodes THEN f.inode[i] ELSE Blank],
        !.block = [b \in Blocks |-> IF b \in f.bmap \cup pointers THEN f.block[b] ELSE <<>>]]

Bounded(f) ==
  /\ \A s \in Slots : f.minode[s].refCount \in -MaxRefs .. MaxRefs
  /\ \A s \in Slots : f.minode[s].INODE.links <=
       IF f.minode[s].INODE.type = "dir" THEN NInodes + 1 ELSE MaxLinks

Typed(command) == command \in Commands

\* The handler of the command that was typed leaves f.
Do(f) == f.ok /\ Bounded(f) /\ fs' = Tidy(f)

\* The disk as the program finds it: mount_root takes the root inode thrice.
Mounted(f) ==
  iget(iget(iget([f EXCEPT !.minode = [s \in Slots |-> FreeSlot],
                           !.root = 0, !.cwd = 0], ROOT), ROOT), ROOT)

NewDisk ==
  [imap |-> {ROOT}, bmap |-> {1},
   freeInodes |-> Cardinality(Inodes) - 1, freeBlocks |-> NBlocks - 1,
   inode |-> [i \in Inodes |-> IF i = ROOT THEN Inode("dir", 2, [NoBlocks EXCEPT ![1] = 1])
                               ELSE Blank],
   block |-> [b \in Blocks |-> IF b = 1 THEN <<Entry(".", ROOT), Entry("..", ROOT)>>
                               ELSE <<>>],
   minode |-> [s \in Slots |-> FreeSlot], root |-> 0, cwd |-> 0, ok |-> TRUE]

Init == fs = Mounted(NewDisk)

-----------------------------------------------------------------------------
(* What the handlers share.                                                *)

\* my_touch() of the name that searchByIno() finds for a directory in cwd,
\* of cwd itself when cwd does not list it.
TouchListed(f, ino) ==
  LET e == Entries(f, f.minode[f.cwd].INODE)
      listed == \E k \in DOMAIN e : e[k].ino = ino
  IN  MarkDirty(f, IF listed THEN ino ELSE CwdIno(f))

\* The inode that path names: its number, its slot, and the fs in which
\* getino has walked to it and iget has taken a reference of it; ok turns
\* FALSE when there is none.
Got(f, path) ==
  LET take(r) == [fs |-> iget(r.fs, r.ino), ino |-> r.ino, s |-> SlotOf(r.fs, r.ino)]
  IN  take(getino(f, path))

InodeOf(g) == g.fs.minode[g.s].INODE

\* The test before my_mkdir, my_creat and my_link make a name in p.
Free(p, name) ==
  p.fs.ok /\ InodeOf(p).type = "dir" /\ search(p.fs, name, InodeOf(p)) = 0

\* The new inode i and its name in p.
NewFile(p, name, i) ==
  SetDirty(AddEntry(Rewrite(ialloc(p.fs), i, Inode("reg", 1, NoBlocks)), p.s, name, i), p.s)

\* Fault: the parent is not put back.
creat_fileKeeps(p, name) == TouchListed(NewFile(p, name, NextInode(p.fs)), p.ino)

\* creat_file(), and the iput of my_creat.
creat_file(p, name) == iput(TouchListed(NewFile(p, name, NextInode(p.fs)), p.ino), p.s)

\* my_creat(), which does nothing when the name is taken.
my_creat(f, path) ==
  LET make(p, name) == IF Free(p, name) THEN creat_file(p, name) ELSE f
  IN  make(Got(f, dname(path)), bname(path))

-----------------------------------------------------------------------------
(* What an inode holds now: its slot's copy while somebody has it in use,  *)
(* else the disk's.                                                        *)
Held(i) == {s \in Slots : fs.minode[s].refCount > 0 /\ fs.minode[s].ino = i}
Now(i) == LET held == Held(i)
          IN  IF held = {} THEN fs.inode[i] ELSE fs.minode[Min(held)].INODE

-----------------------------------------------------------------------------
(* The commands.  \E x \in {e} gives the value of e the name x.             *)

\* The new directory i with block b, its name in p, and up for its "..".
NewDir(p, name, i, b, up) ==
  LET new == Inode("dir", 2, [NoBlocks EXCEPT ![1] = b])
      f == [Rewrite(balloc(ialloc(p.fs)), i, new) EXCEPT
              !.block[b] = <<Entry(".", i), Entry("..", up)>>]
  IN  [SetDirty(AddEntry(f, p.s, name, i), p.s) EXCEPT !.minode[p.s].INODE.links = @ + 1]

\* Fault: ".." leads to cwd.
rmkdirInCwd(p, name) ==
  TouchListed(NewDir(p, name, NextInode(p.fs), NextBlock(p.fs), CwdIno(p.fs)), p.ino)

rmkdir(p, name) ==
  TouchListed(NewDir(p, name, NextInode(p.fs), NextBlock(p.fs), p.ino), p.ino)

Mkdir(path) ==
  /\ Typed("mkdir") /\ 0 \notin {NextInode(fs), NextBlock(fs)}
  /\ \E p \in {Got(fs, dname(path))} :
       Free(p, bname(path)) /\ Do(iput(rmkdir(p, bname(path)), p.s))

Creat(path) ==
  /\ Typed("creat")
  /\ Free(Got(fs, dname(path)), bname(path)) /\ Do(my_creat(fs, path))

\* my_touch(): an inode that exists is rewritten with new times.  Otherwise
\* my_creat gets what strtok has left of the path, its first part.
my_touch(f, path) ==
  LET touch(r) == IF r.ino # NULL THEN MarkDirty(r.fs, r.ino) ELSE my_creat(r.fs, FirstPart(path))
  IN  touch(getino(f, path))

Touch(path) == Typed("touch") /\ Do(my_touch(fs, path))

Chmod(path) ==
  /\ Typed("chmod")
  /\ \E r \in {getino(fs, path)} : r.ino # NULL /\ Do(MarkDirty(r.fs, r.ino))

\* is_empty() reads the first block through an ip that iget left dangling
\* into the stack; what it reads after that block is anybody's guess.
OnlyHidden(g) ==
  \A e \in ToSet(g.fs.block[InodeOf(g).blk[1]]) : e.name \in HiddenNames

RefCount(g) == g.fs.minode[g.s].refCount

\* rmdir of what is not a directory puts it back; of one that somebody
\* holds, it keeps the reference it has just taken; of one that has a
\* subdirectory or a file, or for which is_empty guesses so, it puts it back.
RmdirRefused(path) ==
  /\ Typed("rmdir")
  /\ \E g \in {Got(fs, path)} :
       /\ g.fs.ok
       /\ \/ InodeOf(g).type # "dir" /\ Do(iput(g.fs, g.s))
          \/ InodeOf(g).type = "dir" /\ RefCount(g) > 1 /\ Do(g.fs)
          \/ InodeOf(g).type = "dir" /\ RefCount(g) <= 1 /\ Do(iput(g.fs, g.s))

\* Fault: somebody may be in it.
RmdirableHeld(g) == InodeOf(g).type = "dir" /\ InodeOf(g).links <= 2 /\ OnlyHidden(g)

\* Fault: there may be names in it.
RmdirableFull(g) == InodeOf(g).type = "dir" /\ RefCount(g) <= 1

Rmdirable(g) ==
  /\ InodeOf(g).type = "dir"
  /\ RefCount(g) <= 1
  /\ InodeOf(g).links <= 2
  /\ OnlyHidden(g)

Rmdir(path) ==
  /\ Typed("rmdir")
  /\ \E g \in {Got(fs, path)} :
       /\ g.fs.ok /\ Rmdirable(g)
       /\ \E p \in {Got(idalloc(FreeBlocksOf(g.fs, InodeOf(g)), g.ino), dname(path))} :
          \E removed \in {rm_child(iput(p.fs, g.s), p.s, bname(path))} :
          \E t \in {getino([removed EXCEPT !.minode[p.s].INODE.links = Dec(@)],
                           FirstPart(dname(path)))} :
            Do(iput(SetDirty(MarkDirty(t.fs, t.ino), p.s), p.s))

\* my_link() of the file in g to a new name in the directory in p.
my_link(g, p, name) ==
  LET f == SetDirty(AddEntry(p.fs, p.s, name, g.ino), g.s)
  IN  iput(iput([f EXCEPT !.minode[g.s].INODE.links = @ + 1], g.s), p.s)

Link(old, new) ==
  /\ Typed("link")
  /\ \E g \in {Got(fs, old)} :
       /\ g.fs.ok /\ InodeOf(g).type = "reg"
       /\ \E p \in {Got(g.fs, dname(new))} :
            Free(p, bname(new)) /\ Do(my_link(g, p, bname(new)))

\* rm(): the blocks of what is not a symlink, and the inode.
rm(f, inode, ino) ==
  idalloc(IF inode.type = "lnk" THEN f ELSE FreeBlocksOf(f, inode), ino)

\* my_unlink() of the file in g.  The decremented count is not marked dirty,
\* and neither is the parent.
my_unlink(g, path) ==
  LET less(f) == IF f.minode[g.s].INODE.links = 0 THEN rm(f, InodeOf(g), g.ino) ELSE f
      from(p) == iput(rm_child(iput(p.fs, g.s), p.s, bname(path)), p.s)
  IN  from(Got(less([g.fs EXCEPT !.minode[g.s].INODE.links = Dec(@)]), dname(path)))

Unlinkable(g) == g.fs.ok /\ InodeOf(g).type \in {"reg", "lnk"}

Unlink(path) ==
  /\ Typed("unlink")
  /\ \E g \in {Got(fs, path)} : Unlinkable(g) /\ Do(my_unlink(g, path))

\* my_creat() of the new name may fail because the name exists: what it
\* names becomes the link.
Symlink(old, new) ==
  /\ Typed("symlink")
  /\ \E o \in {getino(fs, old)} :
       /\ o.ino # NULL
       /\ \E n \in {Got(my_creat(o.fs, new), new)} :
            Do(iput(Changed(n.fs, n.s, [InodeOf(n) EXCEPT !.type = "lnk", !.blk = NoBlocks]),
                    n.s))

Chdir(path) ==
  /\ Typed("cd")
  /\ \E g \in {Got(fs, path)} :
       Do(IF InodeOf(g).type # "dir" THEN iput(g.fs, g.s)
          ELSE [iput(g.fs, g.fs.cwd) EXCEPT !.cwd = g.s])

\* pwd: the names that rpwd() prints on its way back from the root, an
\* empty one where searchByIno() finds none.
NameIn(dir, i) ==
  LET e == Entries(fs, Now(dir))
      k == SelectInSeq(e, LAMBDA x : x.ino = i)
  IN  IF k = 0 THEN "" ELSE e[k].name
rpwd[n \in 0 .. Cardinality(Inodes), i \in Inodes] ==
  LET up == search(fs, "..", Now(i))
  IN  IF i = ROOT \/ n = 0 THEN <<>> ELSE Append(rpwd[n - 1, up], NameIn(up, i))

\* The entries e of a directory are loaded one by one.
Load(f, i) == iput(iget(f, i), SlotOf(f, i))
MaxEntries == NDirect * EntriesPerBlock
ls_dir(f, e) ==
  LET loaded[k \in 0 .. MaxEntries] ==
        IF k = 0 THEN f
        ELSE IF k > Len(e) THEN loaded[k - 1] ELSE Load(loaded[k - 1], e[k].ino)
  IN  loaded[MaxEntries]

\* ls of a file or of a directory.
Ls(path) ==
  /\ Typed("ls")
  /\ \E g \in {Got(fs, path)} :
       Do(iput(IF InodeOf(g).type # "dir" THEN g.fs
               ELSE ls_dir(g.fs, Entries(g.fs, InodeOf(g))), g.s))

\* stat does not put back what it gets.
Stat(path) == Typed("stat") /\ Do(Got(fs, path).fs)

\* Fault: quit writes no inode back.
QuitUnflushed == Typed("quit") /\ Do(Mounted(fs))

\* quit writes the dirty inodes back.
Flush(f, s) ==
  IF f.minode[s].refCount > 0 /\ f.minode[s].dirty
    THEN iput([f EXCEPT !.minode[s].refCount = 1], s) ELSE f
Flushed(f) ==
  LET flushed[k \in 0 .. NMINODES] == IF k = 0 THEN f ELSE Flush(flushed[k - 1], k - 1)
  IN  flushed[NMINODES]

\* quit exits; the program is started again.
Quit == Typed("quit") /\ Do(Mounted(Flushed(fs)))

\* The program is killed at its prompt and started again.
Kill == Typed("kill") /\ Do(Mounted(fs))

Command ==
  \/ \E path \in Paths : Mkdir(path) \/ Creat(path) \/ Touch(path) \/ Chmod(path)
  \/ \E path \in Paths : Rmdir(path) \/ RmdirRefused(path) \/ Unlink(path)
  \/ \E path \in Paths \cup {[abs |-> TRUE, names |-> <<>>]} : Chdir(path)
  \/ \E path \in Paths : Ls(path) \/ Stat(path)
  \/ \E old, new \in Paths : Link(old, new) \/ Symlink(old, new)

Restart == Quit \/ Kill

Next == Command \/ Restart

Spec == Init /\ [][Next]_vars

-----------------------------------------------------------------------------
(* Names and directories as anyone who walks the tree sees them.          *)
EntrySet(i) ==
  LET inode == Now(i)
  IN  {e \in UNION {ToSet(fs.block[inode.blk[k]]) : k \in Scanned(inode)} :
         e.name \notin {".", ".."}}

\* The directories that can be reached from the root by names.
Below(D) == {ROOT} \cup {i \in {e.ino : e \in UNION {EntrySet(d) : d \in D}} : Now(i).type = "dir"}
Reach[n \in 0 .. Cardinality(Inodes)] == IF n = 0 THEN {ROOT} ELSE Below(Reach[n - 1])
Dirs == Reach[Cardinality(Inodes)]

\* Every name: <<directory, name, inode>>.
Tree == UNION {{<<d, e.name, e.ino>> : e \in EntrySet(d)} : d \in Dirs}
NamesOf(i) == {t \in Tree : t[3] = i}

BlocksOf(i) == {b \in Blocks : \E k \in 1 .. NDirect : Now(i).blk[k] = b}

\* The types, when the blocks hold directory entries and these cells.
TypeOKWith(cells) ==
  LET inode == [type : Types, links : 0 .. 2^16 - 1, blk : [1 .. NDirect -> 0 .. NBlocks],
                size : Nat]
      entry == [name : STRING, ino : Inodes]
  IN  /\ fs.imap \subseteq Inodes /\ fs.bmap \subseteq Blocks
      /\ fs.freeInodes \in 0 .. Cardinality(Inodes) /\ fs.freeBlocks \in 0 .. NBlocks
      /\ DOMAIN fs.inode = Inodes /\ Range(fs.inode) \subseteq inode
      /\ DOMAIN fs.block = Blocks
      /\ \A b \in Blocks : /\ Len(fs.block[b]) <= EntriesPerBlock
                           /\ \A e \in ToSet(fs.block[b]) : e \in entry \/ e \in cells
      /\ fs.minode \in [Slots -> [refCount : -MaxRefs .. MaxRefs, ino : Inodes \cup {0},
                                  dirty : BOOLEAN, INODE : inode]]
      /\ fs.root \in Slots /\ fs.cwd \in Slots /\ fs.ok

\* Type invariant: the records of the disk and of the minode table.
TypeOK == TypeOKWith({})

(***************************************************************************)
(* The bitmaps, the free counts and the names agree after any sequence of  *)
(* allocations, frees and restarts: the counts of the super block and the  *)
(* group descriptor are those of the bitmaps, and every name that can be   *)
(* reached is of an inode that is marked and has a type, so that ialloc()  *)
(* never hands out the inode of a file or directory that still has a name. *)
(***************************************************************************)
BitmapsRight ==
  /\ fs.freeInodes = Cardinality(Inodes \ fs.imap)
  /\ fs.freeBlocks = Cardinality(Blocks \ fs.bmap)
  /\ \A t \in Tree : t[3] \in fs.imap /\ Now(t[3]).type # "none"

(***************************************************************************)
(* The directories form one tree: each but the root has one name, and its  *)
(* "." and ".." lead to itself and to the directory that names it; no      *)
(* directory has two entries of one name.                                  *)
(***************************************************************************)
OneTree ==
  /\ \A d \in Dirs \ {ROOT} : Cardinality(NamesOf(d)) = 1
  /\ NamesOf(ROOT) = {}
  /\ \A t \in Tree : t[3] \in Dirs =>
       search(fs, ".", Now(t[3])) = t[3] /\ search(fs, "..", Now(t[3])) = t[1]
  /\ \A d \in Dirs : LET e == Entries(fs, Now(d))
                     IN \A j, k \in DOMAIN e : e[j].name = e[k].name => j = k

(***************************************************************************)
(* A directory's links count is 2 more than its subdirectories: what       *)
(* my_rmdir() relies on, while mkdir and rmdir change the count of a       *)
(* parent that may be loaded, held by cwd, or written back only at quit.   *)
(***************************************************************************)
DirLinks ==
  \A d \in Dirs : Now(d).links = 2 + Cardinality({t \in Tree : t[1] = d /\ t[3] \in Dirs})

(***************************************************************************)
(* A file's links count is never below the number of its names: else       *)
(* unlink would free a file that has another name.  (It may be above: the  *)
(* decrement of my_unlink() is not written back.)                          *)
(***************************************************************************)
LinksCoverNames ==
  \A t \in Tree : t[3] \notin Dirs => Now(t[3]).links >= Cardinality(NamesOf(t[3]))

(***************************************************************************)
(* Every block that the bitmap marks belongs to exactly one directory, and *)
(* every directory's blocks are marked: rmdir frees them once, and nothing *)
(* is left behind.                                                         *)
(***************************************************************************)
BlocksOwned ==
  \A b \in Blocks : Cardinality({d \in Dirs : b \in BlocksOf(d)}) = IF b \in fs.bmap THEN 1 ELSE 0

\* No command's iget reuses the slot that root or cwd points to.
SlotsInUse ==
  /\ fs.minode[fs.root].refCount > 0 /\ fs.minode[fs.root].ino = ROOT
  /\ fs.minode[fs.cwd].refCount > 0

(***************************************************************************)
(* The slots that root and cwd point to are in use, and hold the root and  *)
(* a directory that can be reached: no command's iget reuses their slot,   *)
(* and no rmdir takes the directory from under them.                       *)
(***************************************************************************)
HeldSlots == SlotsInUse /\ CwdIno(fs) \in Dirs

\* An inode is in one slot: iget() finds the copy that others hold.
OneCopy == \A i \in Inodes : Cardinality(Held(i)) <= 1

(***************************************************************************)
(* The path that pwd prints leads from the root to cwd: after any mkdir,   *)
(* rmdir and cd, every "..", and the first entry that searchByIno() finds  *)
(* for a directory in its parent, are the right ones.                      *)
(***************************************************************************)
PwdNamesCwd ==
  LET step(i, name) == IF i = 0 THEN 0 ELSE search(fs, name, Now(i))
      arrive == FoldLeft(step, ROOT, rpwd[Cardinality(Inodes), CwdIno(fs)])
  IN  arrive = CwdIno(fs)

(***************************************************************************)
(* At the prompt only the directories somebody is in are held, the root    *)
(* and cwd: my_rmdir() takes a second reference for "in dir".              *)
(***************************************************************************)
HeldDirsAreUsed ==
  \A s \in Slots : /\ fs.minode[s].refCount > 0 /\ fs.minode[s].INODE.type = "dir"
                  => s \in {fs.root, fs.cwd}

(***************************************************************************)
(* The commands implement the namespace: each adds or removes the one name *)
(* it is about, quit and a kill at the prompt lose no name, rmdir removes  *)
(* only empty directories, and never the one the shell is in.              *)
(***************************************************************************)
NS == INSTANCE Namespace
        WITH tree <- Tree, dirs <- Dirs, cwd <- CwdIno(fs)
ImplementsNamespace == NS!Spec

=============================================================================
