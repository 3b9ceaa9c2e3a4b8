----------------------------- MODULE Namespace -----------------------------
(***************************************************************************)
(* What the commands of the file system program promise about names: a     *)
(* tree of directories with files in it, in which a command adds or        *)
(* removes one name, and which a restart of the program leaves alone.      *)
(* There are no bitmaps, blocks, links counts or in-memory inodes here.    *)
(* Next picks the name from what is new or gone, tree' \ tree: the same    *)
(* steps as for any name, and few for TLC to look at.                      *)
(***************************************************************************)
CONSTANT ROOT

VARIABLES
  tree,   \* the names: <<directory, name, inode>>
  dirs,   \* the inodes that are directories
  cwd     \* the shell's directory
vars == <<tree, dirs, cwd>>

Init == tree = {} /\ dirs = {ROOT} /\ cwd = ROOT

InodesNamed == {ROOT} \cup {t[3] : t \in tree}

Add(t) ==
  /\ t[1] \in dirs
  /\ \A u \in tree : u[1] # t[1] \/ u[2] # t[2]
  /\ tree' = tree \cup {t}
  /\ cwd' = cwd

AddFile(t) == Add(t) /\ t[3] \notin InodesNamed /\ dirs' = dirs
AddDir(t)  == Add(t) /\ t[3] \notin InodesNamed /\ dirs' = dirs \cup {t[3]}
AddName(t) == Add(t) /\ t[3] \in InodesNamed \ dirs /\ dirs' = dirs

RemoveName(t) ==
  /\ t[3] \notin dirs
  /\ tree' = tree \ {t}
  /\ UNCHANGED <<dirs, cwd>>

RemoveDir(t) ==
  /\ t[3] \in dirs \ {cwd}
  /\ \A u \in tree : u[1] # t[3]
  /\ tree' = tree \ {t}
  /\ dirs' = dirs \ {t[3]}
  /\ UNCHANGED cwd

ChangeDir == cwd' \in dirs /\ UNCHANGED <<tree, dirs>>

Next ==
  \/ \E t \in tree' \ tree : AddFile(t) \/ AddDir(t) \/ AddName(t)
  \/ \E t \in tree \ tree' : RemoveName(t) \/ RemoveDir(t)
  \/ ChangeDir

Spec == Init /\ [][Next]_vars
=============================================================================
