----------------------------- MODULE PathTree -----------------------------
(***************************************************************************)
(* What the commands of Lab2 promise: a set of paths that grows and shrinks*)
(* by one at its leaves, a current directory that stays where it is or is  *)
(* lost with what it names, and a copy of the paths that outlives the      *)
(* program.  An entry is <<type, path>>, a path the names below the root.  *)
(***************************************************************************)
EXTENDS Sequences, SequencesExt

VARIABLES
  tree,  \* the entries
  wd,    \* the current directory's path, or LOST
  saved  \* the entries that were saved last
vars == <<tree, wd, saved>>

LOST == <<"/">>

IsDir(t, path) == path = <<>> \/ <<"D", path>> \in t
IsUsed(t, path) == \E e \in t : e[2] = path
Above(path) == {SubSeq(path, 1, k) : k \in 1 .. Len(path) - 1}

\* Some of the entries, and with each the directories that lead to it.
IsPart(s, t) == s \subseteq t /\ \A e \in s : IsDir(s, Front(e[2]))

Init == tree = {} /\ wd = <<>> /\ saved = {}

Make(e) ==
  /\ IsDir(tree, Front(e[2])) /\ ~ IsUsed(tree, e[2])
  /\ tree' = tree \cup {e}
  /\ UNCHANGED <<wd, saved>>

Delete(e) ==
  /\ \A below \in tree : e[2] \notin Above(below[2])
  /\ tree' = tree \ {e}
  /\ wd' = IF wd = e[2] THEN LOST ELSE wd
  /\ UNCHANGED saved

\* Whoever is lost may stay so, or find back.
ChangeDir ==
  /\ \/ IsDir(tree, wd')
     \/ wd = LOST /\ wd' = LOST
  /\ UNCHANGED <<tree, saved>>

Save == saved' = tree /\ UNCHANGED <<tree, wd>>

\* What is there stays; what was saved is added wherever nothing is in its way.
Reload ==
  /\ tree' = tree \cup {e \in saved : /\ ~ IsUsed(tree, e[2])
                                      /\ \A path \in Above(e[2]) : <<"F", path>> \notin tree}
  /\ UNCHANGED <<wd, saved>>

\* The program ends, alone or while it saves, and is started again.
Restart ==
  /\ tree' = {} /\ wd' = <<>>
  /\ saved' = saved \/ IsPart(saved', tree)

Next ==
  \/ \E e \in tree' \ tree : Make(e)
  \/ \E e \in tree \ tree' : Delete(e)
  \/ ChangeDir \/ Save \/ Reload \/ Restart

Spec == Init /\ [][Next]_vars
=============================================================================
