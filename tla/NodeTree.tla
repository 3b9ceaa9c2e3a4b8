----------------------------- MODULE NodeTree -----------------------------
(***************************************************************************)
(* The file system tree of Lab2, in memory: a node points to its parent,   *)
(* to the first of its children and to its next sibling.  save writes one  *)
(* line a node, in preorder; reload makes the nodes again, line by line.   *)
(* The program never gives a node's memory back; a node that no pointer    *)
(* leads to from root or cwd is free here, and its fields are cleared.     *)
(***************************************************************************)
EXTENDS Integers, FiniteSets, FiniteSetsExt, SequencesExt

CONSTANTS
  NNodes,   \* the bound on the nodes, root included
  Paths,    \* pathnames: [abs |-> starts with "/", names |-> between the "/"s]
  CdPaths   \* those given to cd, which knows ".."

Path == [abs : BOOLEAN, names : Seq(STRING \ {""})]

ASSUME PathsAssumption == NNodes \in Nat \ {0} /\ Paths \subseteq Path /\ CdPaths \subseteq Path

VARIABLES
  node,  \* the heap
  cwd,
  file   \* the lines of "myfile"
vars == <<node, cwd, file>>

Nodes == 1 .. NNodes
root  == 1
NULL  == 0
CRASH == -1

Blank == [type |-> "-", name |-> "", parentPtr |-> NULL, childPtr |-> NULL, siblingPtr |-> NULL]
NewTree == [n \in Nodes |-> IF n = root THEN [Blank EXCEPT !.type = "D", !.name = "/"] ELSE Blank]
FULL == <<>>   \* instead of a heap that has outgrown the bound

-----------------------------------------------------------------------------
(* Walking the pointers in heap h.                                         *)

\* Places in a walk that has so many nodes ahead of it, and is at some node.
Places == (0 .. NNodes) \X (Nodes \cup {NULL})

\* n and the siblings after it.
Chain(h, n) ==
  LET from[e \in Places] == IF e[1] = 0 \/ e[2] = NULL THEN <<>>
                            ELSE <<e[2]>> \o from[<<e[1] - 1, h[e[2]].siblingPtr>>]
  IN  from[<<NNodes, n>>]

Children(h, n) == Chain(h, h[n].childPtr)

\* The first child of that name and one of those types.
Find(h, n, name, types) ==
  LET kids  == Children(h, n)
      found == {i \in DOMAIN kids : h[kids[i]].name = name /\ h[kids[i]].type \in types}
  IN  IF found = {} THEN NULL ELSE kids[Min(found)]

\* split(): the directory's names, and the last, which "/" has not.
dirname(path)  == IF path.names = <<>> THEN <<>> ELSE Front(path.names)
basename(path) == IF path.names = <<>> THEN "" ELSE Last(path.names)

Into(h, n, name) == IF n = NULL THEN NULL ELSE Find(h, n, name, {"D"})

\* Along the names from a node: the node at the end, or NULL.
Walk(h, from, names) ==
  LET at[k \in 0 .. Len(names)] == IF k = 0 THEN from ELSE Into(h, at[k - 1], names[k])
  IN  at[Len(names)]

Start(path) == IF path.abs THEN root ELSE cwd

\* rmdir looks for the "/" in dirname, where that of a path like "/a" no longer is.
RmdirStart(path) == IF path.abs /\ Len(path.names) > 1 THEN root ELSE cwd

\* The names from the root down to n; the root's is left out.
PathOf(h, n) ==
  LET path[e \in Places] == IF e[1] = 0 \/ e[2] = NULL \/ h[e[2]].parentPtr = NULL THEN <<>>
                            ELSE Append(path[<<e[1] - 1, h[e[2]].parentPtr>>], h[e[2]].name)
  IN  path[<<NNodes, n>>]

Line(h, n) == <<h[n].type, PathOf(h, n)>>

\* What is written for a node: its line, what is below it, the siblings after it.
InPostorder(line, below, after) == below \o <<line>> \o after   \* Fault.
InPreorder(line, below, after)  == <<line>> \o below \o after

preOrderWrite(h, n) ==
  LET lines[e \in Places] ==
        IF e[1] = 0 \/ e[2] = NULL THEN <<>>
        ELSE InPreorder(Line(h, e[2]), lines[<<e[1] - 1, h[e[2]].childPtr>>],
                                       lines[<<e[1] - 1, h[e[2]].siblingPtr>>])
  IN  lines[<<NNodes, n>>]

-----------------------------------------------------------------------------
(* Changing them.                                                          *)

\* Where one gets from n by its pointers, upwards or downwards.
Leads(h, ways, n) ==
  (IF "up" \in ways THEN {h[n].parentPtr} \ {NULL} ELSE {})
    \cup (IF "down" \in ways THEN ToSet(Children(h, n)) ELSE {})

\* S, and wherever one gets from there.
Reached(h, S, ways) ==
  LET after[k \in 0 .. NNodes] ==
        IF k = 0 THEN S ELSE UNION {{n} \cup Leads(h, ways, n) : n \in after[k - 1]}
  IN  after[NNodes]

Ancestors(h, n) == Reached(h, {n}, {"up"})

\* The nodes that root and the directory at lead to.
Live(h, at) == Reached(h, {root, at}, {"up", "down"})

\* What nothing can read any more is cleared: nodes, and where a removed one stood.
Tidy(h, at) ==
  LET live == Live(h, at)
      inChain(n) == h[n].parentPtr # NULL /\ n \in ToSet(Children(h, h[n].parentPtr))
  IN  [n \in Nodes |-> IF n \notin live THEN Blank
                       ELSE IF inChain(n) THEN h[n] ELSE [h[n] EXCEPT !.siblingPtr = NULL]]

\* A new last child.
AppendChild(h, parent, child) ==
  LET free == {n \in Nodes : h[n] = Blank}
      new  == Min(free)
      kids == Children(h, parent)
      made == [h EXCEPT ![new] = child]
  IN  IF free = {} THEN FULL
      ELSE IF kids = <<>> THEN [made EXCEPT ![parent].childPtr = new]
      ELSE [made EXCEPT ![Last(kids)].siblingPtr = new]

\* Fault: the new node's parent is the shell's directory.
AttachInCwd(h, parent, name, type) ==
  AppendChild(h, parent, [Blank EXCEPT !.type = type, !.name = name, !.parentPtr = cwd])

Attach(h, parent, name, type) ==
  AppendChild(h, parent, [Blank EXCEPT !.type = type, !.name = name, !.parentPtr = parent])

\* The sibling before n.
Prev(h, parent, n) ==
  LET before == {k \in ToSet(Children(h, parent)) : h[k].siblingPtr = n}
  IN  IF before = {} THEN NULL ELSE Min(before)

\* Fault: the memory of the node is given back.
DetachFree(h, parent, n) ==
  LET prev == Prev(h, parent, n)
  IN  IF prev = NULL THEN [h EXCEPT ![parent].childPtr = h[n].siblingPtr, ![n] = Blank]
                     ELSE [h EXCEPT ![prev].siblingPtr = h[n].siblingPtr, ![n] = Blank]

\* The node is unlinked, and not freed.
Detach(h, parent, n) ==
  LET prev == Prev(h, parent, n)
  IN  IF prev = NULL THEN [h EXCEPT ![parent].childPtr = h[n].siblingPtr]
                     ELSE [h EXCEPT ![prev].siblingPtr = h[n].siblingPtr]

\* mkdir() and creat() in heap h; a name that is in use stays as it is.
make(h, path, type) ==
  LET parent == Walk(h, Start(path), dirname(path))
  IN  IF parent = NULL \/ Find(h, parent, basename(path), {"D", "F"}) # NULL THEN h
      ELSE Attach(h, parent, basename(path), type)

mkdir(h, path) == IF path.names = <<>> THEN h ELSE make(h, path, "D")
creat(h, path) == IF path.names = <<>> /\ ~ path.abs THEN h ELSE make(h, path, "F")

\* A line as reload() reads it: the file without a name is called "/".
Pathname(line) == [abs |-> TRUE, names |-> IF line[2] = <<"">> THEN <<>> ELSE line[2]]

ReadLine(h, line) ==
  IF h = FULL THEN FULL
  ELSE IF line[1] = "F" THEN creat(h, Pathname(line)) ELSE mkdir(h, Pathname(line))

-----------------------------------------------------------------------------
(* The commands.                                                           *)

Init == node = NewTree /\ cwd = root /\ file = <<>>

\* The program's end, and its next start: nothing is loaded.
Exit == node' = NewTree /\ cwd' = root

\* What every command that changes the tree leaves.
Becomes(h) == h # FULL /\ node' = Tidy(h, cwd) /\ UNCHANGED <<cwd, file>>

Mkdir(path) == Becomes(mkdir(node, path))
Creat(path) == Becomes(creat(node, path))
Reload ==
  LET loaded[k \in 0 .. Len(file)] == IF k = 0 THEN node ELSE ReadLine(loaded[k - 1], file[k])
  IN  Becomes(loaded[Len(file)])

\* It does not look whether cwd is what it removes.
Rmdir(path) ==
  LET parent == Walk(node, RmdirStart(path), dirname(path))
      n == Find(node, parent, basename(path), {"D"})
  IN  /\ path # [abs |-> FALSE, names |-> <<>>]
      /\ parent # NULL /\ n # NULL
      /\ node[n].childPtr = NULL
      /\ Becomes(Detach(node, parent, n))

\* It reads the first child's siblingPtr before it looks whether there is one.
Rm(path) ==
  LET parent == Walk(node, Start(path), dirname(path))
      n == Find(node, parent, basename(path), {"F"})
  IN  /\ path # [abs |-> FALSE, names |-> <<>>]
      /\ parent # NULL
      /\ \/ node[parent].childPtr = NULL /\ Exit /\ UNCHANGED file
         \/ n # NULL /\ Becomes(Detach(node, parent, n))

\* Above the root there is a null pointer.
Above(n) == IF node[n].parentPtr = NULL THEN CRASH ELSE node[n].parentPtr

CdStep(n, name) ==
  IF n \in {NULL, CRASH} THEN n
  ELSE IF name = ".." THEN Above(n) ELSE Find(node, n, name, {"D"})

Cd(path) ==
  LET at[k \in 0 .. Len(path.names)] ==
        IF k = 0 THEN Start(path) ELSE CdStep(at[k - 1], path.names[k])
      to == IF path.names = <<>> THEN root ELSE at[Len(path.names)]
  IN  \/ to = CRASH /\ Exit /\ UNCHANGED file
      \/ to \in Nodes /\ cwd' = to /\ node' = Tidy(node, to) /\ UNCHANGED file

Save == file' = preOrderWrite(node, node[root].childPtr) /\ UNCHANGED <<node, cwd>>

Quit == file' = preOrderWrite(node, node[root].childPtr) /\ Exit

\* The program is stopped, at the prompt or while it saves: some of the lines are there (the
\* last, if only part of it is, is not read), or none, as fopen() has emptied the file.
Kill ==
  /\ Exit
  /\ LET lines == preOrderWrite(node, node[root].childPtr)
     IN  file' = file \/ \E k \in 0 .. Len(lines) : file' = SubSeq(lines, 1, k)

Next ==
  \/ \E path \in Paths : Mkdir(path) \/ Rmdir(path) \/ Creat(path) \/ Rm(path)
  \/ \E path \in CdPaths : Cd(path)
  \/ Save \/ Reload \/ Quit \/ Kill

Spec == Init /\ [][Next]_vars

-----------------------------------------------------------------------------
(***************************************************************************)
(* The pointers of all nodes that root or cwd lead to agree: who is in a   *)
(* list of children is in no other and points back to its owner, files     *)
(* have no children, no list has a name twice.                             *)
(***************************************************************************)
TreeOK ==
  \A p \in Live(node, cwd) :
    LET kids == Children(node, p)
    IN  /\ \A i \in DOMAIN kids : node[kids[i]].parentPtr = p
        /\ \A i, j \in DOMAIN kids : node[kids[i]].name = node[kids[j]].name => i = j
        /\ node[p].type = "F" => kids = <<>>

(***************************************************************************)
(* cwd stays usable when rmdir removes its directory: it is a directory    *)
(* that no later node has taken the memory of, and ".." leads from it to   *)
(* the root, whatever is made and removed there in the meantime.           *)
(***************************************************************************)
CwdUsable == node[cwd].type = "D" /\ root \in Ancestors(node, cwd)

\* n and all below it.
Subtree(h, n) ==
  LET below[e \in Places] ==
        IF e[1] = 0 \/ e[2] = NULL THEN {}
        ELSE {e[2]} \cup below[<<e[1] - 1, h[e[2]].childPtr>>]
                    \cup below[<<e[1] - 1, h[e[2]].siblingPtr>>]
  IN  {n} \cup below[<<NNodes, h[n].childPtr>>]

\* The paths of the tree, and that of cwd, unless it was removed.
Tree == {<<node[n].type, PathOf(node, n)>> : n \in Subtree(node, root) \ {root}}
Wd   == IF cwd \in Subtree(node, root) THEN PathOf(node, cwd) ELSE <<"/">>

(***************************************************************************)
(* The commands do to the paths what PathTree says: reload adds what was   *)
(* saved wherever nothing is in its way, and a killed save leaves part of  *)
(* the tree, with the directories that lead to it.                         *)
(***************************************************************************)
PT == INSTANCE PathTree WITH tree <- Tree, wd <- Wd, saved <- ToSet(file)
ImplementsPathTree == PT!Spec
=============================================================================
