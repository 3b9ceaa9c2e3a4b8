----------------------------- MODULE ByteFiles -----------------------------
(***************************************************************************)
(* What the commands on open files promise to somebody who only sees the   *)
(* names of files and the bytes in them: a write lays its text over a file *)
(* at some place in it or at its end, and changes no other file.  There    *)
(* are no blocks, descriptors or in-memory inodes here.                    *)
(***************************************************************************)
EXTENDS Integers, Sequences

CONSTANT Lines       \* the texts that are written

VARIABLE files       \* the files: pairs of a name and the bytes under it

NamesOf(fs) == {f[1] : f \in fs}

\* The bytes of old with t over them after the first k.
Over(old, k, t) ==
  SubSeq(old, 1, k) \o t \o SubSeq(old, k + Len(t) + 1, Len(old))

\* What each command makes of the files old, given one or two of them, f and
\* g, or the new names n and m.  cp of a file that is not there makes two.
Created(old, n)       == old \cup {<<n, <<>>>>}
CreatedTwo(old, n, m) == old \cup {<<n, <<>>>>, <<m, <<>>>>}
Emptied(old, f)       == (old \ {f}) \cup {<<f[1], <<>>>>}
Written(old, f, k, t) == (old \ {f}) \cup {<<f[1], Over(f[2], k, t)>>}
Renamed(old, f, n)    == (old \ {f}) \cup {<<n, f[2]>>}
Copied(old, f, n)     == old \cup {<<n, f[2]>>}
CopiedOver(old, f, g) == (old \ {g}) \cup {<<g[1], f[2]>>}
MovedOver(old, f, g)  == (old \ {f, g}) \cup {<<g[1], f[2]>>}

Next ==
  \E old \in {files}, new \in {files'} :
    \/ \E n, m \in NamesOf(new) \ NamesOf(old) :
         new \in {Created(old, n), CreatedTwo(old, n, m)}
    \/ \E f \in old : new \in {Emptied(old, f), old \ {f}}
    \/ \E f \in old, t \in Lines : \E k \in 0 .. Len(f[2]) : new = Written(old, f, k, t)
    \/ \E f \in old, n \in NamesOf(new) \ NamesOf(old) :
         new \in {Renamed(old, f, n), Copied(old, f, n)}
    \/ \E f, g \in old : new \in {CopiedOver(old, f, g), MovedOver(old, f, g)}
=============================================================================
