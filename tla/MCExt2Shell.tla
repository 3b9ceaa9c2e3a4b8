---------------------------- MODULE MCExt2Shell ----------------------------
(***************************************************************************)
(* Paths for the runs of Ext2Shell.                                        *)
(***************************************************************************)
EXTENDS Ext2Shell

Rel(n)     == [abs |-> FALSE, names |-> <<n>>]
Abs(n)     == [abs |-> TRUE,  names |-> <<n>>]
Rel2(m, n) == [abs |-> FALSE, names |-> <<m, n>>]
Abs2(m, n) == [abs |-> TRUE,  names |-> <<m, n>>]

OneName    == {Rel("a"), Rel("b")}
Relative   == OneName \cup {Rel("..")}
WithUp     == Relative \cup {Abs("a")}
ThreeNames == Relative \cup {Rel("c")}
TwoNames   == OneName \cup {Rel2("a", "b"), Abs2("a", "b")}
=============================================================================
