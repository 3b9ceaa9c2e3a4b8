--------------------------- MODULE MCOpenFiles ---------------------------
(***************************************************************************)
(* Paths and lines for the run of OpenFiles.                               *)
(***************************************************************************)
EXTENDS OpenFiles

a == [abs |-> FALSE, names |-> <<"a">>]
b == [abs |-> FALSE, names |-> <<"b">>]
slashB == [abs |-> TRUE, names |-> <<"b">>]

OneFile    == {a}
ThreePairs == {<<a, b>>, <<b, a>>, <<a, slashB>>}
TwoLines   == {<<Cell("x")>>, <<Cell("x"), Cell("y")>>}

\* The run does not go on where bytes, or an inode, have been lost.
Whole == damage = {} /\ fs.imap = {ROOT} \cup {t[3] : t \in Tree}
=============================================================================
