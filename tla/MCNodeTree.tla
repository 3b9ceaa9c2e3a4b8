---------------------------- MODULE MCNodeTree ----------------------------
(***************************************************************************)
(* The pathnames that are typed.                                           *)
(***************************************************************************)
EXTENDS NodeTree

Relative(names) == [abs |-> FALSE, names |-> names]
Absolute(names) == [abs |-> TRUE, names |-> names]

SomePaths == {Relative(<<"a">>), Relative(<<"b">>),
              Absolute(<<"a">>), Absolute(<<"a", "b">>), Absolute(<<>>)}
SomeCdPaths == {Absolute(<<>>), Relative(<<"..">>), Relative(<<"a">>), Absolute(<<"a", "b">>)}
=============================================================================
