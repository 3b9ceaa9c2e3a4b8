--------------------------- MODULE MCFileServer ---------------------------
(***************************************************************************)
(* Two clients, the lines they type, and their files.                      *)
(***************************************************************************)
EXTENDS FileServer

CONSTANTS c1, c2, x, y

OnlyFirst == [c \in Clients |-> IF c = c1 THEN x ELSE NONE]
SomeLines == {<<"mkdir", "d">>, <<"lrm", "f">>, <<"get", "f">>, <<"get", "d/f">>,
              <<"put", "f">>, <<"put", "d/f">>, <<"what">>, <<>>}
=============================================================================
