----------------------------- MODULE MCFileTree -----------------------------
(* An instance of FileTree for TLC: "", "/a/", "a//b" and "b".                 *)
EXTENDS FileTree

MCSpellings == {<<>>, <<"", "a", "">>, <<"a", "", "b">>, <<"b">>}
=============================================================================
