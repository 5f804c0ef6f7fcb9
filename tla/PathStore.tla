----------------------------- MODULE PathStore -----------------------------
(***************************************************************************)
(* What the files of the groups promise: a set of paths, each a directory  *)
(* or a file, that survives a crash up to the last save.  The table of     *)
(* FileTree implements it.                                                 *)
(***************************************************************************)
EXTENDS Naturals, Sequences

CONSTANTS
    Groups, FullPaths,
    Official        \* the group there is from the start

VARIABLES
    paths,          \* <<group, components, type>> of all that exists
    stored          \* what a restart will find

vars == <<paths, stored>>

Is(g, p, type) == <<g, p, type>> \in paths
Exists(g, p) == \E type \in {"directory", "general"} : Is(g, p, type)
IsPrefix(p, q) == Len(p) <= Len(q) /\ SubSeq(q, 1, Len(p)) = p

Start == {<<Official, <<>>, "directory">>}

Init == paths = Start /\ stored = Start

AddGroup(g) ==
    /\ ~Exists(g, <<>>)
    /\ paths' = paths \cup {<<g, <<>>, "directory">>}
    /\ UNCHANGED stored

\* No part of the path may be a file.
AddDirectories(g, p) ==
    LET parts == {SubSeq(p, 1, k) : k \in 0 .. Len(p)}
    IN  /\ Exists(g, <<>>)
        /\ \A q \in parts : ~Is(g, q, "general")
        /\ paths' = paths \cup {<<g, q, "directory">> : q \in parts}
        /\ UNCHANGED stored

AddFile(g, p) ==
    /\ p # <<>> /\ ~Exists(g, p)
    /\ Is(g, SubSeq(p, 1, Len(p) - 1), "directory")
    /\ paths' = paths \cup {<<g, p, "general">>}
    /\ UNCHANGED stored

RemoveAll(g, p) ==
    /\ p # <<>> /\ Exists(g, p)
    /\ paths' = {e \in paths : ~(e[1] = g /\ IsPrefix(p, e[2]))}
    /\ UNCHANGED stored

Save == stored' = paths /\ UNCHANGED paths

Crash == paths' = {} /\ UNCHANGED stored

\* Until a save has ended, a crash loses everything.
SaveBegins == stored' = Start /\ UNCHANGED paths

Restart == paths = {} /\ paths' = stored /\ UNCHANGED stored

Next ==
    \/ \E g \in Groups : AddGroup(g)
    \/ \E g \in Groups, p \in FullPaths :
           AddDirectories(g, p) \/ AddFile(g, p) \/ RemoveAll(g, p)
    \/ Save
    \/ Crash
    \/ SaveBegins
    \/ Restart

Spec == Init /\ [][Next]_vars
=============================================================================
