--------------------------- MODULE FragmentStream ---------------------------
(***************************************************************************)
(* What the resource server promises about the fragments of one put:       *)
(* however often the put is asked for again, whatever times out or is lost *)
(* and whichever process starts again, the storage node writes each        *)
(* fragment at most once, in increasing order, and only after the resource *)
(* server has forwarded it.                                                *)
(***************************************************************************)
EXTENDS Naturals

CONSTANT Streams    \* the put sessions

VARIABLES
    forwarded,      \* how many fragments of a session were forwarded
    written         \* which of them the storage node has written

vars == <<forwarded, written>>

Init ==
    /\ forwarded = [s \in Streams |-> 0]
    /\ written = [s \in Streams |-> {}]

Forward(s) ==
    /\ forwarded' = [forwarded EXCEPT ![s] = @ + 1]
    /\ UNCHANGED written

Write(s, i) ==
    /\ i < forwarded[s]
    /\ \A j \in written[s] : j < i
    /\ written' = [written EXCEPT ![s] = @ \cup {i}]
    /\ UNCHANGED forwarded

Next == \E s \in Streams : Forward(s) \/ \E i \in 0 .. forwarded[s] : Write(s, i)

Spec == Init /\ [][Next]_vars
=============================================================================
