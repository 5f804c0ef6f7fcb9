----------------------------- MODULE MCTransfer -----------------------------
(* Instances of Transfer for TLC: two clients; two paths whose files have the *)
(* same name on the storage node; a long and a short local file.              *)
EXTENDS Transfer

MCFileName == [p \in Paths |-> "n"]
MCSize == [f \in Files |-> IF f = "long" THEN 2 ELSE 1]
=============================================================================
