--------------------------- MODULE MCTransactions ---------------------------
(* Instances of Transactions for TLC: one client, one storage node that the   *)
(* server may reach over two connections (one before, one after a reconnect).  *)
EXTENDS Transactions

CONSTANTS c1, n1, n2, s1

MCConns == {c1, n1, n2}
MCOneNode == {c1, n1}
MCServices == {s1}
MCServiceOf == [c \in MCConns |-> IF c = c1 THEN None ELSE s1]
MCServiceOfOneNode == [c \in MCOneNode |-> IF c = c1 THEN None ELSE s1]
=============================================================================
