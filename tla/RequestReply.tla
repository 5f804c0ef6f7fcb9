---------------------------- MODULE RequestReply ----------------------------
(***************************************************************************)
(* What a server of the system promises to the peers that send it          *)
(* requests, without its queues, packages, transactions and timers: a      *)
(* request that was received is closed some day, perhaps after it was open *)
(* for a while, and it is replied to at most once, when it is closed.      *)
(***************************************************************************)
EXTENDS Naturals

CONSTANT Requests

VARIABLES
    stage,    \* how far each request has come
    replies   \* how many replies each request got

Stages == {"unsent", "received", "open", "closed"}

Init ==
    /\ stage = [r \in Requests |-> "unsent"]
    /\ replies = [r \in Requests |-> 0]

Become(r, next) == stage' = [stage EXCEPT ![r] = next]

Receive(r) ==
    /\ stage[r] = "unsent"
    /\ Become(r, "received")
    /\ UNCHANGED replies

Open(r) ==
    /\ stage[r] = "received"
    /\ Become(r, "open")
    /\ UNCHANGED replies

\* The reply may be missing: the command is unknown, the handler sends none,
\* or the reply is too large to be sent.
Close(r) ==
    /\ stage[r] \in {"received", "open"}
    /\ Become(r, "closed")
    /\ \/ UNCHANGED replies
       \/ replies' = [replies EXCEPT ![r] = @ + 1]

Next == \E r \in Requests : Receive(r) \/ Open(r) \/ Close(r)

vars == <<stage, replies>>

Spec == Init /\ [][Next]_vars /\ \A r \in Requests : WF_vars(Close(r))

=============================================================================
