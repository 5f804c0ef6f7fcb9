------------------------------ MODULE Channel ------------------------------
(***************************************************************************)
(* What a connection promises to the worker threads of its two ends: the   *)
(* packages of one end reach the other in the order they were sent, each   *)
(* at most once and as it was sent, and all of them as long as neither end *)
(* closes.  Which packages still arrive after that is not promised.        *)
(***************************************************************************)
EXTENDS Naturals, Sequences

CONSTANTS Ends, Other(_)

VARIABLES
    sent,       \* the packages each end has sent
    delivered,  \* the packages each end has received
    up          \* neither end has closed

vars == <<sent, delivered, up>>

Init ==
    /\ sent = [e \in Ends |-> <<>>]
    /\ delivered = [e \in Ends |-> <<>>]
    /\ up = TRUE

Send(e) ==
    /\ sent' = [sent EXCEPT ![e] = Append(@, Len(@) + 1)]
    /\ UNCHANGED <<delivered, up>>

Deliver(e) ==
    LET n == Len(delivered[e]) + 1 IN
    /\ n <= Len(sent[Other(e)])
    /\ delivered' = [delivered EXCEPT ![e] = Append(@, sent[Other(e)][n])]
    /\ UNCHANGED <<sent, up>>

Close ==
    /\ up' = FALSE
    /\ UNCHANGED <<sent, delivered>>

Next == Close \/ \E e \in Ends : Send(e) \/ Deliver(e)

Spec == Init /\ [][Next]_vars /\ \A e \in Ends : WF_vars(up /\ Deliver(e))

=============================================================================
