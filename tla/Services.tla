------------------------------ MODULE Services ------------------------------
(***************************************************************************)
(* How the resource server reaches its storage nodes: the nodes of the     *)
(* worker (StorageNodeManager), the services and connections of the        *)
(* network thread (NetworkServiceManager, NetworkManagerImpl), and the     *)
(* delegations and packages that pass between the two threads.             *)
(*                                                                         *)
(* Each thread takes one message from its queue at a time, so one action   *)
(* is one message, or one event of a socket.  Neither remove_node nor      *)
(* remove_service has a caller: nodes and services only come.              *)
(***************************************************************************)
EXTENDS Naturals, Sequences, FiniteSets, Functions

CONSTANTS
    Addresses,
    Stored,         \* the nodes of the data file, by id: addresses
    Configured,     \* storage_nodes of the configuration: addresses
    MaxConns,       \* bound: connections that are ever opened
    MaxSends        \* bound: packages for nodes

ASSUME ServicesAssumption ==
    /\ Stored \in Seq(Addresses)
    /\ IsInjective(Stored)
    /\ Configured \in Seq(Addresses)
    /\ MaxConns \in Nat
    /\ MaxSends \in Nat

ConnIds == 1 .. MaxConns
PackageIds == 1 .. MaxSends
Nobody == 0         \* no service, no connection, a node without an id

VARIABLES
    \* worker
    nodes,          \* StorageNodeManager: address and service_id, by id
    asked,          \* packages a transaction waits for an answer to
    \* network thread
    services,       \* m_service_list: addresses, by id
    connOf,         \* m_conn_list: the last connection of each service
    serviceOf,      \* m_conn_service_list
    conns, closing, \* live connections; those that only send what is left
    peer,           \* the address each connection was opened to, by id
    \* between them, and beyond
    in, out,        \* the actor queues
    atPeer          \* packages that reached a node and are not answered

workerVars == <<nodes, asked>>
networkVars == <<services, connOf, serviceOf, conns, closing, peer>>
vars == <<workerVars, networkVars, in, out, atPeer>>

ServiceIds == 1 .. Len(Stored) + Len(Configured)

-----------------------------------------------------------------------------
(* main(): deserialize() asks for the services of the stored nodes, then the   *)
(* configured nodes that are not stored are registered.                        *)

Register(n, a) == [kind |-> "register", node |-> n, address |-> a]

\* Of the first k configured nodes those that get registered: find_node knows the
\* stored nodes only, the others are still under way.
NewAmong[k \in 0 .. Len(Configured)] ==
    IF k = 0 THEN <<>>
    ELSE IF Configured[k] \in Range(Stored) THEN NewAmong[k - 1]
    ELSE Append(NewAmong[k - 1], Configured[k])

NewNodes == NewAmong[Len(Configured)]

Init ==
    /\ nodes = [n \in DOMAIN Stored |-> [address |-> Stored[n], service |-> Nobody]]
    /\ asked = <<>>
    /\ services = <<>>
    /\ connOf = [s \in ServiceIds |-> Nobody]
    /\ serviceOf = [c \in ConnIds |-> Nobody]
    /\ conns = {}
    /\ closing = {}
    /\ peer = <<>>
    /\ in = <<>>
    /\ out = [n \in DOMAIN Stored |-> Register(n, Stored[n])]
             \o [k \in DOMAIN NewNodes |-> Register(Nobody, NewNodes[k])]
    /\ atPeer = {}

-----------------------------------------------------------------------------
(* The worker *)

\* service_send_protocol and service_wait_next_phase of a handler: the node may
\* be without a service yet.
Ask(n) ==
    /\ Len(asked) < MaxSends
    /\ asked' = Append(asked, [service |-> nodes[n].service, address |-> nodes[n].address])
    /\ out' = Append(out, [kind |-> "package", service |-> nodes[n].service, id |-> Len(asked) + 1])
    /\ UNCHANGED <<nodes, networkVars, in, atPeer>>

\* Mutant of TakeRegistered: deserialize works on a copy of the node.
MutantTakeRegisteredCopies ==
    /\ in # <<>> /\ Head(in).kind = "registered"
    /\ in' = Tail(in)
    /\ nodes' = IF Head(in).node = Nobody
                THEN Append(nodes, [address |-> Head(in).address, service |-> Head(in).service])
                ELSE nodes
    /\ UNCHANGED <<asked, networkVars, out, atPeer>>
\* The delegations that register_node and deserialize get back.
TakeRegistered ==
    /\ in # <<>> /\ Head(in).kind = "registered"
    /\ in' = Tail(in)
    /\ nodes' = IF Head(in).node = Nobody
                THEN Append(nodes, [address |-> Head(in).address, service |-> Head(in).service])
                ELSE [nodes EXCEPT ![Head(in).node].service = Head(in).service]
    /\ UNCHANGED <<asked, networkVars, out, atPeer>>

TakeAnswer ==
    /\ in # <<>> /\ Head(in).kind = "package"
    /\ in' = Tail(in)
    /\ UNCHANGED <<workerVars, networkVars, out, atPeer>>

-----------------------------------------------------------------------------
(* The network thread *)

\* register_service throws for an address it knows, and the delegation ends there.
RegisterService ==
    /\ out # <<>> /\ Head(out).kind = "register"
    /\ out' = Tail(out)
    /\ IF Head(out).address \in Range(services)
       THEN UNCHANGED <<services, in>>
       ELSE /\ services' = Append(services, Head(out).address)
            /\ in' = Append(in, [kind |-> "registered", node |-> Head(out).node,
                                 address |-> Head(out).address, service |-> Len(services')])
    /\ UNCHANGED <<workerVars, connOf, serviceOf, conns, closing, peer, atPeer>>

IsOpen(c) == c \in conns \ closing
Sends(s) == out # <<>> /\ Head(out).kind = "package" /\ Head(out).service = s

\* get_connection_id throws: no such service, or its node cannot be reached.
\* The message is gone.
SendNothing ==
    /\ \E s \in ServiceIds \cup {Nobody} :
           Sends(s) /\ (s \in DOMAIN services => ~IsOpen(connOf[s]))
    /\ out' = Tail(out)
    /\ UNCHANGED <<workerVars, networkVars, in, atPeer>>

SendOn(c) ==
    /\ out' = Tail(out)
    /\ atPeer' = atPeer \cup {[conn |-> c, id |-> Head(out).id]}
    /\ UNCHANGED <<workerVars, in, services, closing>>

Send(s) ==
    /\ Sends(s)
    /\ IsOpen(connOf[s])
    /\ SendOn(connOf[s])
    /\ UNCHANGED <<connOf, serviceOf, conns, peer>>

\* Mutant of Reconnect: map::insert where the entry is there already.
MutantReconnectInserts(s) ==
    LET c == Len(peer) + 1
    IN  /\ Sends(s)
        /\ ~IsOpen(connOf[s])
        /\ c \in ConnIds
        /\ connOf' = [connOf EXCEPT ![s] = IF @ = Nobody THEN c ELSE @]
        /\ serviceOf' = [k \in ConnIds |->
               IF k = c THEN s ELSE IF k = connOf[s] THEN Nobody ELSE serviceOf[k]]
        /\ conns' = conns \cup {c}
        /\ peer' = Append(peer, services[s])
        /\ SendOn(c)
\* Mutant of Reconnect: the new connection is not entered for its service.
MutantReconnectUnlabelled(s) ==
    LET c == Len(peer) + 1
    IN  /\ Sends(s)
        /\ ~IsOpen(connOf[s])
        /\ c \in ConnIds
        /\ connOf' = [connOf EXCEPT ![s] = c]
        /\ serviceOf' = [k \in ConnIds |->
               IF k = c /\ connOf[s] = Nobody THEN s
               ELSE IF k = connOf[s] THEN Nobody ELSE serviceOf[k]]
        /\ conns' = conns \cup {c}
        /\ peer' = Append(peer, services[s])
        /\ SendOn(c)
\* get_connection_id opens a connection: the first, or one for a lost one.
Reconnect(s) ==
    LET c == Len(peer) + 1
    IN  /\ Sends(s)
        /\ ~IsOpen(connOf[s])
        /\ c \in ConnIds
        /\ connOf' = [connOf EXCEPT ![s] = c]
        /\ serviceOf' = [k \in ConnIds |->
               IF k = c THEN s ELSE IF k = connOf[s] THEN Nobody ELSE serviceOf[k]]
        /\ conns' = conns \cup {c}
        /\ peer' = Append(peer, services[s])
        /\ SendOn(c)

\* A package from the node, with the service that pad_message finds.
Receive(m) ==
    /\ IsOpen(m.conn)
    /\ atPeer' = atPeer \ {m}
    /\ in' = Append(in, [kind |-> "package", conn |-> m.conn, id |-> m.id,
                         service |-> serviceOf[m.conn]])
    /\ UNCHANGED <<workerVars, networkVars, out>>

\* close() with packages left to send: nothing more is read.
BeginClose(c) ==
    /\ IsOpen(c)
    /\ closing' = closing \cup {c}
    /\ UNCHANGED <<workerVars, services, connOf, serviceOf, conns, peer, in, out, atPeer>>

\* The destructor: the peer is gone, an error, or all is sent.
Destroy(c) ==
    /\ c \in conns
    /\ conns' = conns \ {c}
    /\ closing' = closing \ {c}
    /\ atPeer' = {m \in atPeer : m.conn # c}
    /\ UNCHANGED <<workerVars, services, connOf, serviceOf, peer, in, out>>

-----------------------------------------------------------------------------
Worker == TakeRegistered \/ TakeAnswer
Network == RegisterService \/ SendNothing \/ \E s \in DOMAIN services : Send(s) \/ Reconnect(s)

Next ==
    \/ Worker
    \/ Network
    \/ \E n \in DOMAIN nodes : Ask(n)
    \/ \E m \in atPeer : Receive(m)
    \/ \E c \in conns : BeginClose(c) \/ Destroy(c)

\* Both threads take what is in their queues (Worker::run, process_out_message).
Spec == Init /\ [][Next]_vars /\ WF_vars(Worker) /\ WF_vars(Network)

-----------------------------------------------------------------------------
(* Properties *)

\* Every variable holds values of its type.
TypeOK ==
    /\ nodes \in Seq([address : Addresses, service : ServiceIds \cup {Nobody}])
    /\ asked \in Seq([address : Addresses, service : ServiceIds \cup {Nobody}])
    /\ services \in Seq(Addresses)
    /\ connOf \in [ServiceIds -> ConnIds \cup {Nobody}]
    /\ serviceOf \in [ConnIds -> ServiceIds \cup {Nobody}]
    /\ closing \in SUBSET conns
    /\ conns \in SUBSET ConnIds
    /\ peer \in Seq(Addresses)
    /\ atPeer \in SUBSET [conn : ConnIds, id : PackageIds]

\* However registrations, restored nodes and reconnections interleave, a node has
\* the service of its own address or none yet, no address has two nodes, and a
\* service has one open connection at most, to its own address (get_connection_id).
ServicesMatch ==
    /\ TypeOK
    /\ \A n \in DOMAIN nodes : nodes[n].service # Nobody =>
           services[nodes[n].service] = nodes[n].address
    /\ \A n, k \in DOMAIN nodes : nodes[n].address = nodes[k].address => n = k
    /\ \A c \in conns \ closing :
           \E s \in DOMAIN services : connOf[s] = c /\ peer[c] = services[s]

\* An answer carries the service its transaction waits for (is_fit_network in
\* trigger_transaction), whatever was reconnected since the request was sent, and
\* it comes from the node that was asked.
AnswersFit ==
    \A k \in DOMAIN in : in[k].kind = "package" =>
        /\ in[k].service = asked[in[k].id].service
        /\ peer[in[k].conn] = asked[in[k].id].address

\* Every stored and configured address ends up as a node with a service.
EveryNodeServed ==
    \A a \in Range(Stored) \cup Range(Configured) :
        <>[](\E n \in DOMAIN nodes : nodes[n].address = a /\ nodes[n].service # Nobody)
=============================================================================
