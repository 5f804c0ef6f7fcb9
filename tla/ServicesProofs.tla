--------------------------- MODULE ServicesProofs ---------------------------
(***************************************************************************)
(* Theorems about Services, for any stored and configured nodes and any    *)
(* number of connections and packages.                                     *)
(***************************************************************************)
EXTENDS Services, FiniteSetTheorems, SequenceTheorems, WellFoundedInduction, TLAPS

NodeIds == 0 .. Len(Stored)
NewAddresses == Range(Configured) \ Range(Stored)
Known == Range(Stored) \cup Range(Configured)

OutMessages ==
    {Register(n, Stored[n]) : n \in DOMAIN Stored}
    \cup {Register(Nobody, a) : a \in NewAddresses}
    \cup [kind : {"package"}, service : ServiceIds \cup {Nobody}, id : PackageIds]

InMessages ==
    [kind : {"registered"}, node : NodeIds, address : Known, service : ServiceIds]
    \cup [kind : {"package"}, conn : ConnIds, id : PackageIds,
          service : ServiceIds \cup {Nobody}]

Types ==
    /\ TypeOK
    /\ in \in Seq(InMessages)
    /\ out \in Seq(OutMessages)
    /\ Len(asked) <= MaxSends
    /\ Len(peer) <= MaxConns
    /\ Range(services) \subseteq Known
    /\ \A s, t \in DOMAIN services : services[s] = services[t] => s = t

\* The stored nodes keep their places; the others came with their service.
NodesServed ==
    /\ Len(nodes) >= Len(Stored)
    /\ \A n \in DOMAIN nodes :
          /\ n \in DOMAIN Stored => nodes[n].address = Stored[n]
          /\ n \notin DOMAIN Stored => nodes[n].service # Nobody
          /\ nodes[n].service # Nobody =>
                /\ nodes[n].service \in DOMAIN services
                /\ services[nodes[n].service] = nodes[n].address
    /\ \A n, k \in DOMAIN nodes : nodes[n].address = nodes[k].address => n = k

IsRegistered(k) == k \in DOMAIN in /\ in[k].kind = "registered"

\* The answers to register messages that are under way: one for a service, and
\* those that will add a node are about an address that has none.
RegistrationsFit ==
    /\ \A k \in DOMAIN in : IsRegistered(k) =>
          /\ in[k].service \in DOMAIN services
          /\ services[in[k].service] = in[k].address
          /\ in[k].node # Nobody => in[k].address = Stored[in[k].node]
          /\ in[k].node = Nobody =>
                \A n \in DOMAIN nodes : nodes[n].address # in[k].address
    /\ \A j, k \in DOMAIN in :
          IsRegistered(j) /\ IsRegistered(k) /\ in[j].service = in[k].service => j = k

\* m_conn_list and m_conn_service_list: the connection of a service leads back to
\* it, and every connection that is open is the last one of its service.
ConnectionsFit ==
    /\ \A s \in ServiceIds : connOf[s] # Nobody =>
          /\ s \in DOMAIN services
          /\ connOf[s] \in DOMAIN peer
          /\ serviceOf[connOf[s]] = s
          /\ peer[connOf[s]] = services[s]
    /\ \A c \in conns :
          /\ c \in DOMAIN peer
          /\ IsOpen(c) => serviceOf[c] \in DOMAIN services /\ connOf[serviceOf[c]] = c

\* What was asked of a node is under way to it, with it, or its answer is.
PackagesFit ==
    /\ \A i \in DOMAIN asked : asked[i].service # Nobody =>
          /\ asked[i].service \in DOMAIN services
          /\ services[asked[i].service] = asked[i].address
    /\ \A k \in DOMAIN out : out[k].kind = "package" =>
          out[k].id \in DOMAIN asked /\ out[k].service = asked[out[k].id].service
    /\ \A m \in atPeer :
          /\ m.id \in DOMAIN asked
          /\ m.conn \in conns
          /\ peer[m.conn] = asked[m.id].address
          /\ IsOpen(m.conn) => serviceOf[m.conn] = asked[m.id].service
    /\ \A k \in DOMAIN in : in[k].kind = "package" =>
          /\ in[k].id \in DOMAIN asked
          /\ in[k].conn \in DOMAIN peer
          /\ in[k].service = asked[in[k].id].service
          /\ peer[in[k].conn] = asked[in[k].id].address

IInv == Types /\ NodesServed /\ RegistrationsFit /\ ConnectionsFit /\ PackagesFit

-----------------------------------------------------------------------------
(* Sequences *)

LEMMA TailIs ==
    ASSUME NEW S, NEW q \in Seq(S), q # <<>>
    PROVE  /\ Tail(q) \in Seq(S)
           /\ Head(q) = q[1] /\ 1 \in DOMAIN q /\ Head(q) \in S
           /\ \A k \in DOMAIN Tail(q) :
                 k \in Nat /\ k + 1 \in DOMAIN q /\ k + 1 # 1 /\ Tail(q)[k] = q[k + 1]
  OBVIOUS

LEMMA AppendIs ==
    ASSUME NEW S, NEW q \in Seq(S), NEW m \in S
    PROVE  /\ Append(q, m) \in Seq(S)
           /\ Len(q) \in Nat /\ Len(Append(q, m)) = Len(q) + 1
           /\ Append(q, m)[Len(q) + 1] = m
           /\ Len(q) + 1 \in DOMAIN Append(q, m) /\ Len(q) + 1 \notin DOMAIN q
           /\ \A k \in DOMAIN q : k \in DOMAIN Append(q, m) /\ Append(q, m)[k] = q[k]
           /\ \A k \in DOMAIN Append(q, m) : k \in DOMAIN q \/ k = Len(q) + 1
  OBVIOUS

-----------------------------------------------------------------------------
(* The nodes that are registered at the start *)

LEMMA LeastNumber ==
    ASSUME NEW T, T \subseteq Nat, T # {}
    PROVE  \E x \in T : \A y \in T : x <= y
<1> DEFINE R == {ss \in Nat \X Nat : ss[1] < ss[2]}
<1>1. IsWellFoundedOn(R, Nat)
  BY NatLessThanWellFounded DEF OpToRel
<1>2. \E x \in T : \A y \in T : <<y, x>> \notin R
  <2> HIDE DEF R
  <2> QED
    BY <1>1, WFMin
<1>3. \A x, y \in Nat : <<y, x>> \notin R => x <= y
  OBVIOUS
<1> HIDE DEF R
<1> QED
  BY <1>2, <1>3

NewStep(f, k) ==
    IF k = 0 THEN <<>>
    ELSE IF Configured[k] \in Range(Stored) THEN f[k - 1]
    ELSE Append(f[k - 1], Configured[k])

\* The recursive definition defines a function: by induction, with the least number
\* of configured nodes it could fail for.
LEMMA NewDefined == NewAmong = [k \in 0 .. Len(Configured) |-> NewStep(NewAmong, k)]
<1> DEFINE Defined(n) == \E f : f = [k \in 0 .. n |-> NewStep(f, k)]
           T == {n \in Nat : ~Defined(n)}
<1>1. Defined(0)
  <2>1. [k \in 0 .. 0 |-> <<>>] = [k \in 0 .. 0 |-> NewStep([j \in 0 .. 0 |-> <<>>], k)]
    BY DEF NewStep
  <2> QED BY <2>1
<1>2. ASSUME NEW n \in Nat, Defined(n) PROVE Defined(n + 1)
  <2>1. PICK f : f = [k \in 0 .. n |-> NewStep(f, k)]
    BY <1>2
  <2> DEFINE g == [k \in 0 .. n + 1 |-> IF k <= n THEN f[k] ELSE NewStep(f, n + 1)]
  <2>2. \A k \in 0 .. n + 1 : g[k] = NewStep(g, k)
    <3> SUFFICES ASSUME NEW k \in 0 .. n + 1 PROVE g[k] = NewStep(g, k)
      OBVIOUS
    <3>1. k # 0 => k - 1 \in 0 .. n /\ g[k - 1] = f[k - 1]
      OBVIOUS
    <3>2. NewStep(g, k) = NewStep(f, k)
      BY <3>1 DEF NewStep
    <3>3. k <= n => f[k] = NewStep(f, k)
      BY <2>1
    <3>4. ~(k <= n) => k = n + 1
      OBVIOUS
    <3>5. g[k] = IF k <= n THEN f[k] ELSE NewStep(f, n + 1)
      OBVIOUS
    <3> HIDE DEF g
    <3> QED BY <3>2, <3>3, <3>4, <3>5
  <2>3. g = [k \in 0 .. n + 1 |-> g[k]]
    OBVIOUS
  <2> HIDE DEF g
  <2>4. g = [k \in 0 .. n + 1 |-> NewStep(g, k)]
    BY <2>2, <2>3
  <2> QED BY <2>4
<1>3. T = {}
  <2> SUFFICES ASSUME T # {} PROVE FALSE
    OBVIOUS
  <2>1. PICK n \in T : \A m \in T : n <= m
    BY LeastNumber
  <2> HIDE DEF Defined
  <2>2. n \in Nat /\ ~Defined(n)
    OBVIOUS
  <2>3. n # 0
    BY <1>1, <2>2
  <2>4. n - 1 \in Nat /\ ~(n <= n - 1) /\ (n - 1) + 1 = n
    BY <2>2, <2>3
  <2>5. Defined(n - 1)
    BY <2>1, <2>4
  <2> QED BY <1>2, <2>2, <2>4, <2>5
<1>4. Len(Configured) \in Nat
  BY ServicesAssumption
<1>5. Defined(Len(Configured))
  BY <1>3, <1>4
<1> QED BY <1>5 DEF NewAmong, NewStep

LEMMA NewNodesType == NewNodes \in Seq(NewAddresses)
<1> DEFINE T == {n \in 0 .. Len(Configured) : NewAmong[n] \notin Seq(NewAddresses)}
<1>1. Configured \in Seq(Addresses) /\ Len(Configured) \in Nat
  BY ServicesAssumption
<1>2. ASSUME NEW n \in 0 .. Len(Configured), n # 0,
             NewAmong[n - 1] \in Seq(NewAddresses)
      PROVE  NewAmong[n] \in Seq(NewAddresses)
  <2>1. n \in DOMAIN Configured
    BY <1>1, <1>2
  <2>2. Configured[n] \notin Range(Stored) => Configured[n] \in NewAddresses
    BY <2>1 DEF NewAddresses, Range
  <2>3. NewAmong[n] = NewStep(NewAmong, n)
    BY NewDefined
  <2> QED
    BY <1>2, <2>2, <2>3, AppendIs DEF NewStep
<1>3. NewAmong[0] \in Seq(NewAddresses)
  <2>1. NewAmong[0] = NewStep(NewAmong, 0)
    BY <1>1, NewDefined
  <2> QED
    BY <2>1, EmptySeq DEF NewStep
<1>4. T = {}
  <2> SUFFICES ASSUME T # {} PROVE FALSE
    OBVIOUS
  <2>1. T \subseteq Nat
    BY <1>1
  <2>2. PICK n \in T : \A m \in T : n <= m
    BY <2>1, LeastNumber
  <2>3. n \in 0 .. Len(Configured) /\ n # 0 /\ n - 1 \in 0 .. Len(Configured) /\ ~(n <= n - 1)
    BY <1>1, <1>3
  <2>4. NewAmong[n - 1] \in Seq(NewAddresses)
    BY <2>2, <2>3
  <2> QED
    BY <1>2, <2>3, <2>4
<1> QED
  BY <1>1, <1>4 DEF NewNodes

\* Services with addresses of their own are no more than the known nodes.
LEMMA ServicesFitIds ==
    ASSUME NEW q \in Seq(Known), \A s, t \in DOMAIN q : q[s] = q[t] => s = t
    PROVE  Len(q) <= Len(Stored) + Len(Configured)
<1> DEFINE at(a) == CHOOSE i \in ServiceIds :
                       \/ i <= Len(Stored) /\ Stored[i] = a
                       \/ i > Len(Stored) /\ Configured[i - Len(Stored)] = a
           f == [s \in 1 .. Len(q) |-> at(q[s])]
<1>1. /\ Stored \in Seq(Addresses) /\ Configured \in Seq(Addresses)
      /\ Len(Stored) \in Nat /\ Len(Configured) \in Nat /\ Len(q) \in Nat
      /\ DOMAIN Stored = 1 .. Len(Stored) /\ DOMAIN Configured = 1 .. Len(Configured)
      /\ DOMAIN q = 1 .. Len(q)
  BY ServicesAssumption
<1>2. ASSUME NEW a \in Known
      PROVE  /\ at(a) \in ServiceIds
             /\ at(a) <= Len(Stored) => a = Stored[at(a)]
             /\ at(a) > Len(Stored) => a = Configured[at(a) - Len(Stored)]
  <2>1. ASSUME \E j \in ServiceIds : \/ j <= Len(Stored) /\ Stored[j] = a
                                     \/ j > Len(Stored) /\ Configured[j - Len(Stored)] = a
        PROVE  /\ at(a) \in ServiceIds
               /\ at(a) <= Len(Stored) => a = Stored[at(a)]
               /\ at(a) > Len(Stored) => a = Configured[at(a) - Len(Stored)]
    <3>1. /\ at(a) \in ServiceIds
          /\ \/ at(a) <= Len(Stored) /\ Stored[at(a)] = a
             \/ at(a) > Len(Stored) /\ Configured[at(a) - Len(Stored)] = a
      BY <2>1, Zenon
    <3> HIDE DEF at
    <3>2. at(a) \in Nat /\ Len(Stored) \in Nat
      BY <1>1, <3>1 DEF ServiceIds
    <3> QED
      BY <3>1, <3>2
  <2>2. CASE a \in Range(Stored)
    <3>1. PICK i \in 1 .. Len(Stored) : Stored[i] = a
      BY <1>1, <2>2 DEF Range
    <3>2. i \in ServiceIds /\ i <= Len(Stored)
      BY <1>1 DEF ServiceIds
    <3>3. \E j \in ServiceIds : \/ j <= Len(Stored) /\ Stored[j] = a
                                \/ j > Len(Stored) /\ Configured[j - Len(Stored)] = a
      BY <3>1, <3>2
    <3> QED
      BY <2>1, <3>3
  <2>3. CASE a \in Range(Configured)
    <3>1. PICK i \in 1 .. Len(Configured) : Configured[i] = a
      BY <1>1, <2>3 DEF Range
    <3>2. /\ i + Len(Stored) \in ServiceIds /\ i + Len(Stored) > Len(Stored)
          /\ (i + Len(Stored)) - Len(Stored) = i
      BY <1>1 DEF ServiceIds
    <3>3. \E j \in ServiceIds : \/ j <= Len(Stored) /\ Stored[j] = a
                                \/ j > Len(Stored) /\ Configured[j - Len(Stored)] = a
      BY <3>1, <3>2
    <3> QED
      BY <2>1, <3>3
  <2> QED
    BY <2>2, <2>3 DEF Known
<1>3. \A s \in 1 .. Len(q) : q[s] \in Known
  BY <1>1
<1> HIDE DEF at
<1>4. f \in [1 .. Len(q) -> ServiceIds]
  BY <1>2, <1>3
<1>5. ASSUME NEW s \in 1 .. Len(q), NEW t \in 1 .. Len(q), f[s] = f[t]
      PROVE  s = t
  <2>1. at(q[s]) = at(q[t]) /\ at(q[s]) \in Nat
    BY <1>1, <1>2, <1>3, <1>5 DEF ServiceIds
  <2>2. q[s] = q[t]
    BY <1>1, <1>2, <1>3, <2>1
  <2> QED
    BY <1>1, <2>2
<1>6. f \in Injection(1 .. Len(q), ServiceIds)
  BY <1>4, <1>5 DEF Injection, IsInjective
<1> DEFINE n == Len(Stored) + Len(Configured)
<1>7. ASSUME NEW k \in Nat
      PROVE  IsFiniteSet(1 .. k) /\ Cardinality(1 .. k) = k
  <2>1. /\ IsFiniteSet(1 .. k)
        /\ Cardinality(1 .. k) = IF 1 > k THEN 0 ELSE k - 1 + 1
    BY FS_Interval
  <2> QED
    BY <2>1
<1>8. n \in Nat
  BY <1>1
<1>9. Cardinality(1 .. Len(q)) <= Cardinality(1 .. n)
  BY <1>6, <1>7, <1>8, FS_Injection DEF ServiceIds
<1> QED
  BY <1>1, <1>7, <1>8, <1>9

-----------------------------------------------------------------------------
(* Messages *)

LEMMA OutMessageIs ==
    ASSUME NEW m \in OutMessages
    PROVE  /\ m.kind = "register" =>
                 /\ m.node \in NodeIds /\ m.address \in Known
                 /\ m.node # Nobody => m.address = Stored[m.node]
                 /\ m.node = Nobody => m.address \notin Range(Stored)
           /\ m.kind = "package" => m.service \in ServiceIds \cup {Nobody} /\ m.id \in PackageIds
           /\ m.kind \in {"register", "package"}
<1>1. Stored \in Seq(Addresses) /\ Len(Stored) \in Nat /\ DOMAIN Stored = 1 .. Len(Stored)
  BY ServicesAssumption
<1>2. ASSUME NEW n \in DOMAIN Stored, m = Register(n, Stored[n])
      PROVE  /\ m.kind = "register" /\ m.node \in NodeIds /\ m.address \in Known
             /\ m.node # Nobody /\ m.address = Stored[m.node]
  BY <1>1, <1>2 DEF Register, NodeIds, Known, Range, Nobody
<1>3. ASSUME NEW a \in NewAddresses, m = Register(Nobody, a)
      PROVE  /\ m.kind = "register" /\ m.node \in NodeIds /\ m.address \in Known
             /\ m.node = Nobody /\ m.address \notin Range(Stored)
  BY <1>1, <1>3 DEF Register, NodeIds, Known, NewAddresses, Nobody
<1>4. ASSUME m \in [kind : {"package"}, service : ServiceIds \cup {Nobody}, id : PackageIds]
      PROVE  m.kind = "package" /\ m.service \in ServiceIds \cup {Nobody} /\ m.id \in PackageIds
  BY <1>4
<1> QED
  BY <1>2, <1>3, <1>4 DEF OutMessages

LEMMA InMessageIs ==
    ASSUME NEW m \in InMessages
    PROVE  /\ m.kind = "registered" =>
                 m.node \in NodeIds /\ m.address \in Known /\ m.service \in ServiceIds
           /\ m.kind = "package" =>
                 /\ m.conn \in ConnIds /\ m.id \in PackageIds
                 /\ m.service \in ServiceIds \cup {Nobody}
           /\ m.kind \in {"registered", "package"}
  BY DEF InMessages

LEMMA IdsAre ==
    /\ Len(Stored) \in Nat /\ Len(Configured) \in Nat /\ MaxConns \in Nat /\ MaxSends \in Nat
    /\ DOMAIN Stored = 1 .. Len(Stored)
    /\ ServiceIds \subseteq Nat /\ Nobody \notin ServiceIds
    /\ ConnIds \subseteq Nat /\ Nobody \notin ConnIds
    /\ Nobody = 0
  BY ServicesAssumption DEF ServiceIds, ConnIds, Nobody

LEMMA KnownAddresses == Known \subseteq Addresses
  BY ServicesAssumption DEF Known, Range

-----------------------------------------------------------------------------
(* The steps *)

LEMMA InitInvariant == Init => IInv
<1> SUFFICES ASSUME Init PROVE IInv
  OBVIOUS
<1> DEFINE stored == [n \in DOMAIN Stored |-> Register(n, Stored[n])]
           new == [k \in DOMAIN NewNodes |-> Register(Nobody, NewNodes[k])]
           Registers == {Register(n, Stored[n]) : n \in DOMAIN Stored}
                        \cup {Register(Nobody, a) : a \in NewAddresses}
<1>1. /\ Len(NewNodes) \in Nat /\ DOMAIN NewNodes = 1 .. Len(NewNodes)
      /\ \A k \in DOMAIN NewNodes : NewNodes[k] \in NewAddresses
  BY NewNodesType
<1>2. stored \in Seq(Registers) /\ new \in Seq(Registers)
  BY <1>1, IdsAre
<1>3. out \in Seq(Registers)
  <2> HIDE DEF stored, new, Registers
  <2>1. stored \o new \in Seq(Registers)
    BY <1>2
  <2> QED
    BY <2>1 DEF Init, stored, new
<1>4. \A k \in DOMAIN out : out[k] \in Registers
  BY <1>3
<1>5. \A m \in Registers : m.kind = "register" /\ m \in OutMessages
  BY DEF Register, OutMessages
<1> HIDE DEF stored, new, Registers
<1>6. out \in Seq(OutMessages)
  BY <1>3, <1>5
<1>7. /\ nodes \in Seq([address : Addresses, service : ServiceIds \cup {Nobody}])
      /\ Len(nodes) = Len(Stored) /\ DOMAIN nodes = DOMAIN Stored
      /\ \A n \in DOMAIN nodes : nodes[n].address = Stored[n] /\ nodes[n].service = Nobody
  BY IdsAre, ServicesAssumption DEF Init
<1>8. Types
  <2>1. /\ asked = <<>> /\ services = <<>> /\ peer = <<>> /\ in = <<>>
        /\ Range(services) = {} /\ DOMAIN services = {}
    BY DEF Init, Range
  <2>2. /\ connOf \in [ServiceIds -> ConnIds \cup {Nobody}]
        /\ serviceOf \in [ConnIds -> ServiceIds \cup {Nobody}]
        /\ closing \in SUBSET conns /\ conns \in SUBSET ConnIds
        /\ atPeer \in SUBSET [conn : ConnIds, id : PackageIds]
    BY DEF Init
  <2> QED
    BY <1>6, <1>7, <2>1, <2>2, IdsAre, EmptySeq DEF Types, TypeOK
<1>9. NodesServed
  <2>1. \A n, k \in DOMAIN Stored : Stored[n] = Stored[k] => n = k
    BY ServicesAssumption DEF IsInjective
  <2> QED
    BY <1>7, <2>1, IdsAre DEF NodesServed
<1>10. DOMAIN in = {} /\ DOMAIN asked = {} /\ atPeer = {} /\ conns = {}
       /\ \A s \in ServiceIds : connOf[s] = Nobody
  BY DEF Init
<1> QED
  BY <1>4, <1>5, <1>8, <1>9, <1>10
  DEF IInv, RegistrationsFit, IsRegistered, ConnectionsFit, PackagesFit

Nodes == [address : Addresses, service : ServiceIds \cup {Nobody}]

LEMMA TypesGive ==
    ASSUME Types
    PROVE  /\ nodes \in Seq(Nodes) /\ asked \in Seq(Nodes)
           /\ in \in Seq(InMessages) /\ out \in Seq(OutMessages)
           /\ services \in Seq(Addresses) /\ peer \in Seq(Addresses)
           /\ Len(nodes) \in Nat /\ DOMAIN nodes = 1 .. Len(nodes)
           /\ Len(asked) \in Nat /\ DOMAIN asked = 1 .. Len(asked)
           /\ Len(services) \in Nat /\ DOMAIN services = 1 .. Len(services)
           /\ Len(peer) \in Nat /\ DOMAIN peer = 1 .. Len(peer)
           /\ \A n \in DOMAIN nodes :
                 nodes[n].service \in ServiceIds \cup {Nobody} /\ nodes[n].address \in Addresses
           /\ \A k \in DOMAIN in : in[k] \in InMessages
           /\ \A k \in DOMAIN out : out[k] \in OutMessages
<1>1. nodes \in Seq(Nodes) /\ asked \in Seq(Nodes)
  BY DEF Types, TypeOK, Nodes
<1>2. \A n \in DOMAIN nodes : nodes[n] \in Nodes
  BY <1>1
<1> QED
  BY <1>1, <1>2 DEF Types, TypeOK, Nodes

\* A handler's request: the package is the next one, for the service of its node.
LEMMA AskKeeps == ASSUME IInv, NEW n \in DOMAIN nodes, Ask(n) PROVE IInv'
<1> DEFINE a == [service |-> nodes[n].service, address |-> nodes[n].address]
           m == [kind |-> "package", service |-> nodes[n].service, id |-> Len(asked) + 1]
<1>1. /\ asked \in Seq(Nodes) /\ out \in Seq(OutMessages)
      /\ Len(asked) \in Nat /\ DOMAIN asked = 1 .. Len(asked)
      /\ nodes[n].service \in ServiceIds \cup {Nobody} /\ nodes[n].address \in Addresses
      /\ Len(asked) + 1 \in PackageIds
  BY TypesGive, IdsAre DEF IInv, Ask, PackageIds
<1>2. a \in Nodes /\ m \in OutMessages
  BY <1>1 DEF OutMessages, Nodes
<1>3. asked' = Append(asked, a) /\ out' = Append(out, m)
      /\ UNCHANGED <<nodes, networkVars, in, atPeer>>
  BY DEF Ask
<1>4. a.service = nodes[n].service /\ a.address = nodes[n].address
      /\ m.kind = "package" /\ m.service = nodes[n].service /\ m.id = Len(asked) + 1
  OBVIOUS
<1> HIDE DEF a, m
<1>5. /\ asked' \in Seq(Nodes) /\ Len(asked') = Len(asked) + 1
      /\ asked'[Len(asked) + 1] = a /\ Len(asked) + 1 \in DOMAIN asked'
      /\ \A k \in DOMAIN asked : k \in DOMAIN asked' /\ asked'[k] = asked[k]
      /\ \A k \in DOMAIN asked' : k \in DOMAIN asked \/ k = Len(asked) + 1
  BY <1>1, <1>2, <1>3, AppendIs
<1>6. /\ out' \in Seq(OutMessages)
      /\ \A k \in DOMAIN out : out'[k] = out[k]
      /\ \A k \in DOMAIN out' : k \in DOMAIN out \/ out'[k] = m
  BY <1>1, <1>2, <1>3, AppendIs
<1>7. Types'
  BY <1>1, <1>3, <1>5, <1>6 DEF IInv, Types, TypeOK, Nodes, PackageIds, networkVars
<1>8. NodesServed' /\ RegistrationsFit' /\ ConnectionsFit'
  BY <1>3 DEF IInv, NodesServed, RegistrationsFit, IsRegistered, ConnectionsFit, IsOpen,
              networkVars
<1>9. PackagesFit'
  <2>1. \A i \in DOMAIN asked' : asked'[i].service # Nobody =>
          /\ asked'[i].service \in DOMAIN services
          /\ services[asked'[i].service] = asked'[i].address
    BY <1>4, <1>5 DEF IInv, NodesServed, PackagesFit
  <2>2. \A k \in DOMAIN out' : out'[k].kind = "package" =>
          out'[k].id \in DOMAIN asked' /\ out'[k].service = asked'[out'[k].id].service
    BY <1>4, <1>5, <1>6 DEF IInv, PackagesFit
  <2> QED
    BY <1>3, <1>5, <2>1, <2>2 DEF IInv, PackagesFit, IsOpen, networkVars
<1> QED
  BY <1>7, <1>8, <1>9 DEF IInv

\* What stays of the IN queue keeps what is said of its messages.
LEMMA TakeIn ==
    ASSUME IInv, in # <<>>, in' = Tail(in)
    PROVE  /\ in' \in Seq(InMessages) /\ Head(in) \in InMessages
           /\ 1 \in DOMAIN in /\ Head(in) = in[1]
           /\ \A k \in DOMAIN in' : k + 1 \in DOMAIN in /\ k + 1 # 1 /\ in'[k] = in[k + 1]
           /\ \A j, k \in DOMAIN in' : j + 1 = k + 1 => j = k
<1>1. in \in Seq(InMessages)
  BY DEF IInv, Types
<1>2. /\ Tail(in) \in Seq(InMessages)
      /\ Head(in) = in[1] /\ 1 \in DOMAIN in /\ Head(in) \in InMessages
      /\ \A k \in DOMAIN Tail(in) :
            k \in Nat /\ k + 1 \in DOMAIN in /\ k + 1 # 1 /\ Tail(in)[k] = in[k + 1]
  BY <1>1, TailIs
<1>3. \A j, k \in Nat : j + 1 = k + 1 => j = k
  OBVIOUS
<1> QED
  BY <1>2, <1>3

\* A node gets its service, or a new node joins: its address has none yet.
LEMMA TakeRegisteredKeeps == ASSUME IInv, TakeRegistered PROVE IInv'
<1> DEFINE h == Head(in)
           NodesFine ==
               /\ nodes' \in Seq(Nodes) /\ NodesServed'
               /\ \A k \in DOMAIN in' : in'[k].kind = "registered" /\ in'[k].node = Nobody =>
                     \A n \in DOMAIN nodes' : nodes'[n].address # in'[k].address
<1>1. /\ in # <<>> /\ h.kind = "registered" /\ in' = Tail(in)
      /\ UNCHANGED <<asked, networkVars, out, atPeer>>
  BY DEF TakeRegistered
<1>2. /\ in' \in Seq(InMessages) /\ h \in InMessages /\ 1 \in DOMAIN in /\ h = in[1]
      /\ \A k \in DOMAIN in' : k + 1 \in DOMAIN in /\ k + 1 # 1 /\ in'[k] = in[k + 1]
      /\ \A j, k \in DOMAIN in' : j + 1 = k + 1 => j = k
  BY <1>1, TakeIn
<1>3. /\ h.node \in NodeIds /\ h.service \in ServiceIds /\ h.address \in Addresses
      /\ h.service \in DOMAIN services /\ services[h.service] = h.address
      /\ h.service # Nobody
      /\ h.node # Nobody => h.address = Stored[h.node]
      /\ h.node = Nobody => \A n \in DOMAIN nodes : nodes[n].address # h.address
  BY <1>1, <1>2, InMessageIs, KnownAddresses, IdsAre DEF IInv, RegistrationsFit, IsRegistered
<1>4. /\ nodes \in Seq(Nodes) /\ Len(nodes) \in Nat /\ DOMAIN nodes = 1 .. Len(nodes)
      /\ Len(nodes) >= Len(Stored)
  BY TypesGive DEF IInv, NodesServed
\* No message that is left is about the service of h, nor about its address.
<1>5. \A k \in DOMAIN in' : in'[k].kind = "registered" =>
         in'[k].service # h.service /\ in'[k].address # h.address
  <2> SUFFICES ASSUME NEW k \in DOMAIN in', in'[k].kind = "registered"
               PROVE  in'[k].service # h.service /\ in'[k].address # h.address
    OBVIOUS
  <2>1. IsRegistered(k + 1) /\ IsRegistered(1) /\ k + 1 # 1
    BY <1>1, <1>2 DEF IsRegistered
  <2>2. /\ in'[k].service # h.service
        /\ in'[k].service \in DOMAIN services /\ services[in'[k].service] = in'[k].address
    BY <1>2, <2>1 DEF IInv, RegistrationsFit
  <2> QED
    BY <1>3, <2>2 DEF IInv, Types
<1> HIDE DEF h
<1>6. ASSUME h.node = Nobody PROVE NodesFine
  <2> DEFINE new == [address |-> h.address, service |-> h.service]
  <2>1. nodes' = Append(nodes, new)
    BY <1>6 DEF TakeRegistered, h
  <2>2. new \in Nodes /\ new.address = h.address /\ new.service = h.service
    BY <1>3 DEF Nodes
  <2> HIDE DEF new
  <2>3. /\ nodes' \in Seq(Nodes) /\ Len(nodes') = Len(nodes) + 1
        /\ nodes'[Len(nodes) + 1] = new
        /\ \A n \in DOMAIN nodes : nodes'[n] = nodes[n]
        /\ \A n \in DOMAIN nodes' : n \in DOMAIN nodes \/ n = Len(nodes) + 1
    BY <1>4, <2>1, <2>2, AppendIs
  <2>4. Len(nodes) + 1 \notin DOMAIN Stored
    BY <1>4, IdsAre
  <2>5. NodesServed'
    <3>1. Len(nodes') >= Len(Stored)
      BY <1>4, <2>3, IdsAre
    <3>2. \A n \in DOMAIN nodes' :
             /\ n \in DOMAIN Stored => nodes'[n].address = Stored[n]
             /\ n \notin DOMAIN Stored => nodes'[n].service # Nobody
             /\ nodes'[n].service # Nobody =>
                   /\ nodes'[n].service \in DOMAIN services
                   /\ services[nodes'[n].service] = nodes'[n].address
      BY <1>3, <2>2, <2>3, <2>4 DEF IInv, NodesServed
    <3>3. \A n, k \in DOMAIN nodes' : nodes'[n].address = nodes'[k].address => n = k
      BY <1>3, <1>6, <2>2, <2>3 DEF IInv, NodesServed
    <3> QED
      BY <1>1, <3>1, <3>2, <3>3 DEF NodesServed, networkVars
  <2>6. \A k \in DOMAIN in' : in'[k].kind = "registered" /\ in'[k].node = Nobody =>
           \A n \in DOMAIN nodes' : nodes'[n].address # in'[k].address
    BY <1>2, <1>5, <2>2, <2>3 DEF IInv, RegistrationsFit, IsRegistered
  <2> QED
    BY <2>3, <2>5, <2>6
<1>7. ASSUME h.node # Nobody PROVE NodesFine
  <2> DEFINE i == h.node
  <2>1. nodes' = [nodes EXCEPT ![i].service = h.service]
    BY <1>7 DEF TakeRegistered, h
  <2>2. i \in DOMAIN nodes /\ i \in DOMAIN Stored
    BY <1>3, <1>4, <1>7, IdsAre DEF NodeIds
  <2>3. /\ nodes' \in Seq(Nodes) /\ DOMAIN nodes' = DOMAIN nodes /\ Len(nodes') = Len(nodes)
        /\ \A n \in DOMAIN nodes :
              /\ nodes'[n].address = nodes[n].address
              /\ nodes'[n].service = IF n = i THEN h.service ELSE nodes[n].service
    <3>1. \A n \in DOMAIN nodes : nodes[n] \in Nodes
      BY <1>4
    <3>2. nodes'[i] = [nodes[i] EXCEPT !.service = h.service]
      BY <2>1, <2>2
    <3>3. \A n \in DOMAIN nodes : n # i => nodes'[n] = nodes[n]
      BY <2>1
    <3>4. /\ nodes'[i] \in Nodes /\ nodes'[i].address = nodes[i].address
          /\ nodes'[i].service = h.service
      BY <1>3, <2>2, <3>1, <3>2 DEF Nodes
    <3>5. /\ DOMAIN nodes' = 1 .. Len(nodes)
          /\ nodes' = [n \in 1 .. Len(nodes) |-> nodes'[n]]
      BY <1>4, <2>1
    <3>6. \A n \in 1 .. Len(nodes) : nodes'[n] \in Nodes
      BY <1>4, <3>1, <3>3, <3>4
    <3>7. nodes' \in Seq(Nodes) /\ Len(nodes') = Len(nodes)
      BY <1>4, <3>5, <3>6
    <3> QED
      BY <1>4, <3>3, <3>4, <3>5, <3>7
  <2>4. NodesServed'
    <3>1. nodes[i].address = h.address
      BY <1>3, <1>7, <2>2 DEF IInv, NodesServed
    <3>2. \A n \in DOMAIN nodes' :
             /\ n \in DOMAIN Stored => nodes'[n].address = Stored[n]
             /\ n \notin DOMAIN Stored => nodes'[n].service # Nobody
             /\ nodes'[n].service # Nobody =>
                   /\ nodes'[n].service \in DOMAIN services
                   /\ services[nodes'[n].service] = nodes'[n].address
      BY <1>3, <2>2, <2>3, <3>1 DEF IInv, NodesServed
    <3> QED
      BY <1>1, <1>4, <2>3, <3>2 DEF IInv, NodesServed, networkVars
  <2>5. \A k \in DOMAIN in' : in'[k].kind = "registered" /\ in'[k].node = Nobody =>
           \A n \in DOMAIN nodes' : nodes'[n].address # in'[k].address
    BY <1>2, <2>3 DEF IInv, RegistrationsFit, IsRegistered
  <2> QED
    BY <2>3, <2>4, <2>5
<1>8. Types'
  BY <1>1, <1>2, <1>6, <1>7 DEF IInv, Types, TypeOK, Nodes, networkVars
<1>9. RegistrationsFit'
  <2>1. \A k \in DOMAIN in' : in'[k].kind = "registered" => IsRegistered(k + 1)
    BY <1>2 DEF IsRegistered
  <2>2. \A j, k \in DOMAIN in' : in'[j].kind = "registered" /\ in'[k].kind = "registered"
                                 /\ in'[j].service = in'[k].service => j = k
    BY <1>2, <2>1 DEF IInv, RegistrationsFit
  <2>3. \A k \in DOMAIN in' : in'[k].kind = "registered" =>
          /\ in'[k].service \in DOMAIN services
          /\ services[in'[k].service] = in'[k].address
          /\ in'[k].node # Nobody => in'[k].address = Stored[in'[k].node]
    BY <1>2, <2>1 DEF IInv, RegistrationsFit
  <2> QED
    BY <1>1, <1>6, <1>7, <2>2, <2>3 DEF RegistrationsFit, IsRegistered, networkVars
<1>10. ConnectionsFit' /\ PackagesFit'
  BY <1>1, <1>2 DEF IInv, ConnectionsFit, PackagesFit, IsOpen, networkVars
<1> QED
  BY <1>6, <1>7, <1>8, <1>9, <1>10 DEF IInv

LEMMA TakeAnswerKeeps == ASSUME IInv, TakeAnswer PROVE IInv'
<1>1. /\ in # <<>> /\ in' = Tail(in)
      /\ UNCHANGED <<workerVars, networkVars, out, atPeer>>
  BY DEF TakeAnswer
<1>2. /\ in' \in Seq(InMessages)
      /\ \A k \in DOMAIN in' : k + 1 \in DOMAIN in /\ k + 1 # 1 /\ in'[k] = in[k + 1]
      /\ \A j, k \in DOMAIN in' : j + 1 = k + 1 => j = k
  BY <1>1, TakeIn
<1>3. Types' /\ NodesServed'
  BY <1>1, <1>2 DEF IInv, Types, TypeOK, NodesServed, workerVars, networkVars
<1>4. \A k \in DOMAIN in' : in'[k].kind = "registered" => IsRegistered(k + 1)
  BY <1>2 DEF IsRegistered
<1>5. \A j, k \in DOMAIN in' : in'[j].kind = "registered" /\ in'[k].kind = "registered"
                               /\ in'[j].service = in'[k].service => j = k
  BY <1>2, <1>4 DEF IInv, RegistrationsFit
<1>6. RegistrationsFit'
  BY <1>1, <1>2, <1>4, <1>5 DEF IInv, RegistrationsFit, IsRegistered, workerVars, networkVars
<1>7. ConnectionsFit' /\ PackagesFit'
  BY <1>1, <1>2 DEF IInv, ConnectionsFit, PackagesFit, IsOpen, workerVars, networkVars
<1> QED
  BY <1>3, <1>6, <1>7 DEF IInv

LEMMA TakeOut ==
    ASSUME IInv, out # <<>>, out' = Tail(out)
    PROVE  /\ out' \in Seq(OutMessages) /\ Head(out) \in OutMessages
           /\ 1 \in DOMAIN out /\ Head(out) = out[1]
           /\ \A k \in DOMAIN out' : k + 1 \in DOMAIN out /\ out'[k] = out[k + 1]
<1>1. out \in Seq(OutMessages)
  BY DEF IInv, Types
<1> QED
  BY <1>1, TailIs

\* A new service, with an address that no service has, and the answer about it.
LEMMA RegisterServiceKeeps == ASSUME IInv, RegisterService PROVE IInv'
<1> DEFINE h == Head(out)
           n == Len(services) + 1
           m == [kind |-> "registered", node |-> h.node, address |-> h.address, service |-> n]
<1>1. /\ out # <<>> /\ h.kind = "register" /\ out' = Tail(out)
      /\ UNCHANGED <<workerVars, connOf, serviceOf, conns, closing, peer, atPeer>>
  BY DEF RegisterService
<1>2. /\ out' \in Seq(OutMessages) /\ h \in OutMessages
      /\ \A k \in DOMAIN out' : k + 1 \in DOMAIN out /\ out'[k] = out[k + 1]
  BY <1>1, TakeOut
<1>3. /\ h.node \in NodeIds /\ h.address \in Known
      /\ h.node # Nobody => h.address = Stored[h.node]
      /\ h.node = Nobody => h.address \notin Range(Stored)
  BY <1>1, <1>2, OutMessageIs
<1>4. CASE h.address \in Range(services)
  <2>1. UNCHANGED <<services, in>>
    BY <1>4 DEF RegisterService
  <2>2. Types' /\ NodesServed' /\ RegistrationsFit' /\ ConnectionsFit'
    BY <1>1, <1>2, <2>1
    DEF IInv, Types, TypeOK, NodesServed, RegistrationsFit, IsRegistered, ConnectionsFit,
        IsOpen, workerVars
  <2>3. PackagesFit'
    BY <1>1, <1>2, <2>1 DEF IInv, PackagesFit, IsOpen, workerVars
  <2> QED
    BY <2>2, <2>3 DEF IInv
<1>5. CASE h.address \notin Range(services)
  <2>1. /\ in \in Seq(InMessages) /\ services \in Seq(Addresses) /\ services \in Seq(Known)
        /\ Len(services) \in Nat /\ DOMAIN services = 1 .. Len(services)
        /\ \A k \in DOMAIN services : services[k] \in Range(services)
    <3>1. services \in Seq(Addresses) /\ Range(services) \subseteq Known
      BY DEF IInv, Types, TypeOK
    <3>2. \A k \in DOMAIN services : services[k] \in Range(services)
      BY DEF Range
    <3>3. services \in Seq(Known)
      BY <3>1, <3>2, LenProperties
    <3> QED
      BY <3>1, <3>2, <3>3, TypesGive DEF IInv
  <2>2. h.address \in Addresses
    BY <1>3, KnownAddresses
  <2>3. services' = Append(services, h.address)
    BY <1>5 DEF RegisterService
  <2>4. /\ services' \in Seq(Addresses) /\ services' \in Seq(Known)
        /\ Len(services') = n /\ services'[n] = h.address /\ n \in DOMAIN services'
        /\ \A k \in DOMAIN services : k \in DOMAIN services' /\ services'[k] = services[k]
        /\ \A k \in DOMAIN services' : k \in DOMAIN services \/ k = n
        /\ n \notin DOMAIN services
    BY <1>3, <2>1, <2>2, <2>3, AppendIs
  <2>5. \A s, t \in DOMAIN services' : services'[s] = services'[t] => s = t
    BY <1>5, <2>1, <2>4 DEF IInv, Types
  <2>6. n \in ServiceIds
    <3>1. Len(services') <= Len(Stored) + Len(Configured)
      BY <2>4, <2>5, ServicesFitIds
    <3> QED
      BY <2>1, <2>4, <3>1, IdsAre DEF ServiceIds
  <2>7. in' = Append(in, m)
    BY <1>5, <2>4 DEF RegisterService
  <2>8. /\ m \in InMessages /\ m.kind = "registered" /\ m.node = h.node
        /\ m.address = h.address /\ m.service = n
    BY <1>3, <2>6 DEF InMessages
  <2> HIDE DEF h, m, n
  <2>9. /\ in' \in Seq(InMessages) /\ in'[Len(in) + 1] = m
        /\ \A k \in DOMAIN in : k \in DOMAIN in' /\ in'[k] = in[k]
        /\ \A k \in DOMAIN in' : k \in DOMAIN in \/ k = Len(in) + 1
    BY <2>1, <2>7, <2>8, AppendIs
  <2>10. Types'
    <3>1. Range(services') \subseteq Known
      <4>1. \A k \in DOMAIN services' : services'[k] \in Known
        BY <2>4
      <4> QED
        BY <4>1 DEF Range
    <3> QED
      BY <1>1, <1>2, <2>4, <2>5, <2>9, <3>1 DEF IInv, Types, TypeOK, workerVars
  <2>11. NodesServed'
    BY <1>1, <2>4 DEF IInv, NodesServed, workerVars
  \* The nodes that are stored have another address, the others have a service.
  <2>12. h.node = Nobody => \A i \in DOMAIN nodes : nodes[i].address # h.address
    <3> SUFFICES ASSUME h.node = Nobody, NEW i \in DOMAIN nodes, nodes[i].address = h.address
                 PROVE  FALSE
      OBVIOUS
    <3>1. CASE i \in DOMAIN Stored
      <4>1. Stored[i] \in Range(Stored) /\ nodes[i].address = Stored[i]
        BY <3>1 DEF Range, IInv, NodesServed
      <4> QED
        BY <1>3, <4>1
    <3>2. CASE i \notin DOMAIN Stored
      <4>1. nodes[i].service \in DOMAIN services /\ services[nodes[i].service] = h.address
        BY <3>2 DEF IInv, NodesServed
      <4> QED
        BY <1>5, <2>1, <4>1
    <3> QED
      BY <3>1, <3>2
  <2>13. RegistrationsFit'
    <3>1. ASSUME NEW k \in DOMAIN in', in'[k].kind = "registered"
          PROVE  /\ in'[k].service \in DOMAIN services'
                 /\ services'[in'[k].service] = in'[k].address
                 /\ in'[k].node # Nobody => in'[k].address = Stored[in'[k].node]
                 /\ in'[k].node = Nobody =>
                       \A i \in DOMAIN nodes : nodes[i].address # in'[k].address
      <4>1. CASE k \in DOMAIN in
        <5>1. IsRegistered(k) /\ in'[k] = in[k]
          BY <2>9, <3>1, <4>1 DEF IsRegistered
        <5> QED
          BY <2>4, <5>1 DEF IInv, RegistrationsFit, IsRegistered
      <4>2. CASE k = Len(in) + 1
        BY <1>3, <2>4, <2>8, <2>9, <2>12, <4>2
      <4> QED
        BY <2>9, <4>1, <4>2
    <3>2. ASSUME NEW j \in DOMAIN in', NEW k \in DOMAIN in',
                 in'[j].kind = "registered", in'[k].kind = "registered",
                 in'[j].service = in'[k].service
          PROVE  j = k
      <4>1. \A i \in DOMAIN in : in'[i].kind = "registered" => in'[i].service # n
        BY <2>4, <2>9 DEF IInv, RegistrationsFit, IsRegistered
      <4>2. CASE j \in DOMAIN in /\ k \in DOMAIN in
        BY <2>9, <3>2, <4>2 DEF IInv, RegistrationsFit, IsRegistered
      <4> QED
        BY <2>8, <2>9, <3>2, <4>1, <4>2
    <3> QED
      BY <1>1, <3>1, <3>2 DEF RegistrationsFit, IsRegistered, workerVars
  <2>14. ConnectionsFit'
    BY <1>1, <2>4 DEF IInv, ConnectionsFit, IsOpen, workerVars
  <2>15. PackagesFit'
    <3>1. \A k \in DOMAIN in' : in'[k].kind = "package" => k \in DOMAIN in /\ in'[k] = in[k]
      BY <2>8, <2>9
    <3> QED
      BY <1>1, <1>2, <2>4, <3>1 DEF IInv, PackagesFit, IsOpen, workerVars
  <2> QED
    BY <2>10, <2>11, <2>13, <2>14, <2>15 DEF IInv
<1> QED
  BY <1>4, <1>5

LEMMA SendNothingKeeps == ASSUME IInv, SendNothing PROVE IInv'
<1>1. out # <<>> /\ out' = Tail(out) /\ UNCHANGED <<workerVars, networkVars, in, atPeer>>
  BY DEF SendNothing, Sends
<1>2. /\ out' \in Seq(OutMessages)
      /\ \A k \in DOMAIN out' : k + 1 \in DOMAIN out /\ out'[k] = out[k + 1]
  BY <1>1, TakeOut
<1>3. Types' /\ NodesServed' /\ RegistrationsFit' /\ ConnectionsFit'
  BY <1>1, <1>2
  DEF IInv, Types, TypeOK, NodesServed, RegistrationsFit, IsRegistered, ConnectionsFit,
      IsOpen, workerVars, networkVars
<1>4. PackagesFit'
  BY <1>1, <1>2 DEF IInv, PackagesFit, IsOpen, workerVars, networkVars
<1> QED
  BY <1>3, <1>4 DEF IInv

\* The package that Sends names was asked of a node of service s.
LEMMA SentPackage ==
    ASSUME IInv, NEW s \in DOMAIN services, Sends(s)
    PROVE  /\ Head(out).id \in DOMAIN asked /\ Head(out).id \in PackageIds
           /\ asked[Head(out).id].service = s
           /\ asked[Head(out).id].address = services[s]
           /\ s \in ServiceIds /\ s # Nobody
<1>1. out \in Seq(OutMessages) /\ out # <<>> /\ Head(out).kind = "package"
      /\ Head(out).service = s
  BY DEF IInv, Types, Sends
<1>2. Head(out) = out[1] /\ 1 \in DOMAIN out /\ Head(out) \in OutMessages
  BY <1>1, TailIs
<1>3. s # Nobody
  BY TypesGive, IdsAre DEF IInv
<1>4. s \in ServiceIds /\ Head(out).id \in PackageIds
  BY <1>1, <1>2, <1>3, OutMessageIs
<1>5. Head(out).id \in DOMAIN asked /\ asked[Head(out).id].service = s
  BY <1>1, <1>2 DEF IInv, PackagesFit
<1> QED
  BY <1>3, <1>4, <1>5 DEF IInv, PackagesFit

LEMMA SendKeeps == ASSUME IInv, NEW s \in DOMAIN services, Send(s) PROVE IInv'
<1> DEFINE new == [conn |-> connOf[s], id |-> Head(out).id]
<1>1. /\ Sends(s) /\ out # <<>> /\ out' = Tail(out) /\ IsOpen(connOf[s])
      /\ atPeer' = atPeer \cup {new}
      /\ UNCHANGED <<workerVars, networkVars, in>>
  BY DEF Send, SendOn, Sends, networkVars
<1>2. /\ out' \in Seq(OutMessages)
      /\ \A k \in DOMAIN out' : k + 1 \in DOMAIN out /\ out'[k] = out[k + 1]
  BY <1>1, TakeOut
<1>3. /\ Head(out).id \in DOMAIN asked /\ Head(out).id \in PackageIds
      /\ asked[Head(out).id].service = s
      /\ asked[Head(out).id].address = services[s]
      /\ s \in ServiceIds /\ s # Nobody
  BY <1>1, SentPackage
<1>4. connOf[s] \in ConnIds /\ connOf[s] \in conns /\ connOf[s] # Nobody
  BY <1>1, IdsAre DEF IInv, Types, TypeOK, IsOpen
<1>5. serviceOf[connOf[s]] = s /\ peer[connOf[s]] = services[s]
  BY <1>3, <1>4 DEF IInv, ConnectionsFit
<1>6. new \in [conn : ConnIds, id : PackageIds]
      /\ new.conn = connOf[s] /\ new.id = Head(out).id
  BY <1>3, <1>4
<1> HIDE DEF new
<1>7. Types' /\ NodesServed' /\ RegistrationsFit' /\ ConnectionsFit'
  BY <1>1, <1>2, <1>6
  DEF IInv, Types, TypeOK, NodesServed, RegistrationsFit, IsRegistered, ConnectionsFit,
      IsOpen, workerVars, networkVars
<1>8. \A x \in atPeer' :
          /\ x.id \in DOMAIN asked
          /\ x.conn \in conns
          /\ peer[x.conn] = asked[x.id].address
          /\ IsOpen(x.conn) => serviceOf[x.conn] = asked[x.id].service
  BY <1>1, <1>3, <1>4, <1>5, <1>6 DEF IInv, PackagesFit
<1>9. PackagesFit'
  BY <1>1, <1>2, <1>8 DEF IInv, PackagesFit, IsOpen, workerVars, networkVars
<1> QED
  BY <1>7, <1>9 DEF IInv

\* The service leads to its new connection, and the one it replaces, which is not
\* open any more, leads nowhere.
LEMMA ReconnectKeeps == ASSUME IInv, NEW s \in DOMAIN services, Reconnect(s) PROVE IInv'
<1> DEFINE c == Len(peer) + 1
           new == [conn |-> c, id |-> Head(out).id]
<1>1. /\ Sends(s) /\ out # <<>> /\ out' = Tail(out) /\ ~IsOpen(connOf[s]) /\ c \in ConnIds
      /\ connOf' = [connOf EXCEPT ![s] = c]
      /\ serviceOf' = [k \in ConnIds |->
            IF k = c THEN s ELSE IF k = connOf[s] THEN Nobody ELSE serviceOf[k]]
      /\ conns' = conns \cup {c}
      /\ peer' = Append(peer, services[s])
      /\ atPeer' = atPeer \cup {new}
      /\ UNCHANGED <<workerVars, in, services, closing>>
  BY DEF Reconnect, SendOn, Sends
<1>2. /\ out' \in Seq(OutMessages)
      /\ \A k \in DOMAIN out' : k + 1 \in DOMAIN out /\ out'[k] = out[k + 1]
  BY <1>1, TakeOut
<1>3. /\ Head(out).id \in DOMAIN asked /\ Head(out).id \in PackageIds
      /\ asked[Head(out).id].service = s
      /\ asked[Head(out).id].address = services[s]
      /\ s \in ServiceIds /\ s # Nobody
  BY <1>1, SentPackage
<1>4. /\ peer \in Seq(Addresses) /\ services[s] \in Addresses /\ Len(peer) \in Nat
  BY TypesGive DEF IInv
<1>5. /\ peer' \in Seq(Addresses) /\ Len(peer') = c /\ peer'[c] = services[s]
      /\ c \in DOMAIN peer' /\ c \notin DOMAIN peer
      /\ \A k \in DOMAIN peer : k \in DOMAIN peer' /\ peer'[k] = peer[k]
  BY <1>1, <1>4, AppendIs
<1>6. c <= MaxConns /\ c # Nobody
  BY <1>1, IdsAre DEF ConnIds
<1>7. new \in [conn : ConnIds, id : PackageIds] /\ new.conn = c /\ new.id = Head(out).id
  BY <1>1, <1>3
<1>8. /\ connOf \in [ServiceIds -> ConnIds \cup {Nobody}]
      /\ serviceOf \in [ConnIds -> ServiceIds \cup {Nobody}]
      /\ conns \subseteq ConnIds /\ closing \subseteq conns
      /\ atPeer \subseteq [conn : ConnIds, id : PackageIds]
  BY DEF IInv, Types, TypeOK
<1>9. \A x \in conns : x # c
  BY <1>5 DEF IInv, ConnectionsFit
<1> HIDE DEF c, new
<1>10. Types'
  <2>1. /\ connOf' \in [ServiceIds -> ConnIds \cup {Nobody}]
        /\ serviceOf' \in [ConnIds -> ServiceIds \cup {Nobody}]
        /\ conns' \subseteq ConnIds /\ closing' \subseteq conns'
        /\ atPeer' \subseteq [conn : ConnIds, id : PackageIds]
    BY <1>1, <1>3, <1>7, <1>8
  <2> QED
    BY <1>1, <1>2, <1>5, <1>6, <2>1 DEF IInv, Types, TypeOK, workerVars
<1>11. NodesServed' /\ RegistrationsFit'
  BY <1>1 DEF IInv, NodesServed, RegistrationsFit, IsRegistered, workerVars
\* Another connection keeps its service unless it was the last one of s.
<1>12. /\ serviceOf'[c] = s
       /\ \A k \in ConnIds : k # c /\ k # connOf[s] => serviceOf'[k] = serviceOf[k]
       /\ connOf'[s] = c
       /\ \A t \in ServiceIds : t # s => connOf'[t] = connOf[t]
  BY <1>1, <1>3, <1>8
<1>13. \A x : x \in conns' \ closing' => x = c \/ IsOpen(x)
  BY <1>1 DEF IsOpen
<1>14. ConnectionsFit'
  <2>1. ASSUME NEW t \in ServiceIds, connOf'[t] # Nobody
        PROVE  /\ t \in DOMAIN services
               /\ connOf'[t] \in DOMAIN peer'
               /\ serviceOf'[connOf'[t]] = t
               /\ peer'[connOf'[t]] = services[t]
    <3>1. CASE t = s
      BY <1>5, <1>12, <3>1
    <3>2. CASE t # s
      <4>1. /\ connOf[t] # Nobody /\ connOf'[t] = connOf[t] /\ t \in DOMAIN services
            /\ connOf[t] \in DOMAIN peer /\ serviceOf[connOf[t]] = t
            /\ peer[connOf[t]] = services[t]
        BY <1>12, <2>1, <3>2 DEF IInv, ConnectionsFit
      <4>2. connOf[t] # connOf[s]
        BY <1>3, <3>2, <4>1 DEF IInv, ConnectionsFit
      <4>3. connOf[t] \in ConnIds /\ connOf[t] # c
        BY <1>5, <1>8, <4>1
      <4> QED
        BY <1>5, <1>12, <4>1, <4>2, <4>3
    <3> QED
      BY <3>1, <3>2
  <2>2. ASSUME NEW x \in conns'
        PROVE  /\ x \in DOMAIN peer'
               /\ x \notin closing' => serviceOf'[x] \in DOMAIN services /\ connOf'[serviceOf'[x]] = x
    <3>1. CASE x = c
      BY <1>5, <1>12, <3>1
    <3>2. CASE x \in conns /\ x # c
      <4>1. x \in DOMAIN peer
        BY <3>2 DEF IInv, ConnectionsFit
      <4>2. ASSUME x \notin closing'
            PROVE  serviceOf'[x] \in DOMAIN services /\ connOf'[serviceOf'[x]] = x
        <5>1. IsOpen(x)
          BY <1>1, <3>2, <4>2 DEF IsOpen
        <5>2. serviceOf[x] \in DOMAIN services /\ connOf[serviceOf[x]] = x
          BY <3>2, <5>1 DEF IInv, ConnectionsFit
        <5>3. x # connOf[s]
          BY <1>1, <5>1
        <5>4. serviceOf[x] # s /\ serviceOf[x] \in ServiceIds
          <6>1. serviceOf[x] \in ServiceIds \cup {Nobody} /\ serviceOf[x] # Nobody
            BY <1>8, <3>2, <5>2, TypesGive, IdsAre DEF IInv
          <6> QED
            BY <5>2, <5>3, <6>1
        <5> QED
          BY <1>8, <1>12, <3>2, <5>2, <5>3, <5>4
      <4> QED
        BY <1>5, <4>1, <4>2
    <3> QED
      BY <1>1, <3>1, <3>2
  <2> QED
    BY <1>1, <2>1, <2>2 DEF ConnectionsFit, IsOpen
<1>15. \A x \in atPeer' :
          /\ x.id \in DOMAIN asked
          /\ x.conn \in conns'
          /\ peer'[x.conn] = asked[x.id].address
          /\ x.conn \notin closing' => serviceOf'[x.conn] = asked[x.id].service
  <2> SUFFICES ASSUME NEW x \in atPeer'
               PROVE  /\ x.id \in DOMAIN asked
                      /\ x.conn \in conns'
                      /\ peer'[x.conn] = asked[x.id].address
                      /\ x.conn \notin closing' => serviceOf'[x.conn] = asked[x.id].service
    OBVIOUS
  <2>1. CASE x = new
    BY <1>1, <1>3, <1>5, <1>7, <1>12, <2>1
  <2>2. CASE x \in atPeer
    <3>1. /\ x.id \in DOMAIN asked /\ x.conn \in conns
          /\ peer[x.conn] = asked[x.id].address
          /\ IsOpen(x.conn) => serviceOf[x.conn] = asked[x.id].service
      BY <2>2 DEF IInv, PackagesFit
    <3>2. x.conn \in DOMAIN peer /\ x.conn # c /\ x.conn \in ConnIds
      BY <1>8, <1>9, <3>1 DEF IInv, ConnectionsFit
    <3>3. x.conn \notin closing' => IsOpen(x.conn) /\ x.conn # connOf[s]
      BY <1>1, <3>1 DEF IsOpen
    <3> QED
      BY <1>1, <1>5, <1>12, <3>1, <3>2, <3>3
  <2> QED
    BY <1>1, <2>1, <2>2
<1>16. PackagesFit'
  <2>1. UNCHANGED <<nodes, asked, in, services>>
    BY <1>1 DEF workerVars
  <2>2. \A k \in DOMAIN out' : out'[k].kind = "package" =>
          out'[k].id \in DOMAIN asked /\ out'[k].service = asked[out'[k].id].service
    BY <1>2 DEF IInv, PackagesFit
  <2>3. \A k \in DOMAIN in : in[k].kind = "package" =>
          /\ in[k].id \in DOMAIN asked
          /\ in[k].conn \in DOMAIN peer'
          /\ in[k].service = asked[in[k].id].service
          /\ peer'[in[k].conn] = asked[in[k].id].address
    BY <1>5 DEF IInv, PackagesFit
  <2>4. \A i \in DOMAIN asked : asked[i].service # Nobody =>
          /\ asked[i].service \in DOMAIN services
          /\ services[asked[i].service] = asked[i].address
    BY DEF IInv, PackagesFit
  <2> QED
    BY <1>15, <2>1, <2>2, <2>3, <2>4 DEF PackagesFit, IsOpen
<1> QED
  BY <1>10, <1>11, <1>14, <1>16 DEF IInv

\* The answer carries the service of the connection, which is open.
LEMMA ReceiveKeeps == ASSUME IInv, NEW m \in atPeer, Receive(m) PROVE IInv'
<1> DEFINE new == [kind |-> "package", conn |-> m.conn, id |-> m.id,
                   service |-> serviceOf[m.conn]]
<1>1. /\ IsOpen(m.conn) /\ atPeer' = atPeer \ {m} /\ in' = Append(in, new)
      /\ UNCHANGED <<workerVars, networkVars, out>>
  BY DEF Receive
<1>2. /\ m.conn \in ConnIds /\ m.id \in PackageIds
      /\ serviceOf[m.conn] \in ServiceIds \cup {Nobody}
  BY DEF IInv, Types, TypeOK
<1>3. /\ new \in InMessages /\ new.kind = "package" /\ new.conn = m.conn /\ new.id = m.id
      /\ new.service = serviceOf[m.conn]
  BY <1>2 DEF InMessages
<1> HIDE DEF new
<1>4. in \in Seq(InMessages)
  BY DEF IInv, Types
<1>5. /\ in' \in Seq(InMessages)
      /\ \A k \in DOMAIN in : k \in DOMAIN in' /\ in'[k] = in[k]
      /\ \A k \in DOMAIN in' : k \in DOMAIN in \/ in'[k] = new
  BY <1>1, <1>3, <1>4, AppendIs
<1>6. Types' /\ NodesServed' /\ ConnectionsFit'
  BY <1>1, <1>5
  DEF IInv, Types, TypeOK, NodesServed, ConnectionsFit, IsOpen, workerVars, networkVars
<1>7. RegistrationsFit'
  <2>1. \A k \in DOMAIN in' : in'[k].kind = "registered" => IsRegistered(k) /\ in'[k] = in[k]
    BY <1>3, <1>5 DEF IsRegistered
  <2> QED
    BY <1>1, <2>1 DEF IInv, RegistrationsFit, IsRegistered, workerVars, networkVars
<1>8. /\ m.id \in DOMAIN asked /\ m.conn \in DOMAIN peer
      /\ serviceOf[m.conn] = asked[m.id].service /\ peer[m.conn] = asked[m.id].address
  BY <1>1 DEF IInv, PackagesFit, ConnectionsFit
<1>9. \A k \in DOMAIN in' : in'[k].kind = "package" =>
          /\ in'[k].id \in DOMAIN asked
          /\ in'[k].conn \in DOMAIN peer
          /\ in'[k].service = asked[in'[k].id].service
          /\ peer[in'[k].conn] = asked[in'[k].id].address
  BY <1>3, <1>5, <1>8 DEF IInv, PackagesFit
<1>10. PackagesFit'
  BY <1>1, <1>9 DEF IInv, PackagesFit, IsOpen, workerVars, networkVars
<1> QED
  BY <1>6, <1>7, <1>10 DEF IInv

LEMMA CloseKeeps == ASSUME IInv, NEW c \in conns, BeginClose(c) \/ Destroy(c) PROVE IInv'
<1>1. /\ conns' \subseteq conns /\ closing' \subseteq conns'
      /\ atPeer' \subseteq atPeer
      /\ \A m \in atPeer' : m.conn \in conns'
      /\ \A x \in conns' : x \notin closing' => IsOpen(x)
      /\ UNCHANGED <<workerVars, services, connOf, serviceOf, peer, in, out>>
  BY DEF BeginClose, Destroy, IsOpen, IInv, Types, TypeOK, PackagesFit
<1>2. Types'
  BY <1>1 DEF IInv, Types, TypeOK, workerVars
<1>3. NodesServed' /\ RegistrationsFit'
  BY <1>1 DEF IInv, NodesServed, RegistrationsFit, IsRegistered, workerVars
<1>4. ConnectionsFit'
  BY <1>1 DEF IInv, ConnectionsFit, IsOpen
<1>5. PackagesFit'
  BY <1>1 DEF IInv, PackagesFit, IsOpen, workerVars
<1> QED
  BY <1>2, <1>3, <1>4, <1>5 DEF IInv

-----------------------------------------------------------------------------
(* The theorems *)

\* The invariant that the nodes, the two maps of the network thread and the packages
\* under way keep between them.
THEOREM ServicesInvariant == Spec => []IInv
<1>1. IInv /\ [Next]_vars => IInv'
  <2> SUFFICES ASSUME IInv, [Next]_vars PROVE IInv'
    OBVIOUS
  <2>1. CASE UNCHANGED vars
    BY <2>1
    DEF IInv, Types, TypeOK, NodesServed, RegistrationsFit, IsRegistered, ConnectionsFit,
        PackagesFit, IsOpen, vars, workerVars, networkVars
  <2>2. CASE Worker
    BY <2>2, TakeRegisteredKeeps, TakeAnswerKeeps DEF Worker
  <2>3. CASE Network
    BY <2>3, RegisterServiceKeeps, SendNothingKeeps, SendKeeps, ReconnectKeeps DEF Network
  <2> QED
    BY <2>1, <2>2, <2>3, AskKeeps, ReceiveKeeps, CloseKeeps DEF Next
<1> QED
  BY InitInvariant, <1>1, PTL DEF Spec

\* Every variable holds values of its type, however many services are registered.
THEOREM ServicesTypeCorrect == Spec => []TypeOK
<1>1. IInv => TypeOK
  BY DEF IInv, Types
<1> QED
  BY <1>1, ServicesInvariant, PTL

\* StorageNodeManager and NetworkServiceManager: a node has the service of its own
\* address or none yet, no address has two nodes, and a service has one open
\* connection at most, to its own address, however registrations, restored nodes
\* and reconnections interleave.
THEOREM ServicesAlwaysMatch == Spec => []ServicesMatch
<1>1. IInv => ServicesMatch
  <2> SUFFICES ASSUME IInv PROVE ServicesMatch
    OBVIOUS
  <2>1. \A n \in DOMAIN nodes : nodes[n].service # Nobody =>
           services[nodes[n].service] = nodes[n].address
    BY DEF IInv, NodesServed
  <2>2. \A n, k \in DOMAIN nodes : nodes[n].address = nodes[k].address => n = k
    BY DEF IInv, NodesServed
  <2>3. ASSUME NEW c \in conns \ closing
        PROVE  \E s \in DOMAIN services : connOf[s] = c /\ peer[c] = services[s]
    <3>1. serviceOf[c] \in DOMAIN services /\ connOf[serviceOf[c]] = c
      BY <2>3 DEF IInv, ConnectionsFit, IsOpen
    <3>2. c \in ConnIds /\ c # Nobody
      BY <2>3, IdsAre DEF IInv, Types, TypeOK
    <3>3. serviceOf[c] \in ServiceIds
      BY <3>1, <3>2, TypesGive, IdsAre DEF IInv, Types, TypeOK
    <3> QED
      BY <3>1, <3>2, <3>3 DEF IInv, ConnectionsFit
  <2> QED
    BY <2>1, <2>2, <2>3 DEF IInv, Types, ServicesMatch
<1> QED
  BY <1>1, ServicesInvariant, PTL

\* trigger_transaction's is_fit_network: an answer carries the service its transaction
\* waits for and comes from the node that was asked, whatever was reconnected since.
THEOREM AnswersAlwaysFit == Spec => []AnswersFit
<1>1. IInv => AnswersFit
  BY DEF IInv, PackagesFit, AnswersFit
<1> QED
  BY <1>1, ServicesInvariant, PTL

=============================================================================
