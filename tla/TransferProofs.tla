--------------------------- MODULE TransferProofs ---------------------------
(***************************************************************************)
(* Theorems about Transfer, for any number of users, paths, files, commands *)
(* and faults: what is acknowledged is stored, each fragment is written    *)
(* once and in order, and the server only crashes after a request failed;  *)
(* while nothing disturbs it, a finished put is stored as a whole and a    *)
(* get ends with a copy.                                                   *)
(***************************************************************************)
EXTENDS Transfer, Functions, FunctionTheorems, FiniteSetTheorems, SequenceTheorems, TLAPS

\* What is on the way from a client to the server ...
RequestType ==
    [kind : {"putSession"}, path : Paths, max : Nat]
    \cup [kind : {"getSession", "remove"}, path : Paths]
    \cup [kind : {"put"}, session : Nat, index : Nat, data : Files \X Nat]
    \cup [kind : {"get"}, session : Nat, index : Nat]

\* ... and back;
Data == (Files \X Nat) \cup {Hole}
WaitKinds == {"putSession", "getSession", "put", "get"}
AnswerType ==
    [kind : WaitKinds, ok : {FALSE}]
    \cup [kind : {"putSession"}, ok : {TRUE}, session : Nat, next : Nat]
    \cup [kind : {"getSession"}, ok : {TRUE}, session : Nat, max : Nat]
    \cup [kind : {"put"}, ok : {TRUE}, index : Nat]
    \cup [kind : {"get"}, ok : {TRUE}, index : Nat, data : Seq(Data)]

\* what is on the way from the server to the storage node ...
OrderType ==
    [kind : {"putSession"}, trans : Nat, name : Names, max : Nat]
    \cup [kind : {"getSession"}, trans : Nat, name : Names]
    \cup [kind : {"put"}, trans : Nat, node : Nat, index : Nat, data : Files \X Nat, of : Nat]
    \cup [kind : {"get"}, trans : Nat, node : Nat, index : Nat]

\* ... and back.
ResultType ==
    [trans : Nat, ok : {FALSE}]
    \cup [trans : Nat, ok : {TRUE}, node : Nat]
    \cup [trans : Nat, ok : {TRUE}, node : Nat, max : Nat]
    \cup [trans : Nat, ok : {TRUE}, index : Nat]
    \cup [trans : Nat, ok : {TRUE}, index : Nat, data : Seq(Data)]

WaitType == [id : Nat, kind : WaitKinds, user : Users, session : Nat, path : Paths]

PutType == [typed : BOOLEAN, path : Paths \cup {""}, file : Files \cup {""},
            max : Nat, session : Nat]

ClientTypes ==
    /\ put \in [Users -> PutType]
    /\ \A u \in Users : put[u].typed \/ put[u].max > 0 =>
          put[u].file \in Files /\ put[u].path \in Paths
    /\ get \in [Users -> [path : Paths \cup {""}, max : Nat, session : Nat]]
    /\ local \in [Users -> [Paths -> Seq(Data)]]
    /\ meta \in [Users -> [Paths -> Nat]]

LinkTypes ==
    /\ c2s \in [Users -> Seq(RequestType)]
    /\ s2c \in [Users -> Seq(AnswerType)]

ServerTypes ==
    /\ online \subseteq Users
    /\ tree \subseteq Paths
    /\ sessions \in Seq(SessionType)
    /\ index \in [Paths -> Nat]
    /\ \A p \in Paths : index[p] <= Len(sessions)
    /\ waits \subseteq WaitType
    /\ nextTrans \in Nat
    /\ \A w \in waits : w.id < nextTrans /\ w.session \in DOMAIN sessions

NodeTypes ==
    /\ nodeSessions \in Seq(NodeSessionType)
    /\ opened \subseteq files
    /\ files \subseteq Names
    /\ disk \in [Names -> Seq(Data)]
    /\ s2n \in Seq(OrderType)
    /\ n2s \in Seq(ResultType)

\* The answer of the node to a transaction is of the kind it waits for.
ResultFor(w, m) ==
    m.ok => CASE w.kind = "putSession" -> m.node \in Nat
              [] w.kind = "getSession" -> m.node \in Nat /\ m.max \in Nat
              [] w.kind = "put" -> m.index \in Nat
              [] w.kind = "get" -> m.index \in Nat /\ m.data \in Seq(Data)

Messages(list) == {list[i] : i \in DOMAIN list}

\* Transactions are numbered, and the messages of each are of its kind.
Matched ==
    /\ \A v, w \in waits : v.id = w.id => v = w
    /\ \A m \in Messages(s2n) :
          m.trans < nextTrans /\ \A w \in waits : w.id = m.trans => w.kind = m.kind
    /\ \A m \in Messages(n2s) :
          m.trans < nextTrans /\ \A w \in waits : w.id = m.trans => ResultFor(w, m)

\* A client has a path for what it asked to get.
GetsAsked ==
    \A u \in Users : get[u].path \notin Paths =>
        /\ \A m \in Messages(c2s[u]) : m.kind \notin {"getSession", "get"}
        /\ \A m \in Messages(s2c[u]) : m.kind \notin {"getSession", "get"}
        /\ \A w \in waits : w.user = u => w.kind \notin {"getSession", "get"}

\* Every request is on its way, with the node, or its answer is on the way.
Awaited(list) == Cardinality({i \in DOMAIN list : list[i].kind # "remove"})
WaitsOf(u) == {w \in waits : w.user = u}
Load(u) == Awaited(c2s[u]) + Cardinality(WaitsOf(u)) + Len(s2c[u])
Counted ==
    /\ IsFiniteSet(waits)
    /\ unanswered \in [Users -> Nat]
    /\ \A u \in Users : unanswered[u] >= Load(u)

\* A fragment is sent under its own index.
IsFragment(m) == m.data = Fragment(m.data[1], m.index)
Fragments ==
    /\ \A u \in Users : \A m \in Messages(c2s[u]) : m.kind = "put" => IsFragment(m)
    /\ \A m \in Messages(s2n) : m.kind = "put" => IsFragment(m)

\* The sessions of the server are found under their paths.
IsFor(s, p) == sessions[s].type # "none" => sessions[s].path = p
PathsFit ==
    /\ \A p \in Paths : index[p] # 0 => IsFor(index[p], p)
    /\ \A w \in waits : IsFor(w.session, w.path)

\* Until the storage node is started again, its sessions are for the files that the
\* server means, and what it said it has stored is there.
NodeIs(n, p) ==
    n # 0 =>
        /\ n \in DOMAIN nodeSessions
        /\ nodeSessions[n].type = "file" => nodeSessions[n].name = FileName[p]
Stored(name, i) ==
    /\ i < Len(disk[name])
    /\ \E f \in Files : disk[name][i + 1] = Fragment(f, i)

OrderFits(w, m) ==
    /\ m.kind \in {"putSession", "getSession"} => m.name = FileName[w.path]
    /\ m.kind \in {"put", "get"} => NodeIs(m.node, w.path)
ResultFits(w, m) ==
    m.ok =>
        /\ w.kind \in {"putSession", "getSession"} => NodeIs(m.node, w.path)
        /\ w.kind = "put" => Stored(FileName[w.path], m.index)

Kept ==
    /\ \A n \in Names \ opened : disk[n] = <<>>
    /\ \A s \in DOMAIN sessions : sessions[s].type # "none" =>
          NodeIs(sessions[s].node, sessions[s].path)
    /\ \A w \in waits : \A m \in Messages(s2n) : m.trans = w.id => OrderFits(w, m)
    /\ \A w \in waits : \A m \in Messages(n2s) : m.trans = w.id => ResultFits(w, m)
    /\ \A a \in acked : Stored(a.name, a.index)

KeptUntilRestart ==
    /\ restarts \in Nat
    /\ acked \subseteq [name : Names, index : Nat]
    /\ restarts = 0 => Kept

Types == ClientTypes /\ LinkTypes /\ ServerTypes /\ NodeTypes /\ Matched /\ GetsAsked

-----------------------------------------------------------------------------
(* Sequences and their messages *)

LEMMA Appended ==
    ASSUME NEW S, NEW list \in Seq(S), NEW x \in S
    PROVE  /\ Append(list, x) \in Seq(S)
           /\ Messages(Append(list, x)) = Messages(list) \cup {x}
<1> DEFINE n == Len(list)
           more == Append(list, x)
<1>1. n \in Nat /\ DOMAIN list = 1 .. n
  OBVIOUS
<1>2. /\ more \in Seq(S) /\ Len(more) = n + 1
      /\ \A i \in 1 .. n : more[i] = list[i]
      /\ more[n + 1] = x
  BY AppendProperties
<1> HIDE DEF n, more
<1>3. DOMAIN more = 1 .. n + 1
  BY <1>2
<1>4. \A i \in 1 .. n + 1 : i \in 1 .. n \/ i = n + 1
  BY <1>1
<1>5. 1 .. n \subseteq 1 .. n + 1 /\ n + 1 \in 1 .. n + 1
  BY <1>1
<1>6. Messages(more) = Messages(list) \cup {x}
  BY <1>1, <1>2, <1>3, <1>4, <1>5 DEF Messages
<1> QED
  BY <1>2, <1>6 DEF more

LEMMA Concatenated ==
    ASSUME NEW S, NEW a \in Seq(S), NEW b \in Seq(S)
    PROVE  /\ a \o b \in Seq(S)
           /\ Messages(a \o b) = Messages(a) \cup Messages(b)
<1> DEFINE n == Len(a)
           m == Len(b)
           all == a \o b
<1>1. n \in Nat /\ m \in Nat /\ DOMAIN a = 1 .. n /\ DOMAIN b = 1 .. m
  OBVIOUS
<1>2. /\ all \in Seq(S) /\ Len(all) = n + m
      /\ \A i \in 1 .. n + m : all[i] = IF i <= n THEN a[i] ELSE b[i - n]
  BY ConcatProperties
<1> HIDE DEF all, n, m
<1>3. DOMAIN all = 1 .. n + m
  BY <1>2
<1>4. \A i \in 1 .. n : i \in 1 .. n + m /\ all[i] = a[i]
  BY <1>1, <1>2
<1>5. \A i \in 1 .. m : n + i \in 1 .. n + m /\ all[n + i] = b[i]
  <2>1. \A i \in 1 .. m : n + i \in 1 .. n + m /\ ~(n + i <= n) /\ (n + i) - n = i
    BY <1>1
  <2> QED
    BY <1>2, <2>1
<1>6. \A i \in 1 .. n + m : i \in 1 .. n \/ i - n \in 1 .. m
  BY <1>1
<1>7. \A i \in 1 .. n + m : \/ \E j \in 1 .. n : all[i] = a[j]
                            \/ \E j \in 1 .. m : all[i] = b[j]
  <2> SUFFICES ASSUME NEW i \in 1 .. n + m
               PROVE  \/ \E j \in 1 .. n : all[i] = a[j]
                      \/ \E j \in 1 .. m : all[i] = b[j]
    OBVIOUS
  <2>1. CASE i \in 1 .. n
    BY <1>4, <2>1
  <2>2. CASE i \notin 1 .. n
    <3>1. i - n \in 1 .. m /\ ~(i <= n)
      BY <1>1, <1>6, <2>2
    <3>2. all[i] = b[i - n]
      BY <1>2, <3>1
    <3> QED
      BY <3>1, <3>2
  <2> QED
    BY <2>1, <2>2
<1>8. Messages(all) = Messages(a) \cup Messages(b)
  <2>1. Messages(all) \subseteq Messages(a) \cup Messages(b)
    BY <1>1, <1>3, <1>7 DEF Messages
  <2>2. Messages(a) \subseteq Messages(all)
    BY <1>1, <1>3, <1>4 DEF Messages
  <2>3. Messages(b) \subseteq Messages(all)
    BY <1>1, <1>3, <1>5 DEF Messages
  <2> QED
    BY <2>1, <2>2, <2>3
<1> QED
  BY <1>2, <1>8 DEF all

LEMMA HeadTaken ==
    ASSUME NEW S, NEW list \in Seq(S), list # <<>>
    PROVE  /\ Head(list) \in S /\ Head(list) \in Messages(list) /\ Head(list) = list[1]
           /\ Tail(list) \in Seq(S) /\ Len(Tail(list)) = Len(list) - 1
           /\ \A i \in DOMAIN Tail(list) : i + 1 \in DOMAIN list /\ Tail(list)[i] = list[i + 1]
           /\ Messages(Tail(list)) \subseteq Messages(list)
           /\ Messages(list) \subseteq S /\ Len(list) \in Nat \ {0}
<1>1. /\ Len(list) \in Nat \ {0} /\ Head(list) = list[1] /\ Head(list) \in S
      /\ Tail(list) \in Seq(S) /\ Len(Tail(list)) = Len(list) - 1
      /\ \A i \in 1 .. Len(list) - 1 : Tail(list)[i] = list[i + 1]
  BY EmptySeq, HeadTailProperties
<1>2. DOMAIN list = 1 .. Len(list) /\ \A i \in 1 .. Len(list) : list[i] \in S
  OBVIOUS
<1> DEFINE rest == Tail(list)
           n == Len(list)
<1> HIDE DEF rest, n
<1>3. DOMAIN rest = 1 .. n - 1
  BY <1>1 DEF rest, n
<1>4. \A i \in 1 .. n - 1 : i + 1 \in 1 .. n /\ rest[i] = list[i + 1]
  BY <1>1 DEF rest, n
<1>5. 1 \in 1 .. n
  BY <1>1 DEF n
<1>6. DOMAIN list = 1 .. n
  BY <1>2 DEF n
<1>7. Messages(rest) \subseteq Messages(list)
  BY <1>3, <1>4, <1>6 DEF Messages
<1>8. Head(list) \in Messages(list)
  BY <1>1, <1>5, <1>6 DEF Messages
<1>9. Messages(list) \subseteq S
  BY <1>2 DEF Messages
<1> QED
  BY <1>1, <1>3, <1>4, <1>6, <1>7, <1>8, <1>9 DEF rest

LEMMA Cut ==
    ASSUME NEW S, NEW list \in Seq(S), NEW k \in 0 .. Len(list)
    PROVE  /\ SubSeq(list, k + 1, Len(list)) \in Seq(S)
           /\ Messages(SubSeq(list, k + 1, Len(list))) \subseteq Messages(list)
           /\ \A i \in DOMAIN SubSeq(list, k + 1, Len(list)) :
                 /\ k + i \in DOMAIN list /\ i \in Nat
                 /\ SubSeq(list, k + 1, Len(list))[i] = list[k + i]
           /\ SubSeq(list, 1, k) \in Seq(S)
           /\ Messages(SubSeq(list, 1, k)) \subseteq Messages(list)
<1> DEFINE n == Len(list)
           last == SubSeq(list, k + 1, n)
           first == SubSeq(list, 1, k)
<1>1. n \in Nat /\ k \in Nat /\ k <= n /\ DOMAIN list = 1 .. n /\ \A i \in 1 .. n : list[i] \in S
  OBVIOUS
<1>2. /\ last \in Seq(S) /\ Len(last) = n - k
      /\ \A i \in 1 .. n - k : last[i] = list[k + i]
  <2>1. /\ \A i \in k + 1 .. n : list[i] \in S
        /\ Len(last) = IF k + 1 <= n THEN n - (k + 1) + 1 ELSE 0
        /\ \A i \in 1 .. n - (k + 1) + 1 : last[i] = list[(k + 1) + i - 1]
    BY <1>1, SubSeqProperties
  <2>2. last \in Seq(S)
    BY <1>1, SubSeqProperties
  <2>3. n - (k + 1) + 1 = n - k
    BY <1>1
  <2>4. Len(last) = n - k
    BY <1>1, <2>1, <2>3
  <2>5. \A i \in 1 .. n - k : last[i] = list[k + i]
    <3>1. \A i \in 1 .. n - k : (k + 1) + i - 1 = k + i
      BY <1>1
    <3> QED
      BY <2>1, <2>3, <3>1
  <2> QED
    BY <2>2, <2>4, <2>5
<1>3. /\ first \in Seq(S) /\ Len(first) = k
      /\ \A i \in 1 .. k : first[i] = list[i]
  <2>1. \A i \in 1 .. k : list[i] \in S
    BY <1>1
  <2>2. /\ first \in Seq(S) /\ Len(first) = IF 1 <= k THEN k - 1 + 1 ELSE 0
        /\ \A i \in 1 .. k - 1 + 1 : first[i] = list[1 + i - 1]
    BY <1>1, <2>1, SubSeqProperties
  <2>3. Len(first) = k /\ k - 1 + 1 = k /\ \A i \in 1 .. k : 1 + i - 1 = i
    BY <1>1, <2>2
  <2> QED
    BY <2>2, <2>3
<1> HIDE DEF last, first, n
<1>4. DOMAIN last = 1 .. n - k /\ DOMAIN first = 1 .. k
  BY <1>1, <1>2, <1>3
<1>5. \A i \in 1 .. n - k : k + i \in 1 .. n /\ i \in Nat
  BY <1>1
<1>6. \A i \in 1 .. k : i \in 1 .. n
  BY <1>1
<1>7. Messages(last) \subseteq Messages(list)
  BY <1>1, <1>2, <1>4, <1>5 DEF Messages
<1>8. Messages(first) \subseteq Messages(list)
  BY <1>1, <1>3, <1>4, <1>6 DEF Messages
<1> QED
  BY <1>1, <1>2, <1>3, <1>4, <1>5, <1>7, <1>8 DEF last, first, n

-----------------------------------------------------------------------------
(* The fields of messages *)

LEMMA RequestFields ==
    ASSUME NEW m \in RequestType
    PROVE  /\ m.kind \in WaitKinds \cup {"remove"}
           /\ m.kind \in {"putSession", "getSession", "remove"} => m.path \in Paths
           /\ m.kind = "putSession" => m.max \in Nat
           /\ m.kind \in {"put", "get"} => m.session \in Nat /\ m.index \in Nat
           /\ m.kind = "put" => m.data \in Files \X Nat
BY DEF RequestType, WaitKinds

LEMMA OrderFields ==
    ASSUME NEW m \in OrderType
    PROVE  /\ m.kind \in WaitKinds /\ m.trans \in Nat
           /\ m.kind \in {"putSession", "getSession"} => m.name \in Names
           /\ m.kind = "putSession" => m.max \in Nat
           /\ m.kind \in {"put", "get"} => m.node \in Nat /\ m.index \in Nat
           /\ m.kind = "put" => m.data \in Files \X Nat /\ m.of \in Nat
BY DEF OrderType, WaitKinds

LEMMA AnswerFields ==
    ASSUME NEW m \in AnswerType
    PROVE  /\ m.kind \in WaitKinds /\ m.ok \in BOOLEAN
           /\ m.ok /\ m.kind = "putSession" => m.session \in Nat /\ m.next \in Nat
           /\ m.ok /\ m.kind = "getSession" => m.session \in Nat /\ m.max \in Nat
           /\ m.ok /\ m.kind \in {"put", "get"} => m.index \in Nat
           /\ m.ok /\ m.kind = "get" => m.data \in Seq(Data)
<1>1. m.kind \in WaitKinds /\ m.ok \in BOOLEAN
  BY DEF AnswerType, WaitKinds
<1>2. CASE m \in [kind : WaitKinds, ok : {FALSE}]
  BY <1>1, <1>2
<1>3. CASE m \notin [kind : WaitKinds, ok : {FALSE}]
  BY <1>1, <1>3 DEF AnswerType, WaitKinds
<1> QED
  BY <1>2, <1>3

LEMMA ResultFields ==
    ASSUME NEW m \in ResultType
    PROVE  m.trans \in Nat /\ m.ok \in BOOLEAN
BY DEF ResultType

LEMMA SessionFields ==
    ASSUME NEW s \in SessionType
    PROVE  /\ s.type \in {"none", "put", "get"}
           /\ s.type # "none" => s.user \in Users /\ s.path \in Paths /\ s.node \in Nat
           /\ s.type = "put" => s.max \in Nat /\ s.next \in Nat
BY DEF SessionType, NoSession

LEMMA NodeSessionFields ==
    ASSUME NEW s \in NodeSessionType
    PROVE  /\ s.type \in {"none", "file"}
           /\ s.type = "file" => s.name \in Names /\ s.max \in Nat
BY DEF NodeSessionType, NoSession

LEMMA FailureTyped ==
    ASSUME NEW kind \in WaitKinds
    PROVE  [kind |-> kind, ok |-> FALSE] \in AnswerType
BY DEF AnswerType

-----------------------------------------------------------------------------
(* Types: what a step leaves alone *)

LEMMA ClientSame ==
    ClientTypes /\ UNCHANGED clientVars => ClientTypes'
BY DEF ClientTypes, clientVars

LEMMA ServerSame ==
    ServerTypes /\ UNCHANGED <<online, tree, sessions, index, waits, nextTrans>> => ServerTypes'
BY DEF ServerTypes

LEMMA NodeSame ==
    NodeTypes /\ UNCHANGED <<nodeVars, links>> => NodeTypes'
BY DEF NodeTypes, nodeVars, links

LEMMA MatchedSame ==
    Matched /\ UNCHANGED <<links, waits, nextTrans>> => Matched'
BY DEF Matched, links, ResultFor

-----------------------------------------------------------------------------
(* Types: the client *)

\* A step that changes no message, transaction or path but those it says.
LEMMA AnsweredLinks ==
    ASSUME LinkTypes, NEW u \in Users, NEW requests \in Seq(RequestType), Answered(u, requests)
    PROVE  /\ LinkTypes'
           /\ Head(s2c[u]) \in AnswerType /\ Head(s2c[u]) \in Messages(s2c[u])
           /\ \A x \in Users : Messages(s2c'[x]) \subseteq Messages(s2c[x])
           /\ Messages(c2s'[u]) = Messages(c2s[u]) \cup Messages(requests)
           /\ \A x \in Users \ {u} : c2s'[x] = c2s[x]
           /\ Len(s2c'[u]) = Len(s2c[u]) - 1 /\ \A x \in Users \ {u} : s2c'[x] = s2c[x]
<1>1. /\ s2c[u] # <<>> /\ s2c' = [s2c EXCEPT ![u] = Tail(@)]
      /\ c2s' = [c2s EXCEPT ![u] = @ \o requests]
  BY DEF Answered
<1>2. s2c[u] \in Seq(AnswerType) /\ c2s[u] \in Seq(RequestType)
  BY DEF LinkTypes
<1>3. /\ Head(s2c[u]) \in AnswerType /\ Head(s2c[u]) \in Messages(s2c[u])
      /\ Tail(s2c[u]) \in Seq(AnswerType) /\ Messages(Tail(s2c[u])) \subseteq Messages(s2c[u])
      /\ Len(Tail(s2c[u])) = Len(s2c[u]) - 1
  BY <1>1, <1>2, HeadTaken
<1>4. /\ c2s[u] \o requests \in Seq(RequestType)
      /\ Messages(c2s[u] \o requests) = Messages(c2s[u]) \cup Messages(requests)
  BY <1>2, Concatenated
<1> DEFINE more == c2s[u] \o requests
           rest == Tail(s2c[u])
<1>5. s2c' = [s2c EXCEPT ![u] = rest] /\ c2s' = [c2s EXCEPT ![u] = more]
  BY <1>1
<1> HIDE DEF more, rest
<1>6. LinkTypes'
  BY <1>3, <1>4, <1>5 DEF LinkTypes, more, rest
<1>7. s2c'[u] = rest /\ c2s'[u] = more
      /\ \A x \in Users \ {u} : c2s'[x] = c2s[x] /\ s2c'[x] = s2c[x]
  BY <1>5 DEF LinkTypes
<1> QED
  BY <1>3, <1>4, <1>6, <1>7 DEF more, rest

\* The handlers of answers, given what they send and what becomes of the client.
LEMMA AnsweredTypes ==
    ASSUME Types, NEW u \in Users, NEW requests \in Seq(RequestType), Answered(u, requests),
           ClientTypes',
           \A x \in Users : get'[x].path = get[x].path,
           \A m \in Messages(requests) :
               m.kind \in {"getSession", "get"} => get[u].path \in Paths
    PROVE  Types'
<1>1. LinkTypes' /\ ServerTypes' /\ NodeTypes' /\ Matched'
  BY AnsweredLinks, ServerSame, NodeSame, MatchedSame
     DEF Types, Answered, serverVars, sessionVars
<1>2. /\ \A x \in Users : Messages(s2c'[x]) \subseteq Messages(s2c[x])
      /\ Messages(c2s'[u]) = Messages(c2s[u]) \cup Messages(requests)
      /\ \A x \in Users \ {u} : c2s'[x] = c2s[x]
      /\ UNCHANGED waits
  BY AnsweredLinks DEF Types, Answered, serverVars
<1>3. GetsAsked'
  BY <1>2 DEF Types, GetsAsked
<1> QED
  BY <1>1, <1>3 DEF Types

LEMMA ClientFields ==
    ASSUME ClientTypes, NEW u \in Users
    PROVE  /\ put[u].max \in Nat
           /\ put[u].typed \/ put[u].max > 0 => put[u].file \in Files /\ put[u].path \in Paths
           /\ \A p \in Paths : local[u][p] \in Seq(Data) /\ meta[u][p] \in Nat
BY DEF ClientTypes, PutType

LEMMA NoRequests ==
    <<>> \in Seq(RequestType) /\ Messages(<<>>) = {}
BY DEF Messages

LEMMA ReadErrorTypes ==
    ASSUME Types, NEW u \in Users, ReadError(u)
    PROVE  Types'
<1>1. ClientTypes' /\ get' = get
  BY ClientSame DEF Types, ReadError, clientVars
<1> QED
  BY <1>1, NoRequests, AnsweredTypes DEF ReadError

LEMMA ReadPutTypes ==
    ASSUME Types, NEW u \in Users, ReadPut(u)
    PROVE  Types'
<1>1. ClientTypes' /\ get' = get
  BY ClientSame DEF Types, ReadPut, clientVars
<1> QED
  BY <1>1, NoRequests, AnsweredTypes DEF ReadPut

\* The fragments that are left of a file, each under its own index.
LEMMA RemainingTyped ==
    ASSUME ClientTypes, NEW u \in Users, NEW s \in Nat, NEW next \in Nat
    PROVE  /\ Remaining(u, s, next) \in Seq(RequestType)
           /\ \A m \in Messages(Remaining(u, s, next)) : m.kind = "put" /\ IsFragment(m)
<1> DEFINE n == IF put[u].max > next THEN put[u].max - next ELSE 0
           File == put[u].file
           One(k) == [kind |-> "put", session |-> s, index |-> next + k - 1,
                      data |-> <<File, next + k - 1>>]
           list == [k \in 1 .. n |-> One(k)]
<1>1. Remaining(u, s, next) = list
  BY DEF Remaining, Fragment
<1>2. put[u].max \in Nat /\ (put[u].max > 0 => File \in Files)
  BY ClientFields
<1> HIDE DEF File
<1>3. n \in Nat /\ \A k \in 1 .. n : put[u].max > 0 /\ next + k - 1 \in Nat
  <2> DEFINE max == put[u].max
  <2>1. max \in Nat
    BY <1>2
  <2> HIDE DEF max
  <2>2. CASE max > next
    BY <2>1, <2>2 DEF max
  <2>3. CASE ~(max > next)
    <3>1. n = 0
      BY <2>3 DEF max
    <3> QED
      BY <3>1
  <2> QED
    BY <2>2, <2>3
<1> HIDE DEF n
<1>7. \A k \in 1 .. n : One(k) \in RequestType
  <2> SUFFICES ASSUME NEW k \in 1 .. n
               PROVE  One(k) \in RequestType
    OBVIOUS
  <2> DEFINE i == next + k - 1
  <2>1. i \in Nat /\ File \in Files
    BY <1>2, <1>3
  <2> HIDE DEF i
  <2>2. [kind |-> "put", session |-> s, index |-> i, data |-> <<File, i>>] \in RequestType
    BY <2>1 DEF RequestType
  <2> QED
    BY <2>2 DEF i
<1>4. \A k \in 1 .. n : One(k).kind = "put" /\ IsFragment(One(k))
  BY DEF IsFragment, Fragment
<1> HIDE DEF One
<1>5. list \in Seq(RequestType)
  BY <1>3, <1>7
<1>6. \A m \in Messages(list) : \E k \in 1 .. n : m = One(k)
  BY DEF Messages
<1> QED
  BY <1>1, <1>4, <1>5, <1>6

LEMMA ReadPutSessionTypes ==
    ASSUME Types, NEW u \in Users, ReadPutSession(u)
    PROVE  Types'
<1> DEFINE m == Head(s2c[u])
<1>1. /\ s2c[u] # <<>> /\ m.ok /\ m.kind = "putSession"
      /\ put' = [put EXCEPT ![u] = [@ EXCEPT !.session = m.session]]
      /\ Answered(u, Remaining(u, m.session, m.next)) /\ UNCHANGED <<get, local, meta>>
  BY DEF ReadPutSession
<1>2. m \in AnswerType
  BY <1>1, HeadTaken DEF Types, LinkTypes
<1>3. m.session \in Nat /\ m.next \in Nat
  BY <1>1, <1>2, AnswerFields
<1>4. /\ Remaining(u, m.session, m.next) \in Seq(RequestType)
      /\ \A r \in Messages(Remaining(u, m.session, m.next)) : r.kind = "put"
  BY <1>3, RemainingTyped DEF Types
<1> HIDE DEF m
<1>5. ClientTypes'
  <2> DEFINE new == [put[u] EXCEPT !.session = m.session]
  <2>1. put \in [Users -> PutType]
    BY DEF Types, ClientTypes
  <2>2. /\ new \in PutType /\ new.typed = put[u].typed /\ new.max = put[u].max
        /\ new.file = put[u].file /\ new.path = put[u].path
    BY <1>3, <2>1 DEF PutType
  <2>3. put' = [put EXCEPT ![u] = new]
    BY <1>1
  <2> HIDE DEF new
  <2>4. put' \in [Users -> PutType] /\ put'[u] = new /\ \A x \in Users \ {u} : put'[x] = put[x]
    BY <2>1, <2>2, <2>3
  <2> QED
    BY <1>1, <2>2, <2>4 DEF Types, ClientTypes
<1> QED
  BY <1>1, <1>4, <1>5, AnsweredTypes

LEMMA WantedTyped ==
    ASSUME ClientTypes, NEW u \in Users, NEW s \in Nat, NEW max \in Nat, get[u].path \in Paths
    PROVE  /\ Wanted(u, s, max) \in Seq(RequestType)
           /\ \A m \in Messages(Wanted(u, s, max)) : m.kind = "get"
<1> DEFINE next == meta[u][get[u].path]
           n == IF max > next THEN max - next ELSE 0
           One(k) == [kind |-> "get", session |-> s, index |-> next + k - 1]
           list == [k \in 1 .. n |-> One(k)]
<1>1. Wanted(u, s, max) = list
  BY DEF Wanted
<1>2. next \in Nat
  BY ClientFields
<1> HIDE DEF next
<1>7. n \in Nat
  BY <1>2
<1>3. \A k \in 1 .. n : One(k) \in RequestType
  <2> SUFFICES ASSUME NEW k \in 1 .. n
               PROVE  One(k) \in RequestType
    OBVIOUS
  <2> DEFINE i == next + k - 1
  <2>1. i \in Nat
    BY <1>2
  <2> HIDE DEF i
  <2>2. [kind |-> "get", session |-> s, index |-> i] \in RequestType
    BY <2>1 DEF RequestType
  <2> QED
    BY <2>2 DEF i
<1>4. \A k \in 1 .. n : One(k).kind = "get"
  OBVIOUS
<1> HIDE DEF n, One
<1>5. list \in Seq(RequestType)
  BY <1>7, <1>3
<1>6. \A m \in Messages(list) : \E k \in 1 .. n : m = One(k)
  BY DEF Messages
<1> QED
  BY <1>1, <1>4, <1>5, <1>6 DEF next

LEMMA ReadGetSessionTypes ==
    ASSUME Types, NEW u \in Users, ReadGetSession(u)
    PROVE  Types'
<1> DEFINE m == Head(s2c[u])
<1>1. /\ s2c[u] # <<>> /\ m.ok /\ m.kind = "getSession"
      /\ get' = [get EXCEPT ![u] = [@ EXCEPT !.session = m.session, !.max = m.max]]
      /\ Answered(u, Wanted(u, m.session, m.max)) /\ UNCHANGED <<put, local, meta>>
  BY DEF ReadGetSession
<1>2. m \in AnswerType /\ m \in Messages(s2c[u])
  BY <1>1, HeadTaken DEF Types, LinkTypes
<1>3. m.session \in Nat /\ m.max \in Nat /\ get[u].path \in Paths
  BY <1>1, <1>2, AnswerFields DEF Types, GetsAsked
<1>4. Wanted(u, m.session, m.max) \in Seq(RequestType)
  BY <1>3, WantedTyped DEF Types
<1> HIDE DEF m
<1>5. ClientTypes' /\ \A x \in Users : get'[x].path = get[x].path
  BY <1>1, <1>3 DEF Types, ClientTypes
<1> QED
  BY <1>1, <1>3, <1>4, <1>5, AnsweredTypes

LEMMA ReadGetTypes ==
    ASSUME Types, NEW u \in Users, ReadGet(u)
    PROVE  Types'
<1> DEFINE m == Head(s2c[u])
           p == get[u].path
<1>1. /\ s2c[u] # <<>> /\ m.ok /\ m.kind = "get"
      /\ local' = [local EXCEPT ![u][p] = @ \o m.data]
      /\ meta' = IF m.index + 1 < get[u].max THEN [meta EXCEPT ![u][p] = m.index + 1] ELSE meta
      /\ Answered(u, <<>>) /\ UNCHANGED <<put, get>>
  BY DEF ReadGet
<1>2. m \in AnswerType /\ m \in Messages(s2c[u])
  BY <1>1, HeadTaken DEF Types, LinkTypes
<1>3. m.data \in Seq(Data) /\ m.index \in Nat /\ p \in Paths
  BY <1>1, <1>2, AnswerFields DEF Types, GetsAsked
<1> HIDE DEF m, p
<1> DEFINE more == local[u][p] \o m.data
           next == m.index + 1
<1>4. more \in Seq(Data) /\ next \in Nat
  BY <1>3, ClientFields, Concatenated DEF Types
<1>8. /\ local' = [local EXCEPT ![u][p] = more]
      /\ meta' \in {[meta EXCEPT ![u][p] = next], meta}
  BY <1>1
<1> HIDE DEF more, next
<1>5. local' \in [Users -> [Paths -> Seq(Data)]]
  BY <1>3, <1>4, <1>8 DEF Types, ClientTypes
<1>6. meta' \in [Users -> [Paths -> Nat]]
  <2>1. meta \in [Users -> [Paths -> Nat]]
    BY DEF Types, ClientTypes
  <2>2. [meta EXCEPT ![u][p] = next] \in [Users -> [Paths -> Nat]]
    BY <1>3, <1>4, <2>1
  <2> QED
    BY <1>8, <2>1, <2>2
<1>7. ClientTypes'
  BY <1>1, <1>5, <1>6 DEF Types, ClientTypes
<1> QED
  BY <1>1, <1>7, NoRequests, AnsweredTypes
-----------------------------------------------------------------------------
(* Types: the console *)

\* A request is entered: nothing but the client that enters it changes.
LEMMA AskedTypes ==
    ASSUME Types, NEW u \in Users, NEW request \in RequestType,
           c2s' = [c2s EXCEPT ![u] = Append(@, request)],
           UNCHANGED <<s2c, serverVars, nodeVars, links>>,
           ClientTypes',
           \A x \in Users : get'[x].path = get[x].path \/ get'[x].path \in Paths,
           request.kind \in {"getSession", "get"} => get'[u].path \in Paths
    PROVE  Types'
<1>1. c2s[u] \in Seq(RequestType)
  BY DEF Types, LinkTypes
<1> DEFINE more == Append(c2s[u], request)
<1>2. more \in Seq(RequestType) /\ Messages(more) = Messages(c2s[u]) \cup {request}
  BY <1>1, Appended
<1>3. c2s' = [c2s EXCEPT ![u] = more]
  OBVIOUS
<1> HIDE DEF more
<1>4. LinkTypes'
  BY <1>2, <1>3 DEF Types, LinkTypes
<1>5. /\ Messages(c2s'[u]) = Messages(c2s[u]) \cup {request}
      /\ \A x \in Users \ {u} : c2s'[x] = c2s[x]
  BY <1>2, <1>3 DEF Types, LinkTypes
<1>6. ServerTypes' /\ NodeTypes' /\ Matched'
  BY ServerSame, NodeSame, MatchedSame DEF Types, serverVars, sessionVars
<1>7. GetsAsked'
  <2>1. UNCHANGED <<s2c, waits>>
    BY DEF serverVars
  <2> QED
    BY <1>5, <2>1 DEF Types, GetsAsked
<1> QED
  BY <1>4, <1>6, <1>7 DEF Types

\* One request is appended as a sequence of one.
LEMMA AskOne ==
    ASSUME LinkTypes, NEW u \in Users, NEW request \in RequestType, Ask(u, <<request>>)
    PROVE  c2s' = [c2s EXCEPT ![u] = Append(@, request)]
<1>1. c2s[u] \in Seq(RequestType)
  BY DEF LinkTypes
<1> DEFINE list == c2s[u]
<1> HIDE DEF list
<1>2. list \in Seq(RequestType)
  BY <1>1 DEF list
<1>3. list \o <<request>> = Append(list, request)
  BY <1>2
<1> QED
  BY <1>3 DEF Ask, list

LEMMA PutCommandTypes ==
    ASSUME Types, NEW u \in Users, NEW f \in Files, NEW p \in Paths, PutCommand(u, f, p)
    PROVE  Types'
<1>1. /\ put' = [put EXCEPT ![u] = [@ EXCEPT !.typed = TRUE, !.path = p, !.file = f]]
      /\ UNCHANGED <<get, local, meta, c2s, s2c, serverVars, nodeVars, links>>
  BY DEF PutCommand, Command
<1>2. put' \in [Users -> PutType]
  <2> DEFINE new == [put[u] EXCEPT !.typed = TRUE, !.path = p, !.file = f]
  <2>1. put \in [Users -> PutType]
    BY DEF Types, ClientTypes
  <2>2. new \in PutType
    BY <2>1 DEF PutType
  <2>3. put' = [put EXCEPT ![u] = new]
    BY <1>1
  <2> HIDE DEF new
  <2> QED
    BY <2>1, <2>2, <2>3
<1>3. \A x \in Users : put'[x].typed \/ put'[x].max > 0 =>
          put'[x].file \in Files /\ put'[x].path \in Paths
  <2> DEFINE new == [put[u] EXCEPT !.typed = TRUE, !.path = p, !.file = f]
  <2>1. put \in [Users -> PutType] /\ put' = [put EXCEPT ![u] = new]
    BY <1>1 DEF Types, ClientTypes
  <2>2. put[u] \in PutType
    BY <2>1
  <2>3. new.file = f /\ new.path = p
    BY <2>2 DEF PutType
  <2> HIDE DEF new
  <2>4. put'[u] = new /\ \A x \in Users \ {u} : put'[x] = put[x]
    BY <2>1
  <2> QED
    BY <2>3, <2>4 DEF Types, ClientTypes
<1>4. ClientTypes'
  BY <1>1, <1>2, <1>3 DEF Types, ClientTypes
<1>5. LinkTypes' /\ ServerTypes' /\ NodeTypes' /\ Matched' /\ GetsAsked'
  BY <1>1, ServerSame, NodeSame, MatchedSame
     DEF Types, serverVars, sessionVars, LinkTypes, GetsAsked
<1> QED
  BY <1>4, <1>5 DEF Types

LEMMA PutRequestTypes ==
    ASSUME Types, NEW u \in Users, PutRequest(u)
    PROVE  Types'
<1> DEFINE size == Size[put[u].file]
           p == put[u].path
           request == [kind |-> "putSession", path |-> p, max |-> size]
<1>1. /\ put[u].typed /\ Ask(u, <<request>>)
      /\ put' = [put EXCEPT ![u] = [@ EXCEPT !.typed = FALSE, !.max = size]]
      /\ UNCHANGED <<get, local, meta, s2c, serverVars, nodeVars, links>>
  BY DEF PutRequest
<1>2. put[u].file \in Files /\ p \in Paths
  BY <1>1, ClientFields DEF Types
<1>3. size \in Nat
  BY <1>2, TransferAssumption
<1> HIDE DEF size, p
<1>4. request \in RequestType /\ request.kind = "putSession"
  BY <1>2, <1>3 DEF RequestType
<1>5. put' \in [Users -> PutType]
  <2> DEFINE new == [put[u] EXCEPT !.typed = FALSE, !.max = size]
  <2>1. put \in [Users -> PutType]
    BY DEF Types, ClientTypes
  <2>2. new \in PutType
    BY <1>3, <2>1 DEF PutType
  <2>3. put' = [put EXCEPT ![u] = new]
    BY <1>1
  <2> HIDE DEF new
  <2> QED
    BY <2>1, <2>2, <2>3
<1>6. \A x \in Users : put'[x].typed \/ put'[x].max > 0 =>
          put'[x].file \in Files /\ put'[x].path \in Paths
  <2>1. /\ put'[u].file = put[u].file /\ put'[u].path = p
        /\ \A x \in Users \ {u} : put'[x] = put[x]
    BY <1>1 DEF Types, ClientTypes, PutType, p
  <2> QED
    BY <1>2, <2>1 DEF Types, ClientTypes
<1>7. ClientTypes'
  BY <1>1, <1>5, <1>6 DEF Types, ClientTypes
<1> HIDE DEF request
<1>8. c2s' = [c2s EXCEPT ![u] = Append(@, request)]
  BY <1>1, <1>4, AskOne DEF Types
<1> QED
  BY <1>1, <1>4, <1>7, <1>8, AskedTypes

LEMMA GetCommandTypes ==
    ASSUME Types, NEW u \in Users, NEW p \in Paths, GetCommand(u, p)
    PROVE  Types'
<1> DEFINE request == [kind |-> "getSession", path |-> p]
<1>1. /\ Ask(u, <<request>>)
      /\ get' = [get EXCEPT ![u] = [@ EXCEPT !.path = p]]
      /\ UNCHANGED <<put, local, meta, s2c, serverVars, nodeVars, links>>
  BY DEF GetCommand, Command
<1>2. request \in RequestType
  BY DEF RequestType
<1>3. ClientTypes' /\ get'[u].path = p /\ \A x \in Users \ {u} : get'[x] = get[x]
  BY <1>1 DEF Types, ClientTypes
<1> HIDE DEF request
<1>4. c2s' = [c2s EXCEPT ![u] = Append(@, request)]
  BY <1>1, <1>2, AskOne DEF Types
<1> QED
  BY <1>1, <1>2, <1>3, <1>4, AskedTypes

LEMMA RemoveCommandTypes ==
    ASSUME Types, NEW u \in Users, NEW p \in Paths, RemoveCommand(u, p)
    PROVE  Types'
<1> DEFINE request == [kind |-> "remove", path |-> p]
<1>1. /\ c2s' = [c2s EXCEPT ![u] = Append(@, request)]
      /\ UNCHANGED <<clientVars, s2c, serverVars, nodeVars, links>>
  BY DEF RemoveCommand, Command
<1>2. request \in RequestType /\ request.kind = "remove"
  BY DEF RequestType
<1>3. ClientTypes' /\ get' = get
  BY <1>1, ClientSame DEF Types, clientVars
<1> HIDE DEF request
<1> QED
  BY <1>1, <1>2, <1>3, AskedTypes
-----------------------------------------------------------------------------
(* Types: the requests the server receives *)

LEMMA ReceivedTypes ==
    ASSUME Types, NEW u \in Users, NEW kind, Received(u, kind)
    PROVE  /\ ClientTypes' /\ UNCHANGED <<get, online, n2s, nodeVars>>
           /\ Head(c2s[u]) \in RequestType /\ Head(c2s[u]) \in Messages(c2s[u])
           /\ Head(c2s[u]).kind = kind
           /\ c2s' \in [Users -> Seq(RequestType)]
           /\ \A x \in Users : Messages(c2s'[x]) \subseteq Messages(c2s[x])
<1>1. /\ c2s[u] # <<>> /\ Head(c2s[u]).kind = kind
      /\ c2s' = [c2s EXCEPT ![u] = Tail(@)]
      /\ UNCHANGED <<clientVars, online, n2s, nodeVars>>
  BY DEF Received
<1>2. c2s \in [Users -> Seq(RequestType)] /\ c2s[u] \in Seq(RequestType)
  BY DEF Types, LinkTypes
<1>3. /\ Head(c2s[u]) \in RequestType /\ Head(c2s[u]) \in Messages(c2s[u])
      /\ Tail(c2s[u]) \in Seq(RequestType) /\ Messages(Tail(c2s[u])) \subseteq Messages(c2s[u])
  BY <1>1, <1>2, HeadTaken
<1> DEFINE rest == Tail(c2s[u])
<1>4. c2s' = [c2s EXCEPT ![u] = rest]
  BY <1>1
<1> HIDE DEF rest
<1>5. /\ c2s' \in [Users -> Seq(RequestType)]
      /\ c2s'[u] = rest /\ \A x \in Users \ {u} : c2s'[x] = c2s[x]
  BY <1>2, <1>3, <1>4 DEF rest
<1>6. \A x \in Users : Messages(c2s'[x]) \subseteq Messages(c2s[x])
  BY <1>3, <1>5 DEF rest
<1>7. ClientTypes' /\ get' = get
  BY <1>1, ClientSame DEF Types, clientVars
<1> QED
  BY <1>1, <1>3, <1>5, <1>6, <1>7

\* An answer of one kind goes to a client.
LEMMA RepliedLinks ==
    ASSUME LinkTypes, NEW u \in Users, NEW answer \in AnswerType,
           s2c' = [s2c EXCEPT ![u] = Append(@, answer)]
    PROVE  /\ s2c' \in [Users -> Seq(AnswerType)]
           /\ Messages(s2c'[u]) = Messages(s2c[u]) \cup {answer}
           /\ Len(s2c'[u]) = Len(s2c[u]) + 1
           /\ \A x \in Users \ {u} : s2c'[x] = s2c[x]
<1>1. s2c \in [Users -> Seq(AnswerType)] /\ s2c[u] \in Seq(AnswerType)
  BY DEF LinkTypes
<1> DEFINE more == Append(s2c[u], answer)
<1>2. /\ more \in Seq(AnswerType) /\ Messages(more) = Messages(s2c[u]) \cup {answer}
      /\ Len(more) = Len(s2c[u]) + 1
  BY <1>1, Appended, AppendProperties
<1>3. s2c' = [s2c EXCEPT ![u] = more]
  OBVIOUS
<1> HIDE DEF more
<1>4. s2c' \in [Users -> Seq(AnswerType)] /\ s2c'[u] = more
      /\ \A x \in Users \ {u} : s2c'[x] = s2c[x]
  BY <1>1, <1>2, <1>3
<1> QED
  BY <1>2, <1>4

LEMMA RefuseTypes ==
    ASSUME Types, NEW u \in Users, NEW kind \in WaitKinds, Received(u, kind), Refuse(u, kind)
    PROVE  Types'
<1> DEFINE answer == [kind |-> kind, ok |-> FALSE]
<1>1. /\ ClientTypes' /\ UNCHANGED <<get, online, n2s, nodeVars>>
      /\ Head(c2s[u]) \in Messages(c2s[u]) /\ Head(c2s[u]).kind = kind
      /\ c2s' \in [Users -> Seq(RequestType)]
      /\ \A x \in Users : Messages(c2s'[x]) \subseteq Messages(c2s[x])
  BY ReceivedTypes
<1>2. /\ s2c' = [s2c EXCEPT ![u] = Append(@, answer)]
      /\ UNCHANGED <<tree, sessions, index, waits, nextTrans, s2n>>
  BY DEF Refuse, sessionVars
<1>3. answer \in AnswerType /\ answer.kind = kind
  BY FailureTyped
<1> HIDE DEF answer
<1>4. /\ s2c' \in [Users -> Seq(AnswerType)]
      /\ Messages(s2c'[u]) = Messages(s2c[u]) \cup {answer}
      /\ \A x \in Users \ {u} : s2c'[x] = s2c[x]
  BY <1>2, <1>3, RepliedLinks DEF Types
<1>5. LinkTypes'
  BY <1>1, <1>4 DEF LinkTypes
<1>6. ServerTypes' /\ NodeTypes' /\ Matched'
  BY <1>1, <1>2, ServerSame, NodeSame, MatchedSame DEF Types, links
<1>7. GetsAsked'
  BY <1>1, <1>2, <1>3, <1>4 DEF Types, GetsAsked
<1> QED
  BY <1>1, <1>5, <1>6, <1>7 DEF Types

\* A transaction begins to wait and its order is sent.
LEMMA WaitMatched ==
    ASSUME ServerTypes, NodeTypes, Matched,
           NEW w, w.id = nextTrans, waits' = waits \cup {w}, nextTrans' = nextTrans + 1,
           NEW order \in OrderType, order.trans = nextTrans, order.kind = w.kind,
           s2n' = Append(s2n, order), UNCHANGED n2s
    PROVE  Matched'
<1>1. Messages(s2n') = Messages(s2n) \cup {order}
  BY Appended DEF NodeTypes
<1>2. nextTrans \in Nat /\ \A v \in waits : v.id \in Nat /\ v.id < nextTrans
  BY DEF ServerTypes, WaitType
<1>3. /\ \A m \in Messages(s2n) : m.trans \in Nat
      /\ \A m \in Messages(n2s) : m.trans \in Nat
  <2>1. \A m \in OrderType : m.trans \in Nat
    BY OrderFields
  <2>2. \A m \in ResultType : m.trans \in Nat
    BY ResultFields
  <2>3. Messages(s2n) \subseteq OrderType /\ Messages(n2s) \subseteq ResultType
    BY DEF NodeTypes, Messages
  <2> QED
    BY <2>1, <2>2, <2>3
<1>4. \A v, x \in waits' : v.id = x.id => v = x
  BY <1>2 DEF Matched
<1>5. \A m \in Messages(s2n') :
          m.trans < nextTrans' /\ \A x \in waits' : x.id = m.trans => x.kind = m.kind
  <2> SUFFICES ASSUME NEW m \in Messages(s2n')
               PROVE  m.trans < nextTrans' /\ \A x \in waits' : x.id = m.trans => x.kind = m.kind
    OBVIOUS
  <2>1. CASE m \in Messages(s2n)
    BY <1>2, <1>3, <2>1 DEF Matched
  <2>2. CASE m = order
    BY <1>2, <2>2
  <2> QED
    BY <1>1, <2>1, <2>2
<1>6. \A m \in Messages(n2s') :
          m.trans < nextTrans' /\ \A x \in waits' : x.id = m.trans => ResultFor(x, m)
  BY <1>2, <1>3 DEF Matched
<1>7. \A x, m : ResultFor(x, m)' = ResultFor(x, m)
  BY DEF ResultFor
<1> QED
  BY <1>4, <1>5, <1>6, <1>7 DEF Matched

LEMMA WaitTypes ==
    ASSUME Types, NEW u \in Users, NEW kind \in WaitKinds, Received(u, kind),
           NEW s \in Nat, NEW p \in Paths, NEW order \in OrderType,
           Wait(u, kind, s, p, order), order.trans = nextTrans, order.kind = kind,
           tree' \subseteq Paths,
           sessions' \in Seq(SessionType), DOMAIN sessions \subseteq DOMAIN sessions',
           s \in DOMAIN sessions',
           index' \in [Paths -> Nat], \A x \in Paths : index'[x] <= Len(sessions')
    PROVE  Types'
<1> DEFINE w == [id |-> nextTrans, kind |-> kind, user |-> u, session |-> s, path |-> p]
<1>1. /\ ClientTypes' /\ UNCHANGED <<get, online, n2s, nodeVars>>
      /\ Head(c2s[u]) \in Messages(c2s[u]) /\ Head(c2s[u]).kind = kind
      /\ c2s' \in [Users -> Seq(RequestType)]
      /\ \A x \in Users : Messages(c2s'[x]) \subseteq Messages(c2s[x])
  BY ReceivedTypes
<1>2. /\ waits' = waits \cup {w} /\ nextTrans' = nextTrans + 1
      /\ s2n' = Append(s2n, order) /\ s2c' = s2c
  BY DEF Wait
<1>3. nextTrans \in Nat
  BY DEF Types, ServerTypes
<1>4. w \in WaitType /\ w.id = nextTrans /\ w.kind = kind /\ w.session = s /\ w.user = u
  BY <1>3 DEF WaitType
<1> HIDE DEF w
<1>5. Matched'
  BY <1>1, <1>2, <1>4, WaitMatched DEF Types
<1>6. ServerTypes'
  <2>1. \A x \in waits : x.id < nextTrans /\ x.session \in DOMAIN sessions /\ x.id \in Nat
    BY DEF Types, ServerTypes, WaitType
  <2>2. \A x \in waits' : x.id < nextTrans' /\ x.session \in DOMAIN sessions'
    BY <1>2, <1>3, <1>4, <2>1
  <2>3. waits' \subseteq WaitType /\ nextTrans' \in Nat /\ online' \subseteq Users
    BY <1>1, <1>2, <1>3, <1>4 DEF Types, ServerTypes
  <2> QED
    BY <2>2, <2>3 DEF ServerTypes
<1>7. NodeTypes'
  <2>1. s2n' \in Seq(OrderType)
    BY <1>2, Appended DEF Types, NodeTypes
  <2> QED
    BY <1>1, <2>1 DEF Types, NodeTypes, nodeVars
<1>8. LinkTypes'
  BY <1>1, <1>2 DEF Types, LinkTypes
<1>9. GetsAsked'
  BY <1>1, <1>2, <1>4 DEF Types, GetsAsked
<1> QED
  BY <1>1, <1>5, <1>6, <1>7, <1>8, <1>9 DEF Types

LEMMA RegisteredTypes ==
    ASSUME ServerTypes, NEW session \in SessionType, session.path \in Paths,
           RegisterSession(session)
    PROVE  /\ sessions' \in Seq(SessionType) /\ DOMAIN sessions \subseteq DOMAIN sessions'
           /\ NextSession \in Nat /\ NextSession \in DOMAIN sessions'
           /\ index' \in [Paths -> Nat] /\ \A p \in Paths : index'[p] <= Len(sessions')
           /\ sessions'[NextSession] = session
           /\ \A s \in DOMAIN sessions : sessions'[s] = sessions[s]
           /\ \A p \in Paths : index'[p] = IF p = session.path THEN NextSession ELSE index[p]
           /\ DOMAIN sessions' = DOMAIN sessions \cup {NextSession}
           /\ NextSession \notin DOMAIN sessions
<1> DEFINE n == Len(sessions)
<1>1. /\ n \in Nat /\ DOMAIN sessions = 1 .. n /\ index \in [Paths -> Nat]
      /\ \A p \in Paths : index[p] <= n
  BY DEF ServerTypes
<1>2. /\ sessions' \in Seq(SessionType) /\ Len(sessions') = n + 1
      /\ sessions'[n + 1] = session /\ \A s \in 1 .. n : sessions'[s] = sessions[s]
  BY AppendProperties DEF ServerTypes, RegisterSession
<1>3. index' = [index EXCEPT ![session.path] = n + 1] /\ NextSession = n + 1
  BY DEF RegisterSession, NextSession
<1> HIDE DEF n
<1>4. DOMAIN sessions' = 1 .. n + 1
  BY <1>2
<1>5. n + 1 \in Nat /\ n + 1 \in 1 .. n + 1 /\ 1 .. n \subseteq 1 .. n + 1 /\ n + 1 \notin 1 .. n
      /\ 1 .. n + 1 = (1 .. n) \cup {n + 1}
  BY <1>1
<1>6. /\ index' \in [Paths -> Nat]
      /\ \A p \in Paths : index'[p] = IF p = session.path THEN n + 1 ELSE index[p]
  BY <1>1, <1>3, <1>5
<1>7. \A p \in Paths : index'[p] <= n + 1
  BY <1>1, <1>6
<1> QED
  BY <1>1, <1>2, <1>3, <1>4, <1>5, <1>6, <1>7

LEMMA Found ==
    ASSUME ServerTypes, NEW type, NEW u, NEW p \in Paths
    PROVE  LET old == FindSession(type, u, p)
           IN  /\ old \in Nat
               /\ old # 0 => /\ old \in DOMAIN sessions /\ old = index[p]
                             /\ sessions[old] \in SessionType
                             /\ sessions[old].type = type /\ sessions[old].user = u
<1>1. /\ index[p] \in Nat /\ index[p] <= Len(sessions) /\ Len(sessions) \in Nat
      /\ DOMAIN sessions = 1 .. Len(sessions) /\ \A s \in DOMAIN sessions : sessions[s] \in SessionType
  BY DEF ServerTypes
<1>2. index[p] # 0 => index[p] \in DOMAIN sessions
  BY <1>1
<1> QED
  BY <1>1, <1>2 DEF FindSession

\* What every message that is read is made of.
LEMMA KindsOfWaits ==
    "putSession" \in WaitKinds /\ "getSession" \in WaitKinds
    /\ "put" \in WaitKinds /\ "get" \in WaitKinds
BY DEF WaitKinds
\* A handler that waits in a session that was there before.
LEMMA WaitInTypes ==
    ASSUME Types, NEW u \in Users, NEW kind \in WaitKinds, Received(u, kind),
           NEW s \in DOMAIN sessions, NEW p \in Paths, NEW order \in OrderType,
           Wait(u, kind, s, p, order), order.trans = nextTrans, order.kind = kind,
           UNCHANGED <<tree, sessionVars>>
    PROVE  Types'
<1>1. UNCHANGED <<tree, sessions, index>>
  BY DEF sessionVars
<1>2. /\ tree \subseteq Paths /\ sessions \in Seq(SessionType) /\ index \in [Paths -> Nat]
      /\ \A x \in Paths : index[x] <= Len(sessions)
      /\ s \in Nat
  BY DEF Types, ServerTypes
<1> QED
  BY <1>1, <1>2, WaitTypes

LEMMA PutSessionOnInitTypes ==
    ASSUME Types, NEW u \in Users, PutSessionOnInit(u)
    PROVE  Types'
<1> DEFINE m == Head(c2s[u])
           old == FindSession("put", u, m.path)
           s == IF old # 0 THEN old ELSE NextSession
           order == [kind |-> "putSession", trans |-> nextTrans,
                     name |-> FileName[m.path], max |-> m.max]
           session == [type |-> "put", user |-> u, path |-> m.path,
                       max |-> m.max, next |-> 0, node |-> 0]
<1>1. Received(u, "putSession")
  BY DEF PutSessionOnInit
<1>2. m \in RequestType /\ m.kind = "putSession"
  BY <1>1, ReceivedTypes
<1>3. m.path \in Paths /\ m.max \in Nat
  BY <1>2, RequestFields
<1>4. /\ \/ Refuse(u, "putSession")
         \/ /\ old # 0 /\ UNCHANGED <<tree, sessionVars>>
            /\ Wait(u, "putSession", s, m.path, order)
         \/ /\ old = 0 /\ tree' = tree \cup {m.path}
            /\ RegisterSession(session)
            /\ Wait(u, "putSession", s, m.path, order)
  BY DEF PutSessionOnInit
<1>5. /\ order \in OrderType /\ order.trans = nextTrans /\ order.kind = "putSession"
      /\ session \in SessionType /\ session.path = m.path
  BY <1>3, TransferAssumption DEF OrderType, SessionType, Types, ServerTypes
<1>6. old # 0 => old \in DOMAIN sessions
  BY <1>3, Found DEF Types
<1> HIDE DEF m, old, order, session
<1>7. CASE Refuse(u, "putSession")
  BY <1>1, <1>7, RefuseTypes, KindsOfWaits
<1>8. CASE old # 0 /\ UNCHANGED <<tree, sessionVars>>
           /\ Wait(u, "putSession", s, m.path, order)
  BY <1>1, <1>3, <1>5, <1>6, <1>8, WaitInTypes, KindsOfWaits
<1>9. CASE /\ old = 0 /\ tree' = tree \cup {m.path}
           /\ RegisterSession(session)
           /\ Wait(u, "putSession", s, m.path, order)
  <2>1. /\ sessions' \in Seq(SessionType) /\ DOMAIN sessions \subseteq DOMAIN sessions'
        /\ NextSession \in Nat /\ NextSession \in DOMAIN sessions'
        /\ index' \in [Paths -> Nat] /\ \A p \in Paths : index'[p] <= Len(sessions')
    BY <1>3, <1>5, <1>9, RegisteredTypes DEF Types
  <2>2. tree' \subseteq Paths
    BY <1>3, <1>9 DEF Types, ServerTypes
  <2>3. Wait(u, "putSession", NextSession, m.path, order)
    BY <1>9
  <2> QED
    BY <1>1, <1>3, <1>5, <2>1, <2>2, <2>3, WaitTypes, KindsOfWaits
<1> QED
  BY <1>4, <1>7, <1>8, <1>9

LEMMA GetSessionOnInitTypes ==
    ASSUME Types, NEW u \in Users, GetSessionOnInit(u)
    PROVE  Types'
<1> DEFINE m == Head(c2s[u])
           old == FindSession("get", u, m.path)
           s == IF old # 0 THEN old ELSE NextSession
           order == [kind |-> "getSession", trans |-> nextTrans, name |-> FileName[m.path]]
           session == [type |-> "get", user |-> u, path |-> m.path, node |-> 0]
<1>1. Received(u, "getSession")
  BY DEF GetSessionOnInit
<1>2. m \in RequestType /\ m.kind = "getSession"
  BY <1>1, ReceivedTypes
<1>3. m.path \in Paths
  BY <1>2, RequestFields
<1>4. /\ \/ Refuse(u, "getSession")
         \/ /\ old # 0 /\ UNCHANGED <<tree, sessionVars>>
            /\ Wait(u, "getSession", s, m.path, order)
         \/ /\ old = 0 /\ tree' = tree
            /\ RegisterSession(session)
            /\ Wait(u, "getSession", s, m.path, order)
  BY DEF GetSessionOnInit
<1>5. /\ order \in OrderType /\ order.trans = nextTrans /\ order.kind = "getSession"
      /\ session \in SessionType /\ session.path = m.path
  BY <1>3, TransferAssumption DEF OrderType, SessionType, Types, ServerTypes
<1>6. old # 0 => old \in DOMAIN sessions
  BY <1>3, Found DEF Types
<1> HIDE DEF m, old, order, session
<1>7. CASE Refuse(u, "getSession")
  BY <1>1, <1>7, RefuseTypes, KindsOfWaits
<1>8. CASE old # 0 /\ UNCHANGED <<tree, sessionVars>>
           /\ Wait(u, "getSession", s, m.path, order)
  BY <1>1, <1>3, <1>5, <1>6, <1>8, WaitInTypes, KindsOfWaits
<1>9. CASE /\ old = 0 /\ tree' = tree
           /\ RegisterSession(session)
           /\ Wait(u, "getSession", s, m.path, order)
  <2>1. /\ sessions' \in Seq(SessionType) /\ DOMAIN sessions \subseteq DOMAIN sessions'
        /\ NextSession \in Nat /\ NextSession \in DOMAIN sessions'
        /\ index' \in [Paths -> Nat] /\ \A p \in Paths : index'[p] <= Len(sessions')
    BY <1>3, <1>5, <1>9, RegisteredTypes DEF Types
  <2>2. tree' \subseteq Paths
    BY <1>9 DEF Types, ServerTypes
  <2>3. Wait(u, "getSession", NextSession, m.path, order)
    BY <1>9
  <2> QED
    BY <1>1, <1>3, <1>5, <2>1, <2>2, <2>3, WaitTypes, KindsOfWaits
<1> QED
  BY <1>4, <1>7, <1>8, <1>9

\* The session of a fragment is one of the user's own.
LEMMA OwnFields ==
    ASSUME ServerTypes, NEW type \in {"put", "get"}, NEW u, NEW s, IsOwn(type, u, s)
    PROVE  /\ s \in DOMAIN sessions /\ sessions[s] \in SessionType /\ sessions[s].type = type
           /\ sessions[s].path \in Paths /\ sessions[s].node \in Nat
           /\ type = "put" => sessions[s].next \in Nat
<1>1. s \in DOMAIN sessions /\ sessions[s].type = type /\ sessions[s] \in SessionType
  BY DEF IsOwn, ServerTypes
<1> QED
  BY <1>1, SessionFields

LEMMA Advanced ==
    ASSUME NEW session \in SessionType, session.type = "put"
    PROVE  LET more == [session EXCEPT !.next = @ + 1]
           IN  /\ more \in SessionType /\ more.type = "put" /\ more.next = session.next + 1
               /\ more.path = session.path /\ more.node = session.node
               /\ more.user = session.user /\ more.max = session.max
BY DEF SessionType, NoSession

\* One session changes and the list keeps its length.
LEMMA SessionChanged ==
    ASSUME ServerTypes, NEW s \in DOMAIN sessions, NEW new \in SessionType,
           sessions' = [sessions EXCEPT ![s] = new]
    PROVE  /\ sessions' \in Seq(SessionType) /\ DOMAIN sessions' = DOMAIN sessions
           /\ Len(sessions') = Len(sessions)
           /\ sessions'[s] = new
           /\ \A x \in DOMAIN sessions \ {s} : sessions'[x] = sessions[x]
<1>1. sessions \in Seq(SessionType)
  BY DEF ServerTypes
<1>2. sessions' \in Seq(SessionType) /\ Len(sessions') = Len(sessions)
  BY <1>1, ExceptSeq
<1> QED
  BY <1>1, <1>2

LEMMA PutOnInitTypes ==
    ASSUME Types, NEW u \in Users, PutOnInit(u)
    PROVE  Types'
<1> DEFINE m == Head(c2s[u])
           s == m.session
           p == sessions[s].path
           node == sessions[s].node
           order == [kind |-> "put", trans |-> nextTrans, node |-> node,
                     index |-> m.index, data |-> m.data, of |-> s]
           new == [sessions[s] EXCEPT !.next = @ + 1]
<1>1. Received(u, "put")
  BY DEF PutOnInit
<1>2. m \in RequestType /\ m.kind = "put"
  BY <1>1, ReceivedTypes
<1>3. m.index \in Nat /\ s \in Nat /\ m.data \in Files \X Nat
  BY <1>2, RequestFields
<1>4. \/ Refuse(u, "put")
      \/ /\ IsOwn("put", u, s) /\ sessions' = [sessions EXCEPT ![s].next = @ + 1]
         /\ UNCHANGED <<tree, index>> /\ Wait(u, "put", s, p, order)
  BY DEF PutOnInit, IsNext
<1>5. CASE Refuse(u, "put")
  BY <1>1, <1>5, RefuseTypes, KindsOfWaits
<1>6. CASE /\ IsOwn("put", u, s) /\ sessions' = [sessions EXCEPT ![s].next = @ + 1]
           /\ UNCHANGED <<tree, index>> /\ Wait(u, "put", s, p, order)
  <2>1. /\ s \in DOMAIN sessions /\ sessions[s] \in SessionType /\ sessions[s].type = "put"
        /\ p \in Paths /\ node \in Nat
    BY <1>6, OwnFields DEF Types
  <2>2. new \in SessionType /\ sessions' = [sessions EXCEPT ![s] = new]
    BY <1>6, <2>1, Advanced
  <2> HIDE DEF m, p, node, new
  <2>3. order \in OrderType /\ order.trans = nextTrans /\ order.kind = "put"
    BY <1>3, <2>1 DEF OrderType, Types, ServerTypes
  <2> HIDE DEF order
  <2>4. /\ sessions' \in Seq(SessionType) /\ DOMAIN sessions' = DOMAIN sessions
        /\ Len(sessions') = Len(sessions)
    BY <2>1, <2>2, SessionChanged DEF Types
  <2>5. tree' \subseteq Paths /\ index' \in [Paths -> Nat] /\ \A x \in Paths : index'[x] <= Len(sessions')
    BY <1>6, <2>4 DEF Types, ServerTypes
  <2> QED
    BY <1>1, <1>3, <1>6, <2>1, <2>3, <2>4, <2>5, WaitTypes, KindsOfWaits
<1> QED
  BY <1>4, <1>5, <1>6

LEMMA GetOnInitTypes ==
    ASSUME Types, NEW u \in Users, GetOnInit(u)
    PROVE  Types'
<1> DEFINE m == Head(c2s[u])
           s == m.session
           p == sessions[s].path
           node == sessions[s].node
           order == [kind |-> "get", trans |-> nextTrans, node |-> node, index |-> m.index]
<1>1. Received(u, "get")
  BY DEF GetOnInit
<1>2. m \in RequestType /\ m.kind = "get"
  BY <1>1, ReceivedTypes
<1>3. m.index \in Nat /\ s \in Nat
  BY <1>2, RequestFields
<1>4. \/ Refuse(u, "get")
      \/ /\ IsOwn("get", u, s)
         /\ UNCHANGED <<tree, sessionVars>> /\ Wait(u, "get", s, p, order)
  BY DEF GetOnInit
<1>5. CASE Refuse(u, "get")
  BY <1>1, <1>5, RefuseTypes, KindsOfWaits
<1>6. CASE /\ IsOwn("get", u, s)
           /\ UNCHANGED <<tree, sessionVars>> /\ Wait(u, "get", s, p, order)
  <2>1. s \in DOMAIN sessions /\ p \in Paths /\ node \in Nat
    BY <1>6, OwnFields DEF Types
  <2> HIDE DEF m, p, node
  <2>2. order \in OrderType /\ order.trans = nextTrans /\ order.kind = "get"
    BY <1>3, <2>1 DEF OrderType, Types, ServerTypes
  <2> HIDE DEF order
  <2> QED
    BY <1>1, <1>6, <2>1, <2>2, WaitInTypes, KindsOfWaits
<1> QED
  BY <1>4, <1>5, <1>6

LEMMA RemoveOnInitTypes ==
    ASSUME Types, NEW u \in Users, RemoveOnInit(u)
    PROVE  Types'
<1>1. /\ ClientTypes' /\ UNCHANGED <<get, online, n2s, nodeVars>>
      /\ c2s' \in [Users -> Seq(RequestType)]
      /\ \A x \in Users : Messages(c2s'[x]) \subseteq Messages(c2s[x])
  BY ReceivedTypes DEF RemoveOnInit
<1>2. UNCHANGED <<sessions, index, waits, nextTrans, s2c, s2n>> /\ tree' \subseteq tree
  BY DEF RemoveOnInit, sessionVars
<1>3. LinkTypes'
  BY <1>1, <1>2 DEF Types, LinkTypes
<1>4. ServerTypes'
  BY <1>1, <1>2 DEF Types, ServerTypes
<1>5. NodeTypes' /\ Matched'
  BY <1>1, <1>2, NodeSame, MatchedSame DEF Types, links
<1>6. GetsAsked'
  BY <1>1, <1>2 DEF Types, GetsAsked
<1> QED
  BY <1>1, <1>3, <1>4, <1>5, <1>6 DEF Types
-----------------------------------------------------------------------------
(* Types: the answers of the node, and timeouts *)

\* A transaction ends, with an answer of its kind at most.
LEMMA EndedTypes ==
    ASSUME Types, NEW w \in waits, waits' = waits \ {w},
           UNCHANGED <<clientVars, c2s, online, tree, index, nextTrans, s2n, nodeVars>>,
           n2s' \in Seq(ResultType), Messages(n2s') \subseteq Messages(n2s),
           sessions' \in Seq(SessionType), Len(sessions') = Len(sessions),
           s2c' \in [Users -> Seq(AnswerType)],
           \A x \in Users : \A m \in Messages(s2c'[x]) :
               m \in Messages(s2c[x]) \/ (x = w.user /\ m.kind = w.kind)
    PROVE  Types'
<1>1. ClientTypes' /\ UNCHANGED get
  BY ClientSame DEF Types, clientVars
<1>2. LinkTypes'
  BY DEF Types, LinkTypes
<1>3. ServerTypes'
  <2>1. DOMAIN sessions' = DOMAIN sessions
    <3>1. DOMAIN sessions = 1 .. Len(sessions)
      BY DEF Types, ServerTypes
    <3>2. DOMAIN sessions' = 1 .. Len(sessions')
      OBVIOUS
    <3> QED
      BY <3>1, <3>2
  <2> QED
    BY <2>1 DEF Types, ServerTypes
<1>4. NodeTypes'
  BY DEF Types, NodeTypes, nodeVars
<1>5. Matched'
  BY DEF Types, Matched, ResultFor
<1>6. GetsAsked'
  BY <1>1 DEF Types, GetsAsked
<1> QED
  BY <1>1, <1>2, <1>3, <1>4, <1>5, <1>6 DEF Types

LEMMA NoSessionTyped ==
    NoSession \in SessionType /\ NoSession.type = "none"
BY DEF SessionType, NoSession

\* What a reply does to the messages of the clients.
LEMMA ReplyTypes ==
    ASSUME Types, NEW w \in waits, NEW answer \in AnswerType, answer.kind = w.kind,
           Reply(w, answer)
    PROVE  /\ s2c' \in [Users -> Seq(AnswerType)]
           /\ \A x \in Users : \A m \in Messages(s2c'[x]) :
                  m \in Messages(s2c[x]) \/ (x = w.user /\ m.kind = w.kind)
<1>1. w.user \in Users
  BY DEF Types, ServerTypes, WaitType
<1> DEFINE u == w.user
<1>2. s2c' = [s2c EXCEPT ![u] = Append(@, answer)]
  BY DEF Reply
<1> HIDE DEF u
<1>3. u \in Users
  BY <1>1 DEF u
<1>4. /\ s2c' \in [Users -> Seq(AnswerType)]
      /\ Messages(s2c'[u]) = Messages(s2c[u]) \cup {answer}
      /\ \A x \in Users \ {u} : s2c'[x] = s2c[x]
  BY <1>2, <1>3, RepliedLinks DEF Types
<1> QED
  BY <1>4 DEF u

LEMMA WaitFields ==
    ASSUME ServerTypes, NEW w \in waits
    PROVE  /\ w \in WaitType /\ w.id \in Nat /\ w.id < nextTrans /\ w.kind \in WaitKinds
           /\ w.user \in Users /\ w.path \in Paths
           /\ w.session \in Nat /\ w.session \in DOMAIN sessions
           /\ sessions[w.session] \in SessionType
BY DEF ServerTypes, WaitType

LEMMA RemoveSessionTypes ==
    ASSUME ServerTypes, NEW s \in DOMAIN sessions, RemoveSession(s)
    PROVE  /\ sessions' \in Seq(SessionType) /\ DOMAIN sessions' = DOMAIN sessions
           /\ Len(sessions') = Len(sessions) /\ index' = index
           /\ sessions'[s].type = "none"
           /\ \A x \in DOMAIN sessions \ {s} : sessions'[x] = sessions[x]
<1>1. sessions' = [sessions EXCEPT ![s] = NoSession] /\ index' = index
  BY DEF RemoveSession
<1>2. NoSession \in SessionType /\ NoSession.type = "none"
  BY NoSessionTyped
<1> QED
  BY <1>1, <1>2, SessionChanged

LEMMA OnErrorTypes ==
    ASSUME Types, NEW w \in waits, OnError(w)
    PROVE  /\ s2c' \in [Users -> Seq(AnswerType)]
           /\ \A x \in Users : \A m \in Messages(s2c'[x]) :
                  m \in Messages(s2c[x]) \/ (x = w.user /\ m.kind = w.kind)
           /\ sessions' \in Seq(SessionType) /\ Len(sessions') = Len(sessions)
           /\ UNCHANGED index
<1>1. w.kind \in WaitKinds /\ w.session \in DOMAIN sessions /\ sessions \in Seq(SessionType)
  BY WaitFields DEF Types, ServerTypes
<1>2. Failure(w) \in AnswerType /\ Failure(w).kind = w.kind
  BY <1>1, FailureTyped DEF Failure
<1>3. Reply(w, Failure(w))
  BY DEF OnError
<1>4. RemoveSession(w.session) \/ UNCHANGED <<sessions, index>>
  BY DEF OnError, sessionVars
<1>5. sessions' \in Seq(SessionType) /\ Len(sessions') = Len(sessions) /\ UNCHANGED index
  BY <1>1, <1>4, RemoveSessionTypes DEF Types
<1> QED
  BY <1>2, <1>3, <1>5, ReplyTypes

LEMMA TimeoutTypes ==
    ASSUME Types, NEW w \in waits, Timeout(w)
    PROVE  Types'
<1>1. /\ waits' = waits \ {w} /\ OnError(w)
      /\ UNCHANGED <<clientVars, c2s, online, tree, nextTrans, s2n, n2s, nodeVars>>
  BY DEF Timeout, links
<1>2. n2s \in Seq(ResultType)
  BY DEF Types, NodeTypes
<1> QED
  BY <1>1, <1>2, OnErrorTypes, EndedTypes

LEMMA ActivatedTypes ==
    ASSUME Types, NEW w \in waits, NEW kind, Activated(w, kind)
    PROVE  /\ waits' = waits \ {w} /\ w.kind = kind
           /\ UNCHANGED <<clientVars, c2s, online, tree, nextTrans, s2n, nodeVars>>
           /\ Head(n2s) \in ResultType /\ Head(n2s) \in Messages(n2s)
           /\ Head(n2s).trans = w.id
           /\ ResultFor(w, Head(n2s))
           /\ n2s' \in Seq(ResultType) /\ Messages(n2s') \subseteq Messages(n2s)
<1>1. /\ n2s # <<>> /\ Head(n2s).trans = w.id /\ w.kind = kind
      /\ n2s' = Tail(n2s) /\ waits' = waits \ {w}
      /\ UNCHANGED <<clientVars, c2s, online, tree, nextTrans, s2n, nodeVars>>
  BY DEF Activated
<1>2. n2s \in Seq(ResultType)
  BY DEF Types, NodeTypes
<1>3. /\ Head(n2s) \in ResultType /\ Head(n2s) \in Messages(n2s)
      /\ n2s' \in Seq(ResultType) /\ Messages(n2s') \subseteq Messages(n2s)
  BY <1>1, <1>2, HeadTaken
<1>4. ResultFor(w, Head(n2s))
  BY <1>1, <1>3 DEF Types, Matched
<1> QED
  BY <1>1, <1>3, <1>4

LEMMA LateAnswerTypes ==
    ASSUME Types, LateAnswer
    PROVE  Types'
<1>1. /\ n2s # <<>> /\ n2s' = Tail(n2s)
      /\ UNCHANGED <<clientVars, c2s, s2c, serverVars, nodeVars, s2n>>
  BY DEF LateAnswer
<1>2. n2s \in Seq(ResultType)
  BY DEF Types, NodeTypes
<1>3. n2s' \in Seq(ResultType) /\ Messages(n2s') \subseteq Messages(n2s)
  BY <1>1, <1>2, HeadTaken
<1>4. ClientTypes' /\ LinkTypes' /\ ServerTypes'
  BY <1>1, ClientSame, ServerSame DEF Types, LinkTypes, serverVars, sessionVars
<1>5. NodeTypes'
  BY <1>1, <1>3 DEF Types, NodeTypes, nodeVars
<1>6. Matched' /\ GetsAsked'
  BY <1>1, <1>3 DEF Types, Matched, GetsAsked, ResultFor, clientVars, serverVars
<1> QED
  BY <1>4, <1>5, <1>6 DEF Types
\* What a result for a transaction carries.
LEMMA ResultForFields ==
    ASSUME NEW w, NEW m, ResultFor(w, m), m.ok
    PROVE  /\ w.kind = "putSession" => m.node \in Nat
           /\ w.kind = "getSession" => m.node \in Nat /\ m.max \in Nat
           /\ w.kind = "put" => m.index \in Nat
           /\ w.kind = "get" => m.index \in Nat /\ m.data \in Seq(Data)
<1>1. CASE w.kind = "putSession"
  BY <1>1 DEF ResultFor
<1>2. CASE w.kind = "getSession"
  BY <1>2 DEF ResultFor
<1>3. CASE w.kind = "put"
  BY <1>3 DEF ResultFor
<1>4. CASE w.kind = "get"
  BY <1>4 DEF ResultFor
<1> QED
  BY <1>1, <1>2, <1>3, <1>4

LEMMA Attached ==
    ASSUME NEW session \in SessionType, session.type # "none", NEW node \in Nat
    PROVE  LET new == [session EXCEPT !.node = node]
           IN  /\ new \in SessionType /\ new.type = session.type /\ new.node = node
               /\ new.path = session.path
               /\ session.type = "put" => new.next = session.next
BY DEF SessionType, NoSession

LEMMA SessionOnActiveTypes ==
    ASSUME Types, NEW w \in waits, NEW kind, NEW type,
           \/ kind = "putSession" /\ type = "put"
           \/ kind = "getSession" /\ type = "get",
           SessionOnActive(w, kind, type)
    PROVE  Types'
<1> DEFINE m == Head(n2s)
           s == w.session
           next == sessions[s].next
           answer == IF type = "put"
                     THEN [kind |-> kind, ok |-> TRUE, session |-> s, next |-> next]
                     ELSE [kind |-> kind, ok |-> TRUE, session |-> s, max |-> m.max]
           new == [sessions[s] EXCEPT !.node = m.node]
<1>1. Activated(w, kind)
  BY DEF SessionOnActive
<1>2. /\ waits' = waits \ {w} /\ w.kind = kind
      /\ UNCHANGED <<clientVars, c2s, online, tree, nextTrans, s2n, nodeVars>>
      /\ n2s' \in Seq(ResultType) /\ Messages(n2s') \subseteq Messages(n2s)
      /\ ResultFor(w, m)
  BY <1>1, ActivatedTypes
<1>3. \/ OnError(w)
      \/ /\ m.ok /\ sessions[s].type = type /\ Reply(w, answer) /\ UNCHANGED index
         /\ sessions' = [sessions EXCEPT ![s] = [@ EXCEPT !.node = m.node]]
      \/ UNCHANGED <<sessions, index, s2c>>
  BY DEF SessionOnActive, sessionVars
<1>4. CASE OnError(w)
  BY <1>2, <1>4, OnErrorTypes, EndedTypes
<1>5. CASE /\ m.ok /\ sessions[s].type = type /\ Reply(w, answer) /\ UNCHANGED index
           /\ sessions' = [sessions EXCEPT ![s] = [@ EXCEPT !.node = m.node]]
  <2>1. s \in Nat /\ s \in DOMAIN sessions /\ sessions[s] \in SessionType
    BY WaitFields DEF Types
  <2>2. m.node \in Nat /\ (type = "get" => m.max \in Nat)
    BY <1>2, <1>5, ResultForFields
  <2>3. type = "put" => next \in Nat
    BY <1>5, <2>1, SessionFields
  <2>4. new \in SessionType /\ sessions' = [sessions EXCEPT ![s] = new]
    BY <1>5, <2>1, <2>2, Attached
  <2> HIDE DEF m, s, next, new
  <2>5. answer \in AnswerType /\ answer.kind = w.kind
    BY <1>2, <2>1, <2>2, <2>3 DEF AnswerType
  <2> HIDE DEF answer
  <2>6. sessions' \in Seq(SessionType) /\ Len(sessions') = Len(sessions)
    BY <2>1, <2>4, SessionChanged DEF Types
  <2>7. /\ s2c' \in [Users -> Seq(AnswerType)]
        /\ \A x \in Users : \A r \in Messages(s2c'[x]) :
               r \in Messages(s2c[x]) \/ (x = w.user /\ r.kind = w.kind)
    BY <1>5, <2>5, ReplyTypes
  <2> QED
    BY <1>2, <1>5, <2>6, <2>7, EndedTypes
<1>6. CASE UNCHANGED <<sessions, index, s2c>>
  <2>1. sessions \in Seq(SessionType) /\ s2c \in [Users -> Seq(AnswerType)]
    BY DEF Types, ServerTypes, LinkTypes
  <2> QED
    BY <1>2, <1>6, <2>1, EndedTypes
<1> QED
  BY <1>3, <1>4, <1>5, <1>6

\* The handlers whose answer leaves the sessions alone.
LEMMA RepliedTypes ==
    ASSUME Types, NEW w \in waits, NEW kind, Activated(w, kind),
           NEW answer \in AnswerType, answer.kind = w.kind, Reply(w, answer),
           UNCHANGED sessionVars
    PROVE  Types'
<1>1. /\ waits' = waits \ {w} /\ UNCHANGED <<sessions, index>>
      /\ UNCHANGED <<clientVars, c2s, online, tree, nextTrans, s2n, nodeVars>>
      /\ n2s' \in Seq(ResultType) /\ Messages(n2s') \subseteq Messages(n2s)
  BY ActivatedTypes DEF sessionVars
<1>2. /\ s2c' \in [Users -> Seq(AnswerType)]
      /\ \A x \in Users : \A m \in Messages(s2c'[x]) :
             m \in Messages(s2c[x]) \/ (x = w.user /\ m.kind = w.kind)
  BY ReplyTypes
<1>3. sessions' \in Seq(SessionType)
  BY <1>1 DEF Types, ServerTypes
<1> QED
  BY <1>1, <1>2, <1>3, EndedTypes

LEMMA PutOnActiveTypes ==
    ASSUME Types, NEW w \in waits, PutOnActive(w)
    PROVE  Types'
<1> DEFINE m == Head(n2s)
           good == m.ok /\ w.user \in online
           answer == IF good THEN [kind |-> "put", ok |-> TRUE, index |-> m.index] ELSE Failure(w)
<1>1. Activated(w, "put") /\ Reply(w, answer) /\ UNCHANGED sessionVars
  BY DEF PutOnActive
<1>2. w.kind = "put" /\ ResultFor(w, m)
  BY <1>1, ActivatedTypes
<1>3. good => m.index \in Nat
  BY <1>2, ResultForFields
<1>4. Failure(w) \in AnswerType /\ Failure(w).kind = "put"
  BY <1>2, FailureTyped, KindsOfWaits DEF Failure
<1> HIDE DEF m, good
<1>5. answer \in AnswerType /\ answer.kind = w.kind
  <2>1. CASE good
    BY <1>2, <1>3, <2>1 DEF AnswerType
  <2>2. CASE ~good
    BY <1>2, <1>4, <2>2
  <2> QED
    BY <2>1, <2>2
<1> HIDE DEF answer
<1> QED
  BY <1>1, <1>5, RepliedTypes

LEMMA GetOnActiveTypes ==
    ASSUME Types, NEW w \in waits, GetOnActive(w)
    PROVE  Types'
<1> DEFINE m == Head(n2s)
           good == m.ok /\ w.user \in online
           answer == IF good THEN [kind |-> "get", ok |-> TRUE, index |-> m.index, data |-> m.data]
                     ELSE Failure(w)
<1>1. Activated(w, "get") /\ Reply(w, answer) /\ UNCHANGED sessionVars
  BY DEF GetOnActive
<1>2. w.kind = "get" /\ ResultFor(w, m)
  BY <1>1, ActivatedTypes
<1>3. good => m.index \in Nat /\ m.data \in Seq(Data)
  BY <1>2, ResultForFields
<1>4. Failure(w) \in AnswerType /\ Failure(w).kind = "get"
  BY <1>2, FailureTyped, KindsOfWaits DEF Failure
<1> HIDE DEF m, good
<1>5. answer \in AnswerType /\ answer.kind = w.kind
  <2>1. CASE good
    BY <1>2, <1>3, <2>1 DEF AnswerType
  <2>2. CASE ~good
    BY <1>2, <1>4, <2>2
  <2> QED
    BY <2>1, <2>2
<1> HIDE DEF answer
<1> QED
  BY <1>1, <1>5, RepliedTypes

-----------------------------------------------------------------------------
(* Types: the storage node, and what goes wrong *)

\* The node takes an order and appends a result for it.
LEMMA NodeStepTypes ==
    ASSUME Types, NEW kind, NodeReceived(kind),
           NEW result \in ResultType, NodeReply(result), result.trans = Head(s2n).trans,
           \A w \in waits : w.id = Head(s2n).trans /\ w.kind = kind => ResultFor(w, result),
           nodeSessions' \in Seq(NodeSessionType), opened' \subseteq files',
           files' \subseteq Names, disk' \in [Names -> Seq(Data)]
    PROVE  Types'
<1>1. /\ s2n # <<>> /\ Head(s2n).kind = kind /\ s2n' = Tail(s2n)
      /\ UNCHANGED <<clientVars, c2s, s2c, serverVars>>
      /\ n2s' = Append(n2s, result)
  BY DEF NodeReceived, NodeReply
<1>2. s2n \in Seq(OrderType) /\ n2s \in Seq(ResultType)
  BY DEF Types, NodeTypes
<1>3. /\ s2n' \in Seq(OrderType) /\ Messages(s2n') \subseteq Messages(s2n)
      /\ Head(s2n) \in Messages(s2n)
  BY <1>1, <1>2, HeadTaken
<1>4. n2s' \in Seq(ResultType) /\ Messages(n2s') = Messages(n2s) \cup {result}
  BY <1>1, <1>2, Appended
<1>5. ClientTypes' /\ LinkTypes' /\ ServerTypes'
  BY <1>1, ClientSame, ServerSame DEF Types, LinkTypes, serverVars, sessionVars
<1>6. NodeTypes'
  BY <1>3, <1>4 DEF NodeTypes
<1>7. UNCHANGED <<waits, nextTrans, get>>
  BY <1>1 DEF serverVars, clientVars
<1>8. Matched'
  <2>1. \A v, w \in waits' : v.id = w.id => v = w
    BY <1>7 DEF Types, Matched
  <2>2. \A m \in Messages(s2n') :
            m.trans < nextTrans' /\ \A w \in waits' : w.id = m.trans => w.kind = m.kind
    BY <1>3, <1>7 DEF Types, Matched
  <2>3. \A m \in Messages(n2s') :
            m.trans < nextTrans' /\ \A w \in waits' : w.id = m.trans => ResultFor(w, m)
    <3> SUFFICES ASSUME NEW m \in Messages(n2s')
                 PROVE  m.trans < nextTrans' /\ \A w \in waits' : w.id = m.trans => ResultFor(w, m)
      OBVIOUS
    <3>1. CASE m \in Messages(n2s)
      BY <1>7, <3>1 DEF Types, Matched
    <3>2. CASE m = result
      BY <1>1, <1>3, <1>7, <3>2 DEF Types, Matched
    <3> QED
      BY <1>4, <3>1, <3>2
  <2> QED
    BY <2>1, <2>2, <2>3 DEF Matched, ResultFor
<1>9. GetsAsked'
  BY <1>1, <1>7 DEF Types, GetsAsked
<1> QED
  BY <1>5, <1>6, <1>8, <1>9 DEF Types
LEMMA OrderTaken ==
    ASSUME Types, NEW kind, NodeReceived(kind)
    PROVE  /\ Head(s2n) \in OrderType /\ Head(s2n).kind = kind /\ Head(s2n) \in Messages(s2n)
           /\ Head(s2n).trans \in Nat
           /\ NodeError \in ResultType /\ NodeError.trans = Head(s2n).trans /\ ~NodeError.ok
<1>1. s2n # <<>> /\ Head(s2n).kind = kind /\ s2n \in Seq(OrderType)
  BY DEF NodeReceived, Types, NodeTypes
<1>2. Head(s2n) \in OrderType /\ Head(s2n) \in Messages(s2n)
  BY <1>1, HeadTaken
<1>3. Head(s2n).trans \in Nat
  BY <1>2, OrderFields
<1> QED
  BY <1>1, <1>2, <1>3 DEF NodeError, ResultType

LEMMA FailedResult ==
    ASSUME NEW w, NEW m, ~m.ok
    PROVE  ResultFor(w, m)
BY DEF ResultFor

LEMMA NodeSessionIds ==
    ASSUME NodeTypes, NEW n \in DOMAIN nodeSessions
    PROVE  n \in Nat /\ nodeSessions[n] \in NodeSessionType
BY DEF NodeTypes

LEMMA NodeRegistered ==
    ASSUME NodeTypes, NEW name \in Names, NEW max \in Nat, RegisterNodeSession(name, max)
    PROVE  /\ nodeSessions' \in Seq(NodeSessionType)
           /\ DOMAIN nodeSessions' = DOMAIN nodeSessions \cup {NextNode}
           /\ NextNode \in Nat /\ NextNode # 0 /\ NextNode \notin DOMAIN nodeSessions
           /\ nodeSessions'[NextNode] = [type |-> "file", name |-> name, max |-> max]
           /\ \A n \in DOMAIN nodeSessions : nodeSessions'[n] = nodeSessions[n]
<1> DEFINE new == [type |-> "file", name |-> name, max |-> max]
           k == Len(nodeSessions)
<1>1. new \in NodeSessionType
  BY DEF NodeSessionType
<1>2. nodeSessions' = Append(nodeSessions, new) /\ NextNode = k + 1
  BY DEF RegisterNodeSession, NextNode
<1> HIDE DEF new
<1>3. k \in Nat /\ DOMAIN nodeSessions = 1 .. k /\ nodeSessions \in Seq(NodeSessionType)
  BY DEF NodeTypes
<1>4. /\ nodeSessions' \in Seq(NodeSessionType) /\ Len(nodeSessions') = k + 1
      /\ nodeSessions'[k + 1] = new
      /\ \A n \in 1 .. k : nodeSessions'[n] = nodeSessions[n]
  BY <1>1, <1>2, <1>3, AppendProperties
<1> HIDE DEF k
<1>5. DOMAIN nodeSessions' = 1 .. k + 1
  BY <1>4
<1>6. 1 .. k + 1 = (1 .. k) \cup {k + 1} /\ k + 1 \in Nat /\ k + 1 # 0 /\ k + 1 \notin 1 .. k
  BY <1>3
<1> QED
  BY <1>2, <1>3, <1>4, <1>5, <1>6 DEF new

LEMMA NodePutSessionTypes ==
    ASSUME Types, NodePutSession
    PROVE  Types'
<1> DEFINE m == Head(s2n)
           Done(n) == [trans |-> m.trans, ok |-> TRUE, node |-> n]
<1>1. NodeReceived("putSession") /\ UNCHANGED <<opened, files, disk>>
  BY DEF NodePutSession
<1>2. /\ m \in OrderType /\ m.kind = "putSession" /\ m.trans \in Nat
      /\ NodeError \in ResultType /\ NodeError.trans = m.trans /\ ~NodeError.ok
  BY <1>1, OrderTaken
<1>3. m.name \in Names /\ m.max \in Nat
  BY <1>2, OrderFields
<1>4. \/ \E n \in DOMAIN nodeSessions :
            NodeReply(Done(n)) /\ UNCHANGED nodeSessions
      \/ NodeReply(NodeError) /\ UNCHANGED nodeSessions
      \/ RegisterNodeSession(m.name, m.max) /\ NodeReply(Done(NextNode))
  BY DEF NodePutSession, NodeSessionsOf
<1>5. \A n \in Nat : /\ Done(n) \in ResultType /\ Done(n).trans = m.trans
                     /\ \A w \in waits : w.kind = "putSession" => ResultFor(w, Done(n))
  BY <1>2 DEF ResultType, ResultFor
<1>6. \A w \in waits : ResultFor(w, NodeError)
  BY <1>2, FailedResult
<1>7. /\ nodeSessions \in Seq(NodeSessionType) /\ opened' \subseteq files'
      /\ files' \subseteq Names /\ disk' \in [Names -> Seq(Data)]
  BY <1>1 DEF Types, NodeTypes
<1> HIDE DEF Done
<1>8. CASE \E n \in DOMAIN nodeSessions : NodeReply(Done(n)) /\ UNCHANGED nodeSessions
  <2>1. PICK n \in DOMAIN nodeSessions : NodeReply(Done(n)) /\ UNCHANGED nodeSessions
    BY <1>8
  <2>2. n \in Nat
    BY NodeSessionIds DEF Types
  <2> QED
    BY <1>1, <1>5, <1>7, <2>1, <2>2, NodeStepTypes
<1>9. CASE NodeReply(NodeError) /\ UNCHANGED nodeSessions
  BY <1>1, <1>2, <1>6, <1>7, <1>9, NodeStepTypes
<1>10. CASE RegisterNodeSession(m.name, m.max) /\ NodeReply(Done(NextNode))
  <2>1. nodeSessions' \in Seq(NodeSessionType) /\ NextNode \in Nat
    BY <1>3, <1>10, NodeRegistered DEF Types
  <2> QED
    BY <1>1, <1>5, <1>7, <1>10, <2>1, NodeStepTypes
<1> QED
  BY <1>4, <1>8, <1>9, <1>10

LEMMA NodeGetSessionTypes ==
    ASSUME Types, NodeGetSession
    PROVE  Types'
<1> DEFINE m == Head(s2n)
           Done(n, max) == [trans |-> m.trans, ok |-> TRUE, node |-> n, max |-> max]
           size == Len(disk[m.name])
<1>1. NodeReceived("getSession") /\ UNCHANGED <<opened, files, disk>>
  BY DEF NodeGetSession
<1>2. /\ m \in OrderType /\ m.kind = "getSession" /\ m.trans \in Nat
      /\ NodeError \in ResultType /\ NodeError.trans = m.trans /\ ~NodeError.ok
  BY <1>1, OrderTaken
<1>3. m.name \in Names
  BY <1>2, OrderFields
<1>4. \/ \E n \in DOMAIN nodeSessions :
            /\ nodeSessions[n].type = "file"
            /\ NodeReply(Done(n, nodeSessions[n].max)) /\ UNCHANGED nodeSessions
      \/ RegisterNodeSession(m.name, size) /\ NodeReply(Done(NextNode, size))
      \/ RegisterNodeSession(m.name, 0) /\ NodeReply(NodeError)
  BY DEF NodeGetSession, NodeSessionsOf
<1>5. \A n \in Nat : \A max \in Nat :
          /\ Done(n, max) \in ResultType /\ Done(n, max).trans = m.trans
          /\ \A w \in waits : w.kind = "getSession" => ResultFor(w, Done(n, max))
  BY <1>2 DEF ResultType, ResultFor
<1>6. \A w \in waits : ResultFor(w, NodeError)
  BY <1>2, FailedResult
<1>7. /\ opened' \subseteq files' /\ files' \subseteq Names /\ disk' \in [Names -> Seq(Data)]
  BY <1>1 DEF Types, NodeTypes
<1>8. size \in Nat
  <2>1. disk[m.name] \in Seq(Data)
    BY <1>3 DEF Types, NodeTypes
  <2> QED
    BY <2>1
<1> HIDE DEF Done, size
<1>9. CASE \E n \in DOMAIN nodeSessions :
            /\ nodeSessions[n].type = "file"
            /\ NodeReply(Done(n, nodeSessions[n].max)) /\ UNCHANGED nodeSessions
  <2>1. PICK n \in DOMAIN nodeSessions :
            /\ nodeSessions[n].type = "file"
            /\ NodeReply(Done(n, nodeSessions[n].max)) /\ UNCHANGED nodeSessions
    BY <1>9
  <2>2. n \in Nat /\ nodeSessions[n].max \in Nat /\ nodeSessions' \in Seq(NodeSessionType)
    BY <2>1, NodeSessionIds, NodeSessionFields DEF Types, NodeTypes
  <2> QED
    BY <1>1, <1>5, <1>7, <2>1, <2>2, NodeStepTypes
<1>10. CASE RegisterNodeSession(m.name, size) /\ NodeReply(Done(NextNode, size))
  <2>1. nodeSessions' \in Seq(NodeSessionType) /\ NextNode \in Nat
    BY <1>3, <1>8, <1>10, NodeRegistered DEF Types
  <2> QED
    BY <1>1, <1>5, <1>7, <1>8, <1>10, <2>1, NodeStepTypes
<1>11. CASE RegisterNodeSession(m.name, 0) /\ NodeReply(NodeError)
  <2>1. nodeSessions' \in Seq(NodeSessionType)
    BY <1>3, <1>11, NodeRegistered DEF Types
  <2> QED
    BY <1>1, <1>2, <1>6, <1>7, <1>11, <2>1, NodeStepTypes
<1> QED
  BY <1>4, <1>9, <1>10, <1>11

\* Writing a fragment leaves the others where they are and fills the gap with holes.
LEMMA WriteAtFacts ==
    ASSUME NEW contents \in Seq(Data), NEW i \in Nat, NEW data \in Data
    PROVE  /\ WriteAt(contents, i, data) \in Seq(Data)
           /\ Len(contents) \in Nat
           /\ Len(WriteAt(contents, i, data)) = IF i + 1 > Len(contents) THEN i + 1
                                                ELSE Len(contents)
           /\ WriteAt(contents, i, data)[i + 1] = data
           /\ \A k \in 1 .. Len(contents) : k # i + 1 =>
                  WriteAt(contents, i, data)[k] = contents[k]
<1> DEFINE n == Len(contents)
           size == IF i + 1 > n THEN i + 1 ELSE n
           One(k) == IF k = i + 1 THEN data ELSE IF k <= n THEN contents[k] ELSE Hole
           list == [k \in 1 .. size |-> One(k)]
<1>1. WriteAt(contents, i, data) = list
  BY DEF WriteAt
<1>2. n \in Nat /\ \A k \in 1 .. n : contents[k] \in Data
  OBVIOUS
<1>3. Hole \in Data
  BY DEF Data
<1>4. size \in Nat
  BY <1>2
<1>5. \A k \in 1 .. size : One(k) \in Data
  <2> SUFFICES ASSUME NEW k \in 1 .. size
               PROVE  One(k) \in Data
    OBVIOUS
  <2>1. k \in Nat /\ k >= 1
    BY <1>4
  <2>2. k <= n => k \in 1 .. n
    BY <1>2, <2>1
  <2> QED
    BY <1>2, <1>3, <2>2
<1>6. i + 1 \in 1 .. size /\ \A k \in 1 .. n : k \in 1 .. size /\ k <= n
  BY <1>2
<1> HIDE DEF n
<1>7. One(i + 1) = data /\ \A k \in 1 .. n : k # i + 1 => One(k) = contents[k]
  BY <1>6
<1> HIDE DEF size, One
<1>8. list \in Seq(Data) /\ Len(list) = size
  BY <1>4, <1>5
<1>9. list[i + 1] = data /\ \A k \in 1 .. n : k # i + 1 => list[k] = contents[k]
  BY <1>6, <1>7
<1> QED
  BY <1>1, <1>2, <1>8, <1>9 DEF n, size

LEMMA ReadAtTyped ==
    ASSUME NEW contents \in Seq(Data), NEW i \in Nat
    PROVE  ReadAt(contents, i) \in Seq(Data)
<1>1. CASE i < Len(contents)
  <2>1. i + 1 \in 1 .. Len(contents)
    BY <1>1
  <2>2. contents[i + 1] \in Data
    BY <2>1
  <2> DEFINE x == contents[i + 1]
  <2> HIDE DEF x
  <2>3. <<x>> \in Seq(Data)
    BY <2>2 DEF x
  <2> QED
    BY <1>1, <2>3 DEF ReadAt, x
<1>2. CASE ~(i < Len(contents))
  BY <1>2 DEF ReadAt
<1> QED
  BY <1>1, <1>2

LEMMA OpenedTyped ==
    ASSUME NodeTypes, NEW name \in Names
    PROVE  Opened(name) \in Seq(Data)
BY DEF NodeTypes, Opened

\* The session of the node is there, and the last fragment ends it.
LEMMA EndAtLastTypes ==
    ASSUME NodeTypes, NEW n, NEW i, IsNodeSession(n, i), EndAtLast(n, i)
    PROVE  /\ nodeSessions' \in Seq(NodeSessionType) /\ DOMAIN nodeSessions' = DOMAIN nodeSessions
           /\ nodeSessions[n].name \in Names
           /\ \A x \in DOMAIN nodeSessions : nodeSessions'[x] \in {nodeSessions[x], NoSession}
<1>1. /\ n \in DOMAIN nodeSessions /\ nodeSessions[n].type = "file"
      /\ nodeSessions \in Seq(NodeSessionType)
  BY DEF IsNodeSession, NodeTypes
<1>2. nodeSessions[n].name \in Names
  BY <1>1, NodeSessionFields
<1>3. NoSession \in NodeSessionType
  BY DEF NodeSessionType
<1>4. nodeSessions' \in {nodeSessions, [nodeSessions EXCEPT ![n] = NoSession]}
  BY DEF EndAtLast
<1>5. n \in 1 .. Len(nodeSessions)
  BY <1>1
<1> HIDE DEF NoSession
<1>6. [nodeSessions EXCEPT ![n] = NoSession] \in Seq(NodeSessionType)
  BY <1>1, <1>3, <1>5, ExceptSeq
<1> QED
  BY <1>1, <1>2, <1>4, <1>6
LEMMA NodePutTypes ==
    ASSUME Types, NodePut
    PROVE  Types'
<1> DEFINE m == Head(s2n)
           name == nodeSessions[m.node].name
           contents == Opened(name)
           more == WriteAt(contents, m.index, m.data)
           done == [trans |-> m.trans, ok |-> TRUE, index |-> m.index]
<1>1. NodeReceived("put")
  BY DEF NodePut
<1>2. /\ m \in OrderType /\ m.kind = "put" /\ m.trans \in Nat
      /\ NodeError \in ResultType /\ NodeError.trans = m.trans /\ ~NodeError.ok
  BY <1>1, OrderTaken
<1>3. m.index \in Nat /\ m.data \in Data
  BY <1>2, OrderFields DEF Data
<1>4. \/ NodeReply(NodeError) /\ UNCHANGED <<nodeSessions, opened, files, disk>>
      \/ /\ IsNodeSession(m.node, m.index)
         /\ disk' = [disk EXCEPT ![name] = more]
         /\ opened' = opened \cup {name} /\ files' = files \cup {name}
         /\ EndAtLast(m.node, m.index) /\ NodeReply(done)
  BY DEF NodePut, nodeVars
<1>5. CASE NodeReply(NodeError) /\ UNCHANGED <<nodeSessions, opened, files, disk>>
  <2>1. \A w \in waits : ResultFor(w, NodeError)
    BY <1>2, FailedResult
  <2>2. /\ nodeSessions' \in Seq(NodeSessionType) /\ opened' \subseteq files'
        /\ files' \subseteq Names /\ disk' \in [Names -> Seq(Data)]
    BY <1>5 DEF Types, NodeTypes
  <2> QED
    BY <1>1, <1>2, <1>5, <2>1, <2>2, NodeStepTypes
<1>6. CASE /\ IsNodeSession(m.node, m.index)
           /\ disk' = [disk EXCEPT ![name] = more]
           /\ opened' = opened \cup {name} /\ files' = files \cup {name}
           /\ EndAtLast(m.node, m.index) /\ NodeReply(done)
  <2>1. name \in Names /\ nodeSessions' \in Seq(NodeSessionType)
    BY <1>6, EndAtLastTypes DEF Types
  <2>2. contents \in Seq(Data)
    BY <2>1, OpenedTyped DEF Types
  <2> HIDE DEF contents
  <2>3. more \in Seq(Data)
    BY <1>3, <2>2, WriteAtFacts
  <2>4. /\ done \in ResultType /\ done.trans = m.trans
        /\ \A w \in waits : w.kind = "put" => ResultFor(w, done)
    BY <1>2, <1>3 DEF ResultType, ResultFor
  <2> HIDE DEF more, name, done
  <2>5. /\ opened' \subseteq files' /\ files' \subseteq Names /\ disk' \in [Names -> Seq(Data)]
    BY <1>6, <2>1, <2>3 DEF Types, NodeTypes
  <2> QED
    BY <1>1, <1>6, <2>1, <2>4, <2>5, NodeStepTypes
<1> QED
  BY <1>4, <1>5, <1>6

LEMMA NodeGetTypes ==
    ASSUME Types, NodeGet
    PROVE  Types'
<1> DEFINE m == Head(s2n)
           name == nodeSessions[m.node].name
           contents == Opened(name)
           data == ReadAt(contents, m.index)
           done == [trans |-> m.trans, ok |-> TRUE, index |-> m.index, data |-> data]
<1>1. NodeReceived("get")
  BY DEF NodeGet
<1>2. /\ m \in OrderType /\ m.kind = "get" /\ m.trans \in Nat
      /\ NodeError \in ResultType /\ NodeError.trans = m.trans /\ ~NodeError.ok
  BY <1>1, OrderTaken
<1>3. m.index \in Nat
  BY <1>2, OrderFields
<1>4. \/ NodeReply(NodeError) /\ UNCHANGED <<nodeSessions, opened, files, disk>>
      \/ /\ IsNodeSession(m.node, m.index) /\ name \in files
         /\ disk' = [disk EXCEPT ![name] = contents]
         /\ opened' = opened \cup {name} /\ files' = files
         /\ EndAtLast(m.node, m.index) /\ NodeReply(done)
  BY DEF NodeGet, nodeVars
<1>5. CASE NodeReply(NodeError) /\ UNCHANGED <<nodeSessions, opened, files, disk>>
  <2>1. \A w \in waits : ResultFor(w, NodeError)
    BY <1>2, FailedResult
  <2>2. /\ nodeSessions' \in Seq(NodeSessionType) /\ opened' \subseteq files'
        /\ files' \subseteq Names /\ disk' \in [Names -> Seq(Data)]
    BY <1>5 DEF Types, NodeTypes
  <2> QED
    BY <1>1, <1>2, <1>5, <2>1, <2>2, NodeStepTypes
<1>6. CASE /\ IsNodeSession(m.node, m.index) /\ name \in files
           /\ disk' = [disk EXCEPT ![name] = contents]
           /\ opened' = opened \cup {name} /\ files' = files
           /\ EndAtLast(m.node, m.index) /\ NodeReply(done)
  <2>1. name \in Names /\ nodeSessions' \in Seq(NodeSessionType)
    BY <1>6, EndAtLastTypes DEF Types
  <2>2. contents \in Seq(Data)
    BY <2>1, OpenedTyped DEF Types
  <2> HIDE DEF contents
  <2>3. data \in Seq(Data)
    BY <1>3, <2>2, ReadAtTyped
  <2> HIDE DEF data
  <2>4. /\ done \in ResultType /\ done.trans = m.trans
        /\ \A w \in waits : w.kind = "get" => ResultFor(w, done)
    BY <1>2, <1>3, <2>3 DEF ResultType, ResultFor
  <2> HIDE DEF name, done
  <2>5. /\ opened' \subseteq files' /\ files' \subseteq Names /\ disk' \in [Names -> Seq(Data)]
    BY <1>6, <2>1, <2>2 DEF Types, NodeTypes
  <2> QED
    BY <1>1, <1>6, <2>1, <2>4, <2>5, NodeStepTypes
<1> QED
  BY <1>4, <1>5, <1>6

\* Links that are cut lose messages and gain none.
LEMMA CutTypes ==
    ASSUME Types, UNCHANGED <<clientVars, c2s, s2c, tree, sessionVars, waits, nextTrans, files, disk>>,
           online' \subseteq Users, nodeSessions' \in Seq(NodeSessionType), opened' \subseteq files,
           s2n' \in Seq(OrderType), Messages(s2n') \subseteq Messages(s2n),
           n2s' \in Seq(ResultType), Messages(n2s') \subseteq Messages(n2s)
    PROVE  Types'
<1>1. ClientTypes' /\ LinkTypes'
  BY ClientSame DEF Types, LinkTypes
<1>2. ServerTypes' /\ NodeTypes'
  BY DEF Types, ServerTypes, NodeTypes, sessionVars
<1>3. Matched' /\ GetsAsked'
  BY DEF Types, Matched, ResultFor, GetsAsked, clientVars
<1> QED
  BY <1>1, <1>2, <1>3 DEF Types

LEMMA LinksCut ==
    ASSUME NodeTypes,
           \E k \in 0 .. Len(s2n) : s2n' = SubSeq(s2n, k + 1, Len(s2n)),
           \E k \in 0 .. Len(n2s) : n2s' = SubSeq(n2s, 1, k)
    PROVE  /\ s2n' \in Seq(OrderType) /\ Messages(s2n') \subseteq Messages(s2n)
           /\ n2s' \in Seq(ResultType) /\ Messages(n2s') \subseteq Messages(n2s)
<1>1. s2n \in Seq(OrderType) /\ n2s \in Seq(ResultType)
  BY DEF NodeTypes
<1>2. PICK k \in 0 .. Len(s2n) : s2n' = SubSeq(s2n, k + 1, Len(s2n))
  OBVIOUS
<1>3. PICK l \in 0 .. Len(n2s) : n2s' = SubSeq(n2s, 1, l)
  OBVIOUS
<1>4. s2n' \in Seq(OrderType) /\ Messages(s2n') \subseteq Messages(s2n)
  BY <1>1, <1>2, Cut
<1>5. n2s' \in Seq(ResultType) /\ Messages(n2s') \subseteq Messages(n2s)
  BY <1>1, <1>3, Cut
<1> QED
  BY <1>4, <1>5

LEMMA LoseConnectionTypes ==
    ASSUME Types, LoseConnection
    PROVE  Types'
<1>1. /\ UNCHANGED <<clientVars, c2s, s2c, tree, sessionVars, waits, nextTrans, files, disk>>
      /\ UNCHANGED <<online, nodeSessions, opened>>
  BY DEF LoseConnection, Fault
<1>2. /\ s2n' \in Seq(OrderType) /\ Messages(s2n') \subseteq Messages(s2n)
      /\ n2s' \in Seq(ResultType) /\ Messages(n2s') \subseteq Messages(n2s)
  BY LinksCut DEF LoseConnection, Types
<1>3. online' \subseteq Users /\ nodeSessions' \in Seq(NodeSessionType) /\ opened' \subseteq files
  BY <1>1 DEF Types, ServerTypes, NodeTypes
<1> QED
  BY <1>1, <1>2, <1>3, CutTypes

LEMMA RestartNodeTypes ==
    ASSUME Types, RestartNode
    PROVE  Types'
<1>1. /\ UNCHANGED <<clientVars, c2s, s2c, tree, sessionVars, waits, nextTrans, files, disk>>
      /\ UNCHANGED online /\ nodeSessions' = <<>> /\ opened' = {}
  BY DEF RestartNode, Fault
<1>2. /\ s2n' \in Seq(OrderType) /\ Messages(s2n') \subseteq Messages(s2n)
      /\ n2s' \in Seq(ResultType) /\ Messages(n2s') \subseteq Messages(n2s)
  BY LinksCut DEF RestartNode, Types
<1>3. online' \subseteq Users
  BY <1>1 DEF Types, ServerTypes
<1>4. nodeSessions' \in Seq(NodeSessionType) /\ opened' \subseteq files
  BY <1>1
<1> QED
  BY <1>1, <1>2, <1>3, <1>4, CutTypes

LEMMA OnlineTypes ==
    ASSUME Types, NEW u \in Users, KickOut(u) \/ Login(u)
    PROVE  Types'
<1>1. /\ UNCHANGED <<clientVars, c2s, s2c, tree, sessionVars, waits, nextTrans, files, disk>>
      /\ UNCHANGED <<nodeSessions, opened, s2n, n2s>>
      /\ online' \subseteq online \cup {u}
  BY DEF KickOut, Fault, Login, nodeVars, links
<1>2. /\ online' \subseteq Users /\ nodeSessions' \in Seq(NodeSessionType) /\ opened' \subseteq files
      /\ s2n' \in Seq(OrderType) /\ n2s' \in Seq(ResultType)
  BY <1>1 DEF Types, ServerTypes, NodeTypes
<1> QED
  BY <1>1, <1>2, CutTypes

-----------------------------------------------------------------------------
(* Types: every step *)

LEMMA TypesInit ==
    ASSUME Init
    PROVE  Types
<1>1. ClientTypes
  <2>1. /\ put = [u \in Users |->
                  [typed |-> FALSE, path |-> "", file |-> "", max |-> 0, session |-> 0]]
        /\ get = [u \in Users |-> [path |-> "", max |-> 0, session |-> 0]]
        /\ local = [u \in Users |-> [p \in Paths |-> <<>>]]
        /\ meta = [u \in Users |-> [p \in Paths |-> 0]]
    BY DEF Init
  <2>2. put \in [Users -> PutType] /\ \A u \in Users : ~put[u].typed /\ ~(put[u].max > 0)
    <3> DEFINE new == [typed |-> FALSE, path |-> "", file |-> "", max |-> 0, session |-> 0]
    <3>1. new \in PutType /\ ~new.typed /\ ~(new.max > 0)
      BY DEF PutType
    <3>2. put = [u \in Users |-> new]
      BY <2>1
    <3> HIDE DEF new
    <3> QED
      BY <3>1, <3>2
  <2>3. get \in [Users -> [path : Paths \cup {""}, max : Nat, session : Nat]]
    BY <2>1
  <2>4. local \in [Users -> [Paths -> Seq(Data)]] /\ meta \in [Users -> [Paths -> Nat]]
    <3> DEFINE new == [p \in Paths |-> <<>>]
    <3>1. new \in [Paths -> Seq(Data)]
      OBVIOUS
    <3>2. local = [u \in Users |-> new]
      BY <2>1
    <3> HIDE DEF new
    <3> QED
      BY <2>1, <3>1, <3>2
  <2> QED
    BY <2>2, <2>3, <2>4 DEF ClientTypes
<1>2. LinkTypes
  <2>1. c2s = [u \in Users |-> <<>>] /\ s2c = [u \in Users |-> <<>>]
    BY DEF Init
  <2> QED
    BY <2>1 DEF LinkTypes
<1>6. NodeTypes
  <2>1. /\ nodeSessions = <<>> /\ opened = {} /\ files = {} /\ s2n = <<>> /\ n2s = <<>>
        /\ disk = [n \in Names |-> <<>>]
    BY DEF Init
  <2> QED
    BY <2>1 DEF NodeTypes
<1>3. ServerTypes
  <2>1. /\ online = Users /\ tree = {} /\ sessions = <<>> /\ waits = {} /\ nextTrans = 1
        /\ index = [p \in Paths |-> 0]
    BY DEF Init
  <2> QED
    BY <2>1 DEF ServerTypes
<1>4. Matched
  <2>1. s2n = <<>> /\ n2s = <<>> /\ waits = {}
    BY DEF Init
  <2> QED
    BY <2>1, NoRequests DEF Matched
<1>5. GetsAsked
  <2>1. c2s = [u \in Users |-> <<>>] /\ s2c = [u \in Users |-> <<>>] /\ waits = {}
    BY DEF Init
  <2> QED
    BY <2>1, NoRequests DEF GetsAsked
<1> QED
  BY <1>1, <1>2, <1>3, <1>4, <1>5, <1>6 DEF Types

LEMMA TypesSame ==
    ASSUME Types, UNCHANGED vars
    PROVE  Types'
<1>1. ClientTypes' /\ ServerTypes' /\ NodeTypes' /\ Matched'
  BY ClientSame, ServerSame, NodeSame, MatchedSame DEF Types, vars, serverVars, sessionVars
<1>2. LinkTypes' /\ GetsAsked'
  BY DEF Types, LinkTypes, GetsAsked, vars, clientVars, serverVars
<1> QED
  BY <1>1, <1>2 DEF Types

LEMMA TypesNext ==
    ASSUME Types, [Next]_vars
    PROVE  Types'
<1>1. ASSUME NEW u \in Users, Client(u)
      PROVE  Types'
  BY <1>1, PutRequestTypes, ReadErrorTypes, ReadPutSessionTypes, ReadPutTypes,
     ReadGetSessionTypes, ReadGetTypes DEF Client
<1>2. ASSUME NEW u \in Users, Console(u)
      PROVE  Types'
  BY <1>2, PutCommandTypes, GetCommandTypes, RemoveCommandTypes DEF Console
<1>3. ASSUME NEW u \in Users, Request(u)
      PROVE  Types'
  BY <1>3, PutSessionOnInitTypes, PutOnInitTypes, GetSessionOnInitTypes, GetOnInitTypes,
     RemoveOnInitTypes DEF Request
<1>4. CASE Answer
  <2>1. ASSUME NEW w \in waits, PutSessionOnActive(w) \/ GetSessionOnActive(w)
        PROVE  Types'
    BY <2>1, SessionOnActiveTypes DEF PutSessionOnActive, GetSessionOnActive
  <2> QED
    BY <1>4, <2>1, PutOnActiveTypes, GetOnActiveTypes, LateAnswerTypes DEF Answer
<1>5. CASE Node
  BY <1>5, NodePutSessionTypes, NodePutTypes, NodeGetSessionTypes, NodeGetTypes DEF Node
<1>6. CASE UNCHANGED vars
  BY <1>6, TypesSame
<1> QED
  BY <1>1, <1>2, <1>3, <1>4, <1>5, <1>6, TimeoutTypes, OnlineTypes, LoseConnectionTypes,
     RestartNodeTypes DEF Next

\* What is on the way, what waits and what every process keeps is of its type, and the
\* results of the storage node are of the kind the transactions wait for: the invariant
\* that the theorems below rest on.
THEOREM TransferInvariant ==
    Spec => []Types
<1>1. Init => Types
  BY TypesInit
<1>2. Types /\ [Next]_vars => Types'
  BY TypesNext
<1> QED
  BY <1>1, <1>2, PTL DEF Spec
-----------------------------------------------------------------------------
(* The number of requests that are not answered *)

LEMMA AwaitedType ==
    ASSUME NEW S, NEW list \in Seq(S)
    PROVE  /\ IsFiniteSet({i \in DOMAIN list : list[i].kind # "remove"})
           /\ Awaited(list) \in Nat
<1> DEFINE all == {i \in DOMAIN list : list[i].kind # "remove"}
           n == Len(list)
<1>1. n \in Nat /\ DOMAIN list = 1 .. n
  OBVIOUS
<1> HIDE DEF n
<1>2. IsFiniteSet(1 .. n)
  BY <1>1, FS_Interval
<1>3. all \in SUBSET (1 .. n)
  BY <1>1
<1> HIDE DEF all
<1>4. IsFiniteSet(all)
  BY <1>2, <1>3, FS_Subset
<1>5. Cardinality(all) \in Nat
  BY <1>4, FS_CardinalityType
<1> QED
  BY <1>4, <1>5 DEF all, Awaited

LEMMA AwaitedEmpty ==
    Awaited(<<>>) = 0
<1>1. {i \in DOMAIN <<>> : <<>>[i].kind # "remove"} = {}
  OBVIOUS
<1> QED
  BY <1>1, FS_EmptySet DEF Awaited

\* More requests count for at most one each, those that nobody answers for none.
LEMMA AwaitedMore ==
    ASSUME NEW S, NEW a \in Seq(S), NEW b \in Seq(S)
    PROVE  Awaited(a \o b) <= Awaited(a) + Len(b)
<1> DEFINE n == Len(a)
           m == Len(b)
           all == a \o b
           A == {i \in DOMAIN a : a[i].kind # "remove"}
           C == {i \in DOMAIN all : all[i].kind # "remove"}
           I == n + 1 .. n + m
<1>1. n \in Nat /\ m \in Nat /\ DOMAIN a = 1 .. n
  OBVIOUS
<1>2. /\ all \in Seq(S) /\ Len(all) = n + m
      /\ \A i \in 1 .. n + m : all[i] = IF i <= n THEN a[i] ELSE b[i - n]
  BY ConcatProperties
<1>3. IsFiniteSet(A) /\ Cardinality(A) \in Nat
  BY AwaitedType DEF Awaited
<1> HIDE DEF n, m, all
<1>4. DOMAIN all = 1 .. n + m
  BY <1>2
<1>5. IsFiniteSet(I) /\ Cardinality(I) = m
  <2>1. n + 1 \in Int /\ n + m \in Int /\ (IF n + 1 > n + m THEN 0 ELSE (n + m) - (n + 1) + 1) = m
    BY <1>1
  <2> QED
    BY <2>1, FS_Interval
<1>6. C \subseteq A \cup I
  <2>1. \A i \in 1 .. n + m : (i <= n /\ i \in 1 .. n) \/ i \in I
    BY <1>1
  <2> QED
    BY <1>1, <1>2, <1>4, <2>1
<1> HIDE DEF A, I, C
<1>7. /\ IsFiniteSet(A \cup I) /\ Cardinality(A \cup I) \in Nat
      /\ Cardinality(A \cup I) <= Cardinality(A) + m
  <2>1. /\ IsFiniteSet(A \cup I)
        /\ Cardinality(A \cup I) = Cardinality(A) + Cardinality(I) - Cardinality(A \cap I)
    BY <1>3, <1>5, FS_Union
  <2>2. IsFiniteSet(A \cap I)
    BY <1>3, FS_Subset
  <2>3. Cardinality(A \cap I) \in Nat
    BY <2>2, FS_CardinalityType
  <2>4. Cardinality(A \cup I) \in Nat
    BY <2>1, FS_CardinalityType
  <2> QED
    BY <1>1, <1>3, <1>5, <2>1, <2>3, <2>4
<1>8. IsFiniteSet(C) /\ Cardinality(C) <= Cardinality(A \cup I)
  BY <1>6, <1>7, FS_Subset
<1>9. Cardinality(C) \in Nat
  BY <1>8, FS_CardinalityType
<1>10. Cardinality(C) <= Cardinality(A) + m
  BY <1>1, <1>3, <1>7, <1>8, <1>9
<1> QED
  BY <1>10 DEF Awaited, A, C, all, m

LEMMA AwaitedAppended ==
    ASSUME NEW S, NEW a \in Seq(S), NEW x \in S
    PROVE  /\ Awaited(Append(a, x)) <= Awaited(a) + 1
           /\ x.kind = "remove" => Awaited(Append(a, x)) = Awaited(a)
<1> DEFINE one == <<x>>
<1>1. one \in Seq(S) /\ Len(one) = 1 /\ Append(a, x) = a \o one
  OBVIOUS
<1> HIDE DEF one
<1>2. Awaited(Append(a, x)) <= Awaited(a) + 1
  BY <1>1, AwaitedMore
<1>3. ASSUME x.kind = "remove"
      PROVE  Awaited(Append(a, x)) = Awaited(a)
  <2> DEFINE n == Len(a)
             more == Append(a, x)
  <2>1. n \in Nat /\ DOMAIN a = 1 .. n
    OBVIOUS
  <2>2. /\ more \in Seq(S) /\ Len(more) = n + 1 /\ more[n + 1] = x
        /\ \A i \in 1 .. n : more[i] = a[i]
    BY AppendProperties
  <2> HIDE DEF n, more
  <2>3. DOMAIN more = 1 .. n + 1
    BY <2>2
  <2>4. \A i \in 1 .. n + 1 : i \in 1 .. n \/ i = n + 1
    BY <2>1
  <2>5. \A i \in 1 .. n : i \in 1 .. n + 1
    BY <2>1
  <2>6. {i \in DOMAIN more : more[i].kind # "remove"} = {i \in DOMAIN a : a[i].kind # "remove"}
    BY <1>3, <2>1, <2>2, <2>3, <2>4, <2>5
  <2> QED
    BY <2>6 DEF Awaited, more
<1> QED
  BY <1>2, <1>3

LEMMA AwaitedTail ==
    ASSUME NEW S, NEW list \in Seq(S), list # <<>>
    PROVE  Awaited(Tail(list)) <= IF Head(list).kind = "remove" THEN Awaited(list)
                                  ELSE Awaited(list) - 1
<1> DEFINE rest == Tail(list)
           A == {i \in DOMAIN list : list[i].kind # "remove"}
           R == {i \in DOMAIN rest : rest[i].kind # "remove"}
           shift == [i \in R |-> i + 1]
<1>1. /\ rest \in Seq(S) /\ Head(list) = list[1]
      /\ \A i \in DOMAIN rest : i + 1 \in DOMAIN list /\ rest[i] = list[i + 1]
  BY HeadTaken
<1>2. DOMAIN rest \subseteq Nat \ {0} /\ 1 \in DOMAIN list
  <2>1. rest \in Seq(S) /\ list # <<>>
    BY <1>1
  <2> HIDE DEF rest
  <2> QED
    BY <2>1, EmptySeq
<1>3. IsFiniteSet(A) /\ Cardinality(A) \in Nat /\ Cardinality(A) = Awaited(list)
  BY AwaitedType DEF Awaited
<1>4. Cardinality(R) \in Nat /\ Cardinality(R) = Awaited(rest)
  BY <1>1, AwaitedType DEF Awaited
<1> HIDE DEF rest
<1>5. shift \in Injection(R, A \ {1})
  <2>1. \A i \in R : i \in Nat \ {0} /\ i + 1 \in A /\ i + 1 # 1
    BY <1>1, <1>2
  <2> HIDE DEF R, A
  <2>2. shift \in [R -> A \ {1}] /\ \A i, j \in R : shift[i] = shift[j] => i = j
    BY <2>1
  <2> QED
    BY <2>2 DEF Injection, IsInjective
<1>6. Head(list).kind # "remove" => 1 \in A
  BY <1>1, <1>2
<1> HIDE DEF A, R, shift
<1>7. /\ IsFiniteSet(A \ {1})
      /\ Cardinality(A \ {1}) = IF 1 \in A THEN Cardinality(A) - 1 ELSE Cardinality(A)
  BY <1>3, FS_RemoveElement
<1>8. Cardinality(R) <= Cardinality(A \ {1})
  BY <1>5, <1>7, FS_Injection
<1> QED
  BY <1>3, <1>4, <1>6, <1>7, <1>8 DEF rest

LEMMA WaitsCounted ==
    ASSUME IsFiniteSet(waits), NEW u
    PROVE  IsFiniteSet(WaitsOf(u)) /\ Cardinality(WaitsOf(u)) \in Nat
<1>1. IsFiniteSet(WaitsOf(u))
  BY FS_Subset DEF WaitsOf
<1> QED
  BY <1>1, FS_CardinalityType

LEMMA WaitAdded ==
    ASSUME IsFiniteSet(waits), NEW w, waits' = waits \cup {w}
    PROVE  /\ IsFiniteSet(waits')
           /\ Cardinality(WaitsOf(w.user)') <= Cardinality(WaitsOf(w.user)) + 1
           /\ Cardinality(WaitsOf(w.user)') \in Nat
           /\ \A x : x # w.user => WaitsOf(x)' = WaitsOf(x)
<1> DEFINE old == WaitsOf(w.user)
<1>1. IsFiniteSet(waits')
  BY FS_AddElement
<1>2. WaitsOf(w.user)' = old \cup {w} /\ \A x : x # w.user => WaitsOf(x)' = WaitsOf(x)
  BY DEF WaitsOf
<1>3. IsFiniteSet(old) /\ Cardinality(old) \in Nat
  BY WaitsCounted
<1> HIDE DEF old
<1>4. /\ IsFiniteSet(old \cup {w})
      /\ Cardinality(old \cup {w}) = IF w \in old THEN Cardinality(old) ELSE Cardinality(old) + 1
  BY <1>3, FS_AddElement
<1>5. Cardinality(old \cup {w}) \in Nat /\ Cardinality(old \cup {w}) <= Cardinality(old) + 1
  BY <1>3, <1>4
<1> QED
  BY <1>1, <1>2, <1>5 DEF old

LEMMA WaitEnded ==
    ASSUME IsFiniteSet(waits), NEW w \in waits, waits' = waits \ {w}
    PROVE  /\ IsFiniteSet(waits')
           /\ Cardinality(WaitsOf(w.user)') = Cardinality(WaitsOf(w.user)) - 1
           /\ Cardinality(WaitsOf(w.user)) \in Nat \ {0}
           /\ \A x : x # w.user => WaitsOf(x)' = WaitsOf(x)
<1> DEFINE old == WaitsOf(w.user)
<1>1. IsFiniteSet(waits')
  BY FS_RemoveElement
<1>2. /\ WaitsOf(w.user)' = old \ {w} /\ \A x : x # w.user => WaitsOf(x)' = WaitsOf(x)
      /\ w \in old
  BY DEF WaitsOf
<1>3. IsFiniteSet(old) /\ Cardinality(old) \in Nat
  BY WaitsCounted
<1> HIDE DEF old
<1>4. /\ IsFiniteSet(old \ {w}) /\ Cardinality(old \ {w}) = Cardinality(old) - 1
  BY <1>2, <1>3, FS_RemoveElement
<1>5. Cardinality(old \ {w}) \in Nat
  BY <1>4, FS_CardinalityType
<1> QED
  BY <1>1, <1>2, <1>3, <1>4, <1>5 DEF old
\* A step of one client, or for one client.
LEMMA CountedFor ==
    ASSUME Counted, NEW u \in Users, IsFiniteSet(waits'), unanswered' \in [Users -> Nat],
           \A x \in Users \ {u} : /\ unanswered'[x] = unanswered[x] /\ c2s'[x] = c2s[x]
                                  /\ s2c'[x] = s2c[x] /\ WaitsOf(x)' = WaitsOf(x),
           unanswered'[u] >= Load(u)'
    PROVE  Counted'
<1>1. \A x \in Users \ {u} : Load(x)' = Load(x)
  BY DEF Load
<1>2. \A x \in Users : unanswered'[x] >= Load(x)'
  BY <1>1 DEF Counted
<1> QED
  BY <1>2 DEF Counted

LEMMA CountedSame ==
    ASSUME Counted, UNCHANGED <<unanswered, c2s, s2c, waits>>
    PROVE  Counted'
BY DEF Counted, Load, WaitsOf

\* The parts of a client's load are numbers.
LEMMA LoadParts ==
    ASSUME Types, Counted, NEW u \in Users
    PROVE  /\ Awaited(c2s[u]) \in Nat /\ Cardinality(WaitsOf(u)) \in Nat /\ Len(s2c[u]) \in Nat
           /\ unanswered[u] \in Nat
           /\ unanswered[u] >= Awaited(c2s[u]) + Cardinality(WaitsOf(u)) + Len(s2c[u])
<1>1. c2s[u] \in Seq(RequestType) /\ s2c[u] \in Seq(AnswerType)
  BY DEF Types, LinkTypes
<1>2. Awaited(c2s[u]) \in Nat
  BY <1>1, AwaitedType
<1>3. Cardinality(WaitsOf(u)) \in Nat
  BY WaitsCounted DEF Counted
<1>4. Len(s2c[u]) \in Nat
  BY <1>1
<1> QED
  BY <1>2, <1>3, <1>4 DEF Counted, Load

\* A request is entered and waited for.
LEMMA AskedCounted ==
    ASSUME Types, Types', Counted, NEW u \in Users, NEW request \in RequestType,
           Ask(u, <<request>>), UNCHANGED <<s2c, waits>>
    PROVE  Counted'
<1> DEFINE n == unanswered[u]
           more == Append(c2s[u], request)
<1>1. c2s' = [c2s EXCEPT ![u] = Append(@, request)]
  BY AskOne DEF Types
<1>2. c2s \in [Users -> Seq(RequestType)] /\ c2s[u] \in Seq(RequestType)
  BY DEF Types, LinkTypes
<1>3. Awaited(more) <= Awaited(c2s[u]) + 1
  BY <1>2, AwaitedAppended
<1>4. c2s' = [c2s EXCEPT ![u] = more]
  BY <1>1
<1> HIDE DEF more
<1>5. c2s'[u] = more /\ \A x \in Users \ {u} : c2s'[x] = c2s[x]
  BY <1>2, <1>4
<1>6. unanswered' = [unanswered EXCEPT ![u] = n + 1]
  <2>1. Len(<<request>>) = 1
    OBVIOUS
  <2> QED
    BY <2>1 DEF Ask
<1>7. unanswered \in [Users -> Nat] /\ n \in Nat
  BY DEF Counted
<1> HIDE DEF n
<1>8. /\ unanswered' \in [Users -> Nat] /\ unanswered'[u] = n + 1
      /\ \A x \in Users \ {u} : unanswered'[x] = unanswered[x]
  BY <1>6, <1>7
<1>9. WaitsOf(u)' = WaitsOf(u) /\ \A x : WaitsOf(x)' = WaitsOf(x)
  BY DEF WaitsOf
<1>10. unanswered'[u] >= Load(u)'
  <2>1. /\ Awaited(c2s[u]) \in Nat /\ Cardinality(WaitsOf(u)) \in Nat /\ Len(s2c[u]) \in Nat
        /\ n >= Awaited(c2s[u]) + Cardinality(WaitsOf(u)) + Len(s2c[u])
    BY LoadParts DEF n
  <2>2. Load(u)' = Awaited(more) + Cardinality(WaitsOf(u)) + Len(s2c[u])
    BY <1>5, <1>9 DEF Load
  <2>3. Awaited(more) \in Nat
    <3>1. more \in Seq(RequestType)
      BY <1>2, Appended DEF more
    <3> QED
      BY <3>1, AwaitedType
  <2> QED
    BY <1>3, <1>7, <1>8, <2>1, <2>2, <2>3
<1>11. IsFiniteSet(waits')
  BY DEF Counted
<1> QED
  BY <1>5, <1>8, <1>9, <1>10, <1>11, CountedFor

\* An answer is read, and more requests may follow.
LEMMA AnsweredCounted ==
    ASSUME Types, Counted, NEW u \in Users, NEW requests \in Seq(RequestType),
           Answered(u, requests)
    PROVE  Counted'
<1> DEFINE n == unanswered[u]
           k == Len(requests)
           more == c2s[u] \o requests
<1>1. /\ s2c[u] # <<>> /\ s2c' = [s2c EXCEPT ![u] = Tail(@)]
      /\ c2s' = [c2s EXCEPT ![u] = more]
      /\ unanswered' = [unanswered EXCEPT ![u] = n + k - 1]
      /\ waits' = waits
  BY DEF Answered, serverVars
<1>2. c2s \in [Users -> Seq(RequestType)] /\ c2s[u] \in Seq(RequestType) /\ s2c[u] \in Seq(AnswerType)
  BY DEF Types, LinkTypes
<1>3. Awaited(more) <= Awaited(c2s[u]) + k /\ more \in Seq(RequestType)
  BY <1>2, AwaitedMore, Concatenated
<1>4. k \in Nat
  OBVIOUS
<1>5. Awaited(more) \in Nat
  BY <1>3, AwaitedType
<1> HIDE DEF more, k
<1>6. c2s'[u] = more /\ \A x \in Users \ {u} : c2s'[x] = c2s[x]
  BY <1>1, <1>2
<1>7. Len(s2c'[u]) = Len(s2c[u]) - 1 /\ \A x \in Users \ {u} : s2c'[x] = s2c[x]
  BY AnsweredLinks DEF Types
<1>8. unanswered \in [Users -> Nat] /\ n \in Nat
  BY DEF Counted
<1>9. /\ Awaited(c2s[u]) \in Nat /\ Cardinality(WaitsOf(u)) \in Nat /\ Len(s2c[u]) \in Nat
      /\ n >= Awaited(c2s[u]) + Cardinality(WaitsOf(u)) + Len(s2c[u])
  BY LoadParts
<1>10. Len(s2c[u]) \in Nat \ {0}
  BY <1>1, <1>2, HeadTaken
<1> HIDE DEF n
<1>11. n + k - 1 \in Nat
  BY <1>4, <1>8, <1>9, <1>10
<1>12. /\ unanswered' \in [Users -> Nat] /\ unanswered'[u] = n + k - 1
       /\ \A x \in Users \ {u} : unanswered'[x] = unanswered[x]
  BY <1>1, <1>8, <1>11
<1>13. \A x : WaitsOf(x)' = WaitsOf(x)
  BY <1>1 DEF WaitsOf
<1>14. unanswered'[u] >= Load(u)'
  <2>1. PICK a, b, c, l : /\ a = Awaited(more) /\ b = Awaited(c2s[u])
                          /\ c = Cardinality(WaitsOf(u)) /\ l = Len(s2c[u])
    OBVIOUS
  <2>2. Load(u)' = a + c + (l - 1)
    BY <1>6, <1>7, <1>13, <2>1 DEF Load
  <2>3. /\ a \in Nat /\ b \in Nat /\ c \in Nat /\ l \in Nat
        /\ a <= b + k /\ n >= b + c + l
    BY <1>3, <1>5, <1>9, <2>1
  <2>4. n + k - 1 >= a + c + (l - 1)
    BY <1>4, <1>8, <2>3
  <2> QED
    BY <1>12, <2>2, <2>4
<1>15. IsFiniteSet(waits')
  BY <1>1 DEF Counted
<1> QED
  BY <1>6, <1>7, <1>12, <1>13, <1>14, <1>15, CountedFor

\* A request is received: it counts no longer, and what becomes of it counts instead.
LEMMA ReceivedCounted ==
    ASSUME Types, Counted, NEW u \in Users, NEW kind, Received(u, kind)
    PROVE  /\ unanswered' = unanswered
           /\ \A x \in Users \ {u} : c2s'[x] = c2s[x]
           /\ Awaited(c2s'[u]) \in Nat
           /\ Awaited(c2s'[u]) <= IF kind = "remove" THEN Awaited(c2s[u]) ELSE Awaited(c2s[u]) - 1
<1>1. /\ c2s[u] # <<>> /\ Head(c2s[u]).kind = kind /\ unanswered' = unanswered
      /\ c2s' = [c2s EXCEPT ![u] = Tail(@)]
  BY DEF Received
<1>2. c2s \in [Users -> Seq(RequestType)] /\ c2s[u] \in Seq(RequestType)
  BY DEF Types, LinkTypes
<1> DEFINE rest == Tail(c2s[u])
<1>3. Awaited(rest) <= IF kind = "remove" THEN Awaited(c2s[u]) ELSE Awaited(c2s[u]) - 1
  BY <1>1, <1>2, AwaitedTail
<1>4. rest \in Seq(RequestType)
  BY <1>1, <1>2, HeadTaken
<1>5. c2s' = [c2s EXCEPT ![u] = rest]
  BY <1>1
<1> HIDE DEF rest
<1>6. c2s'[u] = rest /\ \A x \in Users \ {u} : c2s'[x] = c2s[x]
  BY <1>2, <1>5
<1>7. Awaited(rest) \in Nat
  BY <1>4, AwaitedType
<1> QED
  BY <1>1, <1>3, <1>6, <1>7
LEMMA RefuseCounted ==
    ASSUME Types, Counted, NEW u \in Users, NEW kind \in WaitKinds, Received(u, kind),
           Refuse(u, kind)
    PROVE  Counted'
<1> DEFINE answer == [kind |-> kind, ok |-> FALSE]
<1>1. /\ unanswered' = unanswered /\ \A x \in Users \ {u} : c2s'[x] = c2s[x]
      /\ Awaited(c2s'[u]) \in Nat /\ Awaited(c2s'[u]) <= Awaited(c2s[u]) - 1
  BY ReceivedCounted DEF WaitKinds
<1>2. s2c' = [s2c EXCEPT ![u] = Append(@, answer)] /\ waits' = waits /\ answer \in AnswerType
  BY FailureTyped DEF Refuse
<1> HIDE DEF answer
<1>3. Len(s2c'[u]) = Len(s2c[u]) + 1 /\ \A x \in Users \ {u} : s2c'[x] = s2c[x]
  BY <1>2, RepliedLinks DEF Types
<1>4. \A x : WaitsOf(x)' = WaitsOf(x)
  BY <1>2 DEF WaitsOf
<1>5. unanswered'[u] >= Load(u)'
  <2>1. Load(u)' = Awaited(c2s'[u]) + Cardinality(WaitsOf(u)) + (Len(s2c[u]) + 1)
    BY <1>3, <1>4 DEF Load
  <2> QED
    BY <1>1, <2>1, LoadParts
<1>6. IsFiniteSet(waits') /\ unanswered' \in [Users -> Nat]
  BY <1>1, <1>2 DEF Counted
<1> QED
  BY <1>1, <1>3, <1>4, <1>5, <1>6, CountedFor

LEMMA WaitCounted ==
    ASSUME Types, Counted, NEW u \in Users, NEW kind \in WaitKinds, Received(u, kind),
           NEW s, NEW p, NEW order, Wait(u, kind, s, p, order)
    PROVE  Counted'
<1> DEFINE w == [id |-> nextTrans, kind |-> kind, user |-> u, session |-> s, path |-> p]
<1>1. /\ unanswered' = unanswered /\ \A x \in Users \ {u} : c2s'[x] = c2s[x]
      /\ Awaited(c2s'[u]) \in Nat /\ Awaited(c2s'[u]) <= Awaited(c2s[u]) - 1
  BY ReceivedCounted DEF WaitKinds
<1>2. s2c' = s2c /\ waits' = waits \cup {w} /\ w.user = u
  BY DEF Wait
<1> HIDE DEF w
<1>3. /\ IsFiniteSet(waits') /\ Cardinality(WaitsOf(u)') \in Nat
      /\ Cardinality(WaitsOf(u)') <= Cardinality(WaitsOf(u)) + 1
      /\ \A x : x # u => WaitsOf(x)' = WaitsOf(x)
  BY <1>2, WaitAdded DEF Counted
<1>4. unanswered'[u] >= Load(u)'
  <2>1. Load(u)' = Awaited(c2s'[u]) + Cardinality(WaitsOf(u)') + Len(s2c[u])
    BY <1>2 DEF Load
  <2> QED
    BY <1>1, <1>3, <2>1, LoadParts
<1>5. unanswered' \in [Users -> Nat]
  BY <1>1 DEF Counted
<1> QED
  BY <1>1, <1>2, <1>3, <1>4, <1>5, CountedFor

LEMMA RequestCounted ==
    ASSUME Types, Counted, NEW u \in Users, Request(u)
    PROVE  Counted'
<1>1. CASE PutSessionOnInit(u)
  BY <1>1, RefuseCounted, WaitCounted, KindsOfWaits DEF PutSessionOnInit
<1>2. CASE PutOnInit(u)
  BY <1>2, RefuseCounted, WaitCounted, KindsOfWaits DEF PutOnInit
<1>3. CASE GetSessionOnInit(u)
  BY <1>3, RefuseCounted, WaitCounted, KindsOfWaits DEF GetSessionOnInit
<1>4. CASE GetOnInit(u)
  BY <1>4, RefuseCounted, WaitCounted, KindsOfWaits DEF GetOnInit
<1>5. CASE RemoveOnInit(u)
  <2>1. Received(u, "remove") /\ UNCHANGED <<s2c, waits>>
    BY <1>5 DEF RemoveOnInit
  <2>2. /\ unanswered' = unanswered /\ \A x \in Users \ {u} : c2s'[x] = c2s[x]
        /\ Awaited(c2s'[u]) \in Nat /\ Awaited(c2s'[u]) <= Awaited(c2s[u])
    BY <2>1, ReceivedCounted
  <2>3. \A x : WaitsOf(x)' = WaitsOf(x)
    BY <2>1 DEF WaitsOf
  <2>4. unanswered'[u] >= Load(u)'
    <3>1. Load(u)' = Awaited(c2s'[u]) + Cardinality(WaitsOf(u)) + Len(s2c[u])
      BY <2>1, <2>3 DEF Load
    <3> QED
      BY <2>2, <3>1, LoadParts
  <2>5. IsFiniteSet(waits') /\ unanswered' \in [Users -> Nat]
    BY <2>1, <2>2 DEF Counted
  <2> QED
    BY <2>1, <2>2, <2>3, <2>4, <2>5, CountedFor
<1> QED
  BY <1>1, <1>2, <1>3, <1>4, <1>5 DEF Request

LEMMA RemoveCommandCounted ==
    ASSUME Types, Counted, NEW u \in Users, NEW p \in Paths, RemoveCommand(u, p)
    PROVE  Counted'
<1> DEFINE request == [kind |-> "remove", path |-> p]
           more == Append(c2s[u], request)
<1>1. c2s' = [c2s EXCEPT ![u] = more] /\ UNCHANGED <<s2c, waits, unanswered>>
  BY DEF RemoveCommand, Command, serverVars
<1>2. c2s \in [Users -> Seq(RequestType)] /\ c2s[u] \in Seq(RequestType)
  BY DEF Types, LinkTypes
<1>3. request \in RequestType /\ request.kind = "remove"
  BY DEF RequestType
<1> HIDE DEF request
<1>4. Awaited(more) = Awaited(c2s[u])
  BY <1>2, <1>3, AwaitedAppended
<1> HIDE DEF more
<1>5. c2s'[u] = more /\ \A x \in Users \ {u} : c2s'[x] = c2s[x]
  BY <1>1, <1>2
<1>6. \A x : WaitsOf(x)' = WaitsOf(x)
  BY <1>1 DEF WaitsOf
<1>7. unanswered'[u] >= Load(u)'
  <2>1. Load(u)' = Load(u)
    BY <1>1, <1>4, <1>5, <1>6 DEF Load
  <2> QED
    BY <1>1, <2>1 DEF Counted
<1>8. IsFiniteSet(waits') /\ unanswered' \in [Users -> Nat]
  BY <1>1 DEF Counted
<1> QED
  BY <1>1, <1>5, <1>6, <1>7, <1>8, CountedFor

\* A transaction ends, with one answer or with none.
LEMMA EndedCounted ==
    ASSUME Types, Counted, NEW w \in waits, waits' = waits \ {w}, UNCHANGED <<c2s, unanswered>>,
           \/ \E answer : Reply(w, answer)
           \/ UNCHANGED s2c
    PROVE  Counted'
<1> DEFINE u == w.user
<1>1. u \in Users
  BY WaitFields DEF Types
<1>2. /\ IsFiniteSet(waits')
      /\ Cardinality(WaitsOf(u)') = Cardinality(WaitsOf(u)) - 1
      /\ Cardinality(WaitsOf(u)) \in Nat \ {0}
      /\ \A x : x # u => WaitsOf(x)' = WaitsOf(x)
  BY WaitEnded DEF Counted
<1>3. \/ \E answer : s2c' = [s2c EXCEPT ![u] = Append(@, answer)]
      \/ UNCHANGED s2c
  BY DEF Reply
<1> HIDE DEF u
<1>4. s2c[u] \in Seq(AnswerType) /\ Len(s2c[u]) \in Nat
  BY <1>1, LoadParts DEF Types, LinkTypes
<1>5. /\ Len(s2c'[u]) \in {Len(s2c[u]), Len(s2c[u]) + 1}
      /\ \A x \in Users \ {u} : s2c'[x] = s2c[x]
  <2>1. s2c \in [Users -> Seq(AnswerType)]
    BY DEF Types, LinkTypes
  <2>2. CASE \E answer : s2c' = [s2c EXCEPT ![u] = Append(@, answer)]
    <3>1. PICK answer : s2c' = [s2c EXCEPT ![u] = Append(@, answer)]
      BY <2>2
    <3> DEFINE more == Append(s2c[u], answer)
    <3>2. s2c' = [s2c EXCEPT ![u] = more]
      BY <3>1
    <3>3. Len(more) = Len(s2c[u]) + 1
      <4>1. s2c[u] \in Seq(AnswerType \cup {answer}) /\ answer \in AnswerType \cup {answer}
        BY <1>4
      <4> QED
        BY <4>1, AppendProperties
    <3> HIDE DEF more
    <3> QED
      BY <1>1, <2>1, <3>2, <3>3
  <2> QED
    BY <1>3, <2>2
<1>6. unanswered'[u] >= Load(u)'
  <2>1. Load(u)' = Awaited(c2s[u]) + (Cardinality(WaitsOf(u)) - 1) + Len(s2c'[u])
    BY <1>2 DEF Load
  <2> QED
    BY <1>1, <1>2, <1>4, <1>5, <2>1, LoadParts
<1>7. unanswered' \in [Users -> Nat]
  BY DEF Counted
<1> QED
  BY <1>1, <1>2, <1>5, <1>6, <1>7, CountedFor
LEMMA CountedInit ==
    ASSUME Init
    PROVE  Counted
<1>1. /\ waits = {} /\ unanswered = [u \in Users |-> 0]
      /\ c2s = [u \in Users |-> <<>>] /\ s2c = [u \in Users |-> <<>>]
  BY DEF Init
<1>2. IsFiniteSet(waits) /\ \A u : WaitsOf(u) = {}
  BY <1>1, FS_EmptySet DEF WaitsOf
<1>3. Cardinality({}) = 0
  BY FS_EmptySet
<1>4. \A u \in Users : Load(u) = 0
  <2> SUFFICES ASSUME NEW u \in Users
               PROVE  Load(u) = 0
    OBVIOUS
  <2>1. c2s[u] = <<>> /\ s2c[u] = <<>>
    BY <1>1
  <2>2. Len(s2c[u]) = 0
    BY <2>1
  <2>3. Awaited(c2s[u]) = 0
    BY <2>1, AwaitedEmpty
  <2>4. Cardinality(WaitsOf(u)) = 0
    BY <1>2, <1>3
  <2> QED
    BY <2>2, <2>3, <2>4 DEF Load
<1> QED
  BY <1>1, <1>2, <1>4 DEF Counted

\* Reading an answer sends what its handler asks for.
LEMMA ClientSends ==
    ASSUME Types, NEW u \in Users, Client(u)
    PROVE  \/ PutRequest(u)
           \/ \E requests \in Seq(RequestType) :
                 /\ Answered(u, requests)
                 /\ \A m \in Messages(requests) : m.kind = "put" => IsFragment(m)
<1> DEFINE m == Head(s2c[u])
           Sends == \E requests \in Seq(RequestType) :
                        /\ Answered(u, requests)
                        /\ \A r \in Messages(requests) : r.kind = "put" => IsFragment(r)
<1>1. s2c[u] # <<>> => m \in AnswerType /\ m \in Messages(s2c[u])
  BY HeadTaken DEF Types, LinkTypes
<1>2. CASE ReadError(u) \/ ReadPut(u) \/ ReadGet(u)
  <2>1. Answered(u, <<>>)
    BY <1>2 DEF ReadError, ReadPut, ReadGet
  <2> QED
    BY <2>1, NoRequests
<1>3. CASE ReadPutSession(u)
  <2>1. /\ s2c[u] # <<>> /\ m.ok /\ m.kind = "putSession"
        /\ Answered(u, Remaining(u, m.session, m.next))
    BY <1>3 DEF ReadPutSession
  <2>2. m.session \in Nat /\ m.next \in Nat
    BY <1>1, <2>1, AnswerFields
  <2> HIDE DEF m
  <2>3. /\ Remaining(u, m.session, m.next) \in Seq(RequestType)
        /\ \A r \in Messages(Remaining(u, m.session, m.next)) : r.kind = "put" /\ IsFragment(r)
    BY <2>2, RemainingTyped DEF Types
  <2> QED
    BY <2>1, <2>3
<1>4. CASE ReadGetSession(u)
  <2>1. /\ s2c[u] # <<>> /\ m.ok /\ m.kind = "getSession"
        /\ Answered(u, Wanted(u, m.session, m.max))
    BY <1>4 DEF ReadGetSession
  <2>2. m.session \in Nat /\ m.max \in Nat /\ get[u].path \in Paths
    BY <1>1, <2>1, AnswerFields DEF Types, GetsAsked
  <2> HIDE DEF m
  <2>3. /\ Wanted(u, m.session, m.max) \in Seq(RequestType)
        /\ \A r \in Messages(Wanted(u, m.session, m.max)) : r.kind = "get"
    BY <2>2, WantedTyped DEF Types
  <2> QED
    BY <2>1, <2>3
<1> QED
  BY <1>2, <1>3, <1>4 DEF Client

LEMMA CountedNext ==
    ASSUME Types, Counted, [Next]_vars
    PROVE  Counted'
<1>0. Types'
  BY TypesNext
<1>1. ASSUME NEW u \in Users, Client(u)
      PROVE  Counted'
  <2>1. CASE PutRequest(u)
    <3> DEFINE request == [kind |-> "putSession", path |-> put[u].path, max |-> Size[put[u].file]]
    <3>1. put[u].typed /\ Ask(u, <<request>>) /\ UNCHANGED <<s2c, waits>>
      BY <2>1 DEF PutRequest, serverVars
    <3>2. put[u].file \in Files /\ put[u].path \in Paths
      BY <3>1, ClientFields DEF Types
    <3>3. Size[put[u].file] \in Nat
      BY <3>2, TransferAssumption
    <3>4. request \in RequestType
      BY <3>2, <3>3 DEF RequestType
    <3> HIDE DEF request
    <3> QED
      BY <1>0, <3>1, <3>4, AskedCounted
  <2>2. CASE \E requests \in Seq(RequestType) : Answered(u, requests)
    BY <2>2, AnsweredCounted
  <2> QED
    BY <1>1, <2>1, <2>2, ClientSends
<1>2. ASSUME NEW u \in Users, Console(u)
      PROVE  Counted'
  <2>1. ASSUME NEW f \in Files, NEW p \in Paths, PutCommand(u, f, p)
        PROVE  Counted'
    BY <2>1, CountedSame DEF PutCommand, Command, serverVars
  <2>2. ASSUME NEW p \in Paths, GetCommand(u, p)
        PROVE  Counted'
    <3> DEFINE request == [kind |-> "getSession", path |-> p]
    <3>1. Ask(u, <<request>>) /\ UNCHANGED <<s2c, waits>>
      BY <2>2 DEF GetCommand, Command, serverVars
    <3>2. request \in RequestType
      BY DEF RequestType
    <3> HIDE DEF request
    <3> QED
      BY <1>0, <3>1, <3>2, AskedCounted
  <2> QED
    BY <1>2, <2>1, <2>2, RemoveCommandCounted DEF Console
<1>3. ASSUME NEW u \in Users, Request(u)
      PROVE  Counted'
  BY <1>3, RequestCounted
<1>4. ASSUME NEW w \in waits,
             \/ PutSessionOnActive(w) \/ PutOnActive(w) \/ GetSessionOnActive(w) \/ GetOnActive(w)
             \/ Timeout(w)
      PROVE  Counted'
  <2>1. waits' = waits \ {w} /\ UNCHANGED <<c2s, unanswered>>
    BY <1>4 DEF PutSessionOnActive, PutOnActive, GetSessionOnActive, GetOnActive,
                SessionOnActive, Activated, Timeout
  <2>2. (\E answer : Reply(w, answer)) \/ UNCHANGED s2c
    <3>1. OnError(w) => \E answer : Reply(w, answer)
      BY DEF OnError
    <3>2. CASE PutSessionOnActive(w) \/ GetSessionOnActive(w)
      BY <3>1, <3>2 DEF PutSessionOnActive, GetSessionOnActive, SessionOnActive
    <3>3. CASE PutOnActive(w) \/ GetOnActive(w) \/ Timeout(w)
      BY <3>1, <3>3 DEF PutOnActive, GetOnActive, Timeout
    <3> QED
      BY <1>4, <3>2, <3>3
  <2> QED
    BY <2>1, <2>2, EndedCounted
<1>5. CASE LateAnswer
  BY <1>5, CountedSame DEF LateAnswer, serverVars
<1>6. CASE Node
  BY <1>6, CountedSame DEF Node, NodePutSession, NodePut, NodeGetSession, NodeGet,
                           NodeReceived, serverVars
<1>7. CASE LoseConnection \/ RestartNode
  BY <1>7, CountedSame DEF LoseConnection, RestartNode, Fault
<1>8. ASSUME NEW u \in Users, KickOut(u) \/ Login(u)
      PROVE  Counted'
  BY <1>8, CountedSame DEF KickOut, Login, Fault
<1>9. CASE UNCHANGED vars
  BY <1>9, CountedSame DEF vars, serverVars
<1> QED
  BY <1>1, <1>2, <1>3, <1>4, <1>5, <1>6, <1>7, <1>8, <1>9 DEF Next, Answer

LEMMA TypesGiveTypeOK ==
    ASSUME Types, Counted
    PROVE  TypeOK
<1>1. ASSUME NEW u \in Users
      PROVE  /\ put[u].typed \in BOOLEAN
             /\ put[u].typed \/ put[u].max > 0 => put[u].file \in Files /\ put[u].path \in Paths
             /\ local[u] \in [Paths -> Seq((Files \X Nat) \cup {Hole})]
             /\ meta[u] \in [Paths -> Nat]
             /\ unanswered[u] \in Nat
  BY <1>1 DEF Types, ClientTypes, PutType, Data, Counted
<1>2. /\ online \subseteq Users /\ tree \subseteq Paths /\ sessions \in Seq(SessionType)
      /\ \A w \in waits : w.id < nextTrans /\ w.session \in DOMAIN sessions
  BY DEF Types, ServerTypes
<1>3. \A p \in Paths : index[p] \in 0 .. Len(sessions)
  <2>1. Len(sessions) \in Nat /\ \A p \in Paths : index[p] \in Nat /\ index[p] <= Len(sessions)
    BY DEF Types, ServerTypes
  <2> QED
    BY <2>1
<1>4. /\ nodeSessions \in Seq(NodeSessionType) /\ opened \subseteq files /\ files \subseteq Names
      /\ disk \in [Names -> Seq((Files \X Nat) \cup {Hole})]
  BY DEF Types, NodeTypes, Data
<1> QED
  BY <1>1, <1>2, <1>3, <1>4 DEF TypeOK

\* Every variable has its type, and no request of a client is answered twice: each one
\* that is still counted is on its way to the server, waits there for the storage node,
\* or its answer is on the way back.
THEOREM TransferTypeCorrect ==
    Spec => []TypeOK
<1> DEFINE IInv == Types /\ Counted
<1>1. Init => IInv
  BY TypesInit, CountedInit
<1>2. IInv /\ [Next]_vars => IInv'
  BY TypesNext, CountedNext
<1>3. IInv => TypeOK
  BY TypesGiveTypeOK
<1> QED
  BY <1>1, <1>2, <1>3, PTL DEF Spec
-----------------------------------------------------------------------------
(* A crash needs a failure *)

\* The server has crashed only after a failure, and until one the session that a
\* transaction asks the storage node for is there, of the kind it was.
HasSession(w) ==
    /\ w.kind = "putSession" => sessions[w.session].type = "put"
    /\ w.kind = "getSession" => sessions[w.session].type = "get"
Healthy ==
    /\ crashed => failed
    /\ ~failed => \A w \in waits : HasSession(w)

\* A step that fails nothing, keeps the types of sessions, and adds only such waits.
LEMMA StaysHealthy ==
    ASSUME Types, Healthy, UNCHANGED failed, crashed' => crashed \/ failed,
           \A s \in DOMAIN sessions : sessions'[s].type = sessions[s].type,
           \A w \in waits' : w \in waits \/ HasSession(w)'
    PROVE  Healthy'
<1>1. \A w \in waits : w.session \in DOMAIN sessions
  BY DEF Types, ServerTypes
<1>2. \A w \in waits : HasSession(w) => HasSession(w)'
  BY <1>1 DEF HasSession
<1> QED
  BY <1>2 DEF Healthy

LEMMA ServerIdleHealthy ==
    ASSUME Types, Healthy, UNCHANGED <<failed, crashed, sessions, waits>>
    PROVE  Healthy'
BY StaysHealthy

LEMMA FailedHealthy ==
    ASSUME failed'
    PROVE  Healthy'
BY DEF Healthy

LEMMA RequestHealthy ==
    ASSUME Types, Healthy, NEW u \in Users, Request(u)
    PROVE  Healthy'
<1> DEFINE m == Head(c2s[u])
           Typed(s) == sessions'[s].type = sessions[s].type
<1>1. ASSUME NEW kind, Received(u, kind)
      PROVE  UNCHANGED <<failed, crashed>> /\ m \in RequestType /\ m.kind = kind
  BY <1>1, ReceivedTypes DEF Received
<1>2. ASSUME NEW kind, NEW s, NEW p, NEW order, Wait(u, kind, s, p, order)
      PROVE  \E w : w.kind = kind /\ w.session = s /\ waits' = waits \cup {w}
  <2>1. waits' = waits \cup {[id |-> nextTrans, kind |-> kind, user |-> u,
                              session |-> s, path |-> p]}
    BY <1>2 DEF Wait
  <2> QED
    BY <2>1
<1>3. ASSUME NEW kind, Refuse(u, kind)
      PROVE  UNCHANGED <<sessions, waits>>
  BY <1>3 DEF Refuse, sessionVars
<1>4. ASSUME NEW kind, NEW type,
             \/ kind = "putSession" /\ type = "put"
             \/ kind = "getSession" /\ type = "get",
             Received(u, kind), NEW order, NEW session \in SessionType,
             session.path = m.path, session.type = type,
             NEW s,
             LET old == FindSession(type, u, m.path)
             IN  \/ old # 0 /\ s = old /\ UNCHANGED <<sessions, index>>
                 \/ old = 0 /\ s = NextSession /\ RegisterSession(session),
             Wait(u, kind, s, m.path, order)
      PROVE  Healthy'
  <2> DEFINE old == FindSession(type, u, m.path)
  <2>1. m.path \in Paths
    <3>1. m \in RequestType /\ m.kind \in {"putSession", "getSession"}
      BY <1>1, <1>4
    <3> HIDE DEF m
    <3> QED
      BY <3>1, RequestFields
  <2>2. PICK w : w.kind = kind /\ w.session = s /\ waits' = waits \cup {w}
    BY <1>2, <1>4
  <2>3. UNCHANGED <<failed, crashed>>
    BY <1>1, <1>4
  <2>4. sessions'[s].type = type /\ \A x \in DOMAIN sessions : Typed(x)
    <3>1. CASE old # 0
      <4>1. old \in DOMAIN sessions /\ sessions[old].type = type
        BY <2>1, <3>1, Found DEF Types
      <4> QED
        BY <1>4, <3>1, <4>1
    <3>2. CASE old = 0
      <4>1. RegisterSession(session) /\ s = NextSession
        BY <1>4, <3>2
      <4>2. /\ sessions'[NextSession] = session
            /\ \A x \in DOMAIN sessions : sessions'[x] = sessions[x]
        BY <1>4, <2>1, <4>1, RegisteredTypes DEF Types
      <4> QED
        BY <1>4, <4>1, <4>2
    <3> QED
      BY <3>1, <3>2
  <2> HIDE DEF m, old
  <2>5. HasSession(w)'
    BY <1>4, <2>2, <2>4 DEF HasSession
  <2> QED
    BY <2>2, <2>3, <2>4, <2>5, StaysHealthy
<1>5. CASE PutSessionOnInit(u)
  <2> DEFINE session == [type |-> "put", user |-> u, path |-> m.path,
                         max |-> m.max, next |-> 0, node |-> 0]
             order == [kind |-> "putSession", trans |-> nextTrans,
                       name |-> FileName[m.path], max |-> m.max]
             old == FindSession("put", u, m.path)
  <2>1. Received(u, "putSession")
    BY <1>5 DEF PutSessionOnInit
  <2>2. session \in SessionType /\ session.path = m.path /\ session.type = "put"
    <3>1. m.path \in Paths /\ m.max \in Nat
      BY <1>1, <2>1, RequestFields
    <3> QED
      BY <3>1 DEF SessionType
  <2>3. \/ Refuse(u, "putSession")
        \/ \E s : /\ \/ old # 0 /\ s = old /\ UNCHANGED <<sessions, index>>
                     \/ old = 0 /\ s = NextSession /\ RegisterSession(session)
                  /\ Wait(u, "putSession", s, m.path, order)
    BY <1>5 DEF PutSessionOnInit, sessionVars
  <2>4. CASE Refuse(u, "putSession")
    BY <1>1, <1>3, <2>1, <2>4, ServerIdleHealthy
  <2> HIDE DEF session, order, m
  <2> QED
    BY <1>4, <2>1, <2>2, <2>3, <2>4
<1>6. CASE GetSessionOnInit(u)
  <2> DEFINE session == [type |-> "get", user |-> u, path |-> m.path, node |-> 0]
             order == [kind |-> "getSession", trans |-> nextTrans, name |-> FileName[m.path]]
             old == FindSession("get", u, m.path)
  <2>1. Received(u, "getSession")
    BY <1>6 DEF GetSessionOnInit
  <2>2. session \in SessionType /\ session.path = m.path /\ session.type = "get"
    <3>1. m.path \in Paths
      BY <1>1, <2>1, RequestFields
    <3> QED
      BY <3>1 DEF SessionType
  <2>3. \/ Refuse(u, "getSession")
        \/ \E s : /\ \/ old # 0 /\ s = old /\ UNCHANGED <<sessions, index>>
                     \/ old = 0 /\ s = NextSession /\ RegisterSession(session)
                  /\ Wait(u, "getSession", s, m.path, order)
    BY <1>6 DEF GetSessionOnInit, sessionVars
  <2>4. CASE Refuse(u, "getSession")
    BY <1>1, <1>3, <2>1, <2>4, ServerIdleHealthy
  <2> HIDE DEF session, order, m
  <2> QED
    BY <1>4, <2>1, <2>2, <2>3, <2>4
<1>7. CASE PutOnInit(u)
  <2> DEFINE s == m.session
  <2>1. Received(u, "put")
    BY <1>7 DEF PutOnInit
  <2>2. \/ Refuse(u, "put")
        \/ /\ IsOwn("put", u, s) /\ sessions' = [sessions EXCEPT ![s].next = @ + 1]
           /\ \E w : w.kind = "put" /\ w.session = s /\ waits' = waits \cup {w}
    BY <1>2, <1>7 DEF PutOnInit, IsNext
  <2>3. CASE Refuse(u, "put")
    BY <1>1, <1>3, <2>1, <2>3, ServerIdleHealthy
  <2>4. CASE /\ IsOwn("put", u, s) /\ sessions' = [sessions EXCEPT ![s].next = @ + 1]
             /\ \E w : w.kind = "put" /\ w.session = s /\ waits' = waits \cup {w}
    <3> DEFINE new == [sessions[s] EXCEPT !.next = @ + 1]
    <3>1. s \in DOMAIN sessions /\ sessions[s] \in SessionType /\ sessions[s].type = "put"
      BY <2>4, OwnFields DEF Types
    <3>2. /\ new \in SessionType /\ new.type = "put"
          /\ sessions' = [sessions EXCEPT ![s] = new]
      BY <2>4, <3>1, Advanced
    <3> HIDE DEF new, s
    <3>3. /\ sessions'[s] = new
          /\ \A x \in DOMAIN sessions \ {s} : sessions'[x] = sessions[x]
      BY <3>1, <3>2, SessionChanged DEF Types
    <3>4. \A x \in DOMAIN sessions : Typed(x)
      BY <3>1, <3>2, <3>3
    <3>5. PICK w : w.kind = "put" /\ waits' = waits \cup {w}
      BY <2>4
    <3>6. HasSession(w)'
      BY <3>5 DEF HasSession
    <3> QED
      BY <1>1, <2>1, <3>4, <3>5, <3>6, StaysHealthy
  <2> QED
    BY <2>2, <2>3, <2>4
<1>8. CASE GetOnInit(u)
  <2> DEFINE s == m.session
  <2>1. Received(u, "get")
    BY <1>8 DEF GetOnInit
  <2>2. \/ Refuse(u, "get")
        \/ /\ UNCHANGED sessions
           /\ \E w : w.kind = "get" /\ w.session = s /\ waits' = waits \cup {w}
    BY <1>2, <1>8 DEF GetOnInit, sessionVars
  <2>3. CASE Refuse(u, "get")
    BY <1>1, <1>3, <2>1, <2>3, ServerIdleHealthy
  <2>4. CASE /\ UNCHANGED sessions
             /\ \E w : w.kind = "get" /\ w.session = s /\ waits' = waits \cup {w}
    <3>1. PICK w : w.kind = "get" /\ waits' = waits \cup {w}
      BY <2>4
    <3>2. HasSession(w)'
      BY <3>1 DEF HasSession
    <3> QED
      BY <1>1, <2>1, <2>4, <3>1, <3>2, StaysHealthy
  <2> QED
    BY <2>2, <2>3, <2>4
<1>9. CASE RemoveOnInit(u)
  BY <1>1, <1>9, ServerIdleHealthy DEF RemoveOnInit, sessionVars
<1> QED
  BY <1>5, <1>6, <1>7, <1>8, <1>9 DEF Request

LEMMA SessionOnActiveHealthy ==
    ASSUME Types, Healthy, NEW w \in waits, NEW kind, NEW type,
           \/ kind = "putSession" /\ type = "put"
           \/ kind = "getSession" /\ type = "get",
           SessionOnActive(w, kind, type)
    PROVE  Healthy'
<1> DEFINE m == Head(n2s)
           s == w.session
           new == [sessions[s] EXCEPT !.node = m.node]
<1>1. Activated(w, kind) /\ w.kind = kind /\ waits' = waits \ {w} /\ ResultFor(w, m)
  BY ActivatedTypes DEF SessionOnActive
<1>2. s \in DOMAIN sessions /\ sessions[s] \in SessionType
  BY WaitFields DEF Types
<1>3. \/ OnError(w) /\ UNCHANGED crashed
      \/ /\ m.ok /\ sessions[s].type = type
         /\ sessions' = [sessions EXCEPT ![s] = [@ EXCEPT !.node = m.node]]
         /\ UNCHANGED <<crashed, failed>>
      \/ m.ok /\ sessions[s].type # type /\ crashed' /\ UNCHANGED <<sessions, failed>>
  BY DEF SessionOnActive, sessionVars
<1>4. CASE OnError(w)
  BY <1>1, <1>4, FailedHealthy DEF OnError
<1>5. CASE /\ m.ok /\ sessions[s].type = type
           /\ sessions' = [sessions EXCEPT ![s] = [@ EXCEPT !.node = m.node]]
           /\ UNCHANGED <<crashed, failed>>
  <2>1. m.node \in Nat
    BY <1>1, <1>5, ResultForFields
  <2>2. new \in SessionType /\ new.type = type /\ sessions' = [sessions EXCEPT ![s] = new]
    BY <1>2, <1>5, <2>1, Attached
  <2> HIDE DEF new, s
  <2>3. sessions'[s] = new /\ \A x \in DOMAIN sessions \ {s} : sessions'[x] = sessions[x]
    BY <1>2, <2>2, SessionChanged DEF Types
  <2>4. \A x \in DOMAIN sessions : sessions'[x].type = sessions[x].type
    BY <1>5, <2>2, <2>3
  <2> QED
    BY <1>1, <1>5, <2>4, StaysHealthy
<1>6. CASE m.ok /\ sessions[s].type # type /\ crashed' /\ UNCHANGED <<sessions, failed>>
  <2>1. failed
    BY <1>1, <1>6 DEF Healthy, HasSession
  <2> QED
    BY <1>6, <2>1, FailedHealthy
<1> QED
  BY <1>3, <1>4, <1>5, <1>6

LEMMA HealthyNext ==
    ASSUME Types, Healthy, [Next]_vars
    PROVE  Healthy'
<1>1. ASSUME NEW u \in Users, Client(u) \/ Console(u)
      PROVE  Healthy'
  <2>1. UNCHANGED <<failed, crashed, sessions, waits>>
    BY <1>1 DEF Client, Console, PutRequest, ReadError, ReadPutSession, ReadPut,
                ReadGetSession, ReadGet, Answered, PutCommand, GetCommand, RemoveCommand,
                Command, serverVars, sessionVars, history
  <2> QED
    BY <2>1, ServerIdleHealthy
<1>2. ASSUME NEW w \in waits, PutSessionOnActive(w) \/ GetSessionOnActive(w)
      PROVE  Healthy'
  BY <1>2, SessionOnActiveHealthy DEF PutSessionOnActive, GetSessionOnActive
<1>3. ASSUME NEW w \in waits, PutOnActive(w) \/ GetOnActive(w)
      PROVE  Healthy'
  <2>1. UNCHANGED <<failed, crashed, sessions>> /\ waits' \subseteq waits
    BY <1>3 DEF PutOnActive, GetOnActive, Activated, sessionVars
  <2> QED
    BY <2>1, StaysHealthy
<1>4. ASSUME NEW w \in waits, Timeout(w)
      PROVE  Healthy'
  <2>1. OnError(w) /\ UNCHANGED crashed /\ waits' \subseteq waits
    BY <1>4 DEF Timeout
  <2>2. CASE failed'
    BY <2>2, FailedHealthy
  <2>3. CASE ~failed'
    <3>1. UNCHANGED <<sessions, failed>>
      BY <2>1, <2>3 DEF OnError, sessionVars
    <3> QED
      BY <2>1, <3>1, StaysHealthy
  <2> QED
    BY <2>2, <2>3
<1>5. CASE LateAnswer \/ Node \/ LoseConnection \/ UNCHANGED vars
  <2>1. UNCHANGED <<failed, crashed, sessions, waits>>
    BY <1>5 DEF LateAnswer, Node, NodePutSession, NodePut, NodeGetSession, NodeGet,
                NodeReceived, LoseConnection, Fault, serverVars, sessionVars, vars, history
  <2> QED
    BY <2>1, ServerIdleHealthy
<1>6. ASSUME RestartNode \/ \E u \in Users : KickOut(u) \/ Login(u)
      PROVE  Healthy'
  <2>1. UNCHANGED <<failed, crashed, sessions, waits>>
    BY <1>6 DEF RestartNode, KickOut, Login, Fault, serverVars, sessionVars, history
  <2> QED
    BY <2>1, ServerIdleHealthy
<1> QED
  BY <1>1, <1>2, <1>3, <1>4, <1>5, <1>6, RequestHealthy DEF Next, Answer

\* While every request for a session succeeds, nobody removes a session that somebody
\* else waits for, and the server does not dereference one that is gone: for any number
\* of users and paths, whatever times out, is lost or restarted.
THEOREM CrashAlwaysNeedsFailure ==
    Spec => []CrashNeedsFailure
<1> DEFINE IInv == Types /\ Healthy
<1>1. Init => IInv
  BY TypesInit DEF Init, Healthy
<1>2. IInv /\ [Next]_vars => IInv'
  BY TypesNext, HealthyNext
<1>3. IInv => CrashNeedsFailure
  BY DEF Healthy, CrashNeedsFailure
<1> QED
  BY <1>1, <1>2, <1>3, PTL DEF Spec
-----------------------------------------------------------------------------
(* The fragments of one put *)

\* The orders to write that are on their way are for fragments that were forwarded and
\* not written, and those of one session are in order.
OrdersFit(list) ==
    /\ \A i \in DOMAIN list : list[i].kind = "put" /\ list[i].of \in SessionIds =>
          /\ list[i].index < forwarded[list[i].of]
          /\ \A x \in written[list[i].of] : x < list[i].index
    /\ \A i, j \in DOMAIN list :
          /\ i < j /\ list[i].kind = "put" /\ list[j].kind = "put"
          /\ list[i].of = list[j].of /\ list[i].of \in SessionIds
          => list[i].index < list[j].index

\* A session counts what was forwarded; a later one begins at the first fragment.
SessionFits(s) ==
    /\ s \notin DOMAIN sessions => forwarded[s] = 0
    /\ s \in DOMAIN sessions /\ sessions[s].type = "put" => sessions[s].next = forwarded[s]

InStream ==
    /\ forwarded \in [SessionIds -> Nat]
    /\ written \in [SessionIds -> SUBSET Nat]
    /\ \A s \in SessionIds : SessionFits(s) /\ \A i \in written[s] : i < forwarded[s]
    /\ OrdersFit(s2n)

\* What is left of a list after its beginning was taken.
IsSuffix(rest, list) ==
    \E k \in Nat : \A i \in DOMAIN rest : i \in Nat /\ k + i \in DOMAIN list /\ rest[i] = list[k + i]

LEMMA SuffixFits ==
    ASSUME NEW S, NEW list \in Seq(S), OrdersFit(list), NEW rest, IsSuffix(rest, list)
    PROVE  OrdersFit(rest)
<1>1. PICK k \in Nat :
          \A i \in DOMAIN rest : i \in Nat /\ k + i \in DOMAIN list /\ rest[i] = list[k + i]
  BY DEF IsSuffix
<1>2. \A i, j \in DOMAIN rest : i < j => k + i < k + j
  BY <1>1
<1> QED
  BY <1>1, <1>2 DEF OrdersFit

LEMMA SameIsSuffix ==
    ASSUME NEW S, NEW list \in Seq(S)
    PROVE  IsSuffix(list, list)
<1>1. \A i \in DOMAIN list : i \in Nat /\ 0 + i \in DOMAIN list /\ list[i] = list[0 + i]
  OBVIOUS
<1> QED
  BY <1>1 DEF IsSuffix

LEMMA TailIsSuffix ==
    ASSUME NEW S, NEW list \in Seq(S), list # <<>>
    PROVE  IsSuffix(Tail(list), list)
<1> DEFINE rest == Tail(list)
<1>1. rest \in Seq(S) /\ \A i \in DOMAIN rest : i + 1 \in DOMAIN list /\ rest[i] = list[i + 1]
  BY HeadTaken
<1> HIDE DEF rest
<1>2. \A i \in DOMAIN rest : i \in Nat
  BY <1>1
<1>3. \A i \in DOMAIN rest : i \in Nat /\ 1 + i \in DOMAIN list /\ rest[i] = list[1 + i]
  BY <1>1, <1>2
<1> QED
  BY <1>3 DEF IsSuffix, rest

LEMMA CutIsSuffix ==
    ASSUME NEW S, NEW list \in Seq(S), NEW k \in 0 .. Len(list)
    PROVE  IsSuffix(SubSeq(list, k + 1, Len(list)), list)
<1>1. k \in Nat
  OBVIOUS
<1>2. \A i \in DOMAIN SubSeq(list, k + 1, Len(list)) :
          /\ k + i \in DOMAIN list /\ i \in Nat
          /\ SubSeq(list, k + 1, Len(list))[i] = list[k + i]
  BY Cut
<1> QED
  BY <1>1, <1>2 DEF IsSuffix

\* An order behind the others.
LEMMA OrderFitsBehind ==
    ASSUME OrdersFit(s2n), NEW order \in OrderType, s2n \in Seq(OrderType),
           s2n' = Append(s2n, order), UNCHANGED <<forwarded, written>>, order.kind # "put"
    PROVE  OrdersFit(s2n)'
<1> DEFINE n == Len(s2n)
<1>1. n \in Nat /\ DOMAIN s2n = 1 .. n
  OBVIOUS
<1>2. /\ s2n' \in Seq(OrderType) /\ Len(s2n') = n + 1 /\ s2n'[n + 1] = order
      /\ \A i \in 1 .. n : s2n'[i] = s2n[i]
  BY AppendProperties
<1> HIDE DEF n
<1>3. DOMAIN s2n' = 1 .. n + 1
  BY <1>2
<1>4. \A i \in 1 .. n + 1 : i \in 1 .. n \/ i = n + 1
  BY <1>1
<1>5. \A i \in DOMAIN s2n' : s2n'[i].kind = "put" => i \in DOMAIN s2n /\ s2n'[i] = s2n[i]
  BY <1>1, <1>2, <1>3, <1>4
<1> QED
  BY <1>5 DEF OrdersFit

LEMMA StreamSame ==
    ASSUME Types, InStream, UNCHANGED <<forwarded, written>>,
           DOMAIN sessions \subseteq DOMAIN sessions',
           \A s \in DOMAIN sessions' : sessions'[s].type = "put" =>
               IF s \in DOMAIN sessions
               THEN sessions[s].type = "put" /\ sessions'[s].next = sessions[s].next
               ELSE sessions'[s].next = 0,
           \/ IsSuffix(s2n', s2n)
           \/ \E order \in OrderType : order.kind # "put" /\ s2n' = Append(s2n, order)
    PROVE  InStream'
<1>1. s2n \in Seq(OrderType) /\ OrdersFit(s2n)
  BY DEF Types, NodeTypes, InStream
<1>2. CASE IsSuffix(s2n', s2n)
  <2>1. \A rest : IsSuffix(rest, s2n) => OrdersFit(rest)
    BY <1>1, SuffixFits
  <2>2. OrdersFit(s2n')
    BY <1>2, <2>1
  <2>3. OrdersFit(s2n)'
    BY <2>2 DEF OrdersFit
  <2>4. \A s \in SessionIds : SessionFits(s)'
    BY DEF InStream, SessionFits
  <2> QED
    BY <2>3, <2>4 DEF InStream
<1>3. CASE \E order \in OrderType : order.kind # "put" /\ s2n' = Append(s2n, order)
  <2>1. OrdersFit(s2n)'
    BY <1>1, <1>3, OrderFitsBehind
  <2>2. \A s \in SessionIds : SessionFits(s)'
    BY DEF InStream, SessionFits
  <2> QED
    BY <2>1, <2>2 DEF InStream
<1> QED
  BY <1>2, <1>3

\* Nothing of a put changes, and some of its orders may be lost.
LEMMA StreamIdle ==
    ASSUME Types, InStream, UNCHANGED <<forwarded, written, sessions>>,
           IsSuffix(s2n', s2n) \/ UNCHANGED s2n
    PROVE  InStream'
<1>1. IsSuffix(s2n', s2n)
  BY SameIsSuffix DEF Types, NodeTypes
<1> QED
  BY <1>1, StreamSame
\* A list of messages of requests of a session's own: what PutOnInit does.
LEMMA PutOnInitDoes ==
    ASSUME Types, NEW u \in Users, PutOnInit(u)
    PROVE  \/ Refuse(u, "put")
           \/ \E s \in Nat : \E order \in OrderType :
                 /\ s \in DOMAIN sessions /\ sessions[s] \in SessionType
                 /\ sessions[s].type = "put" /\ sessions[s].next \in Nat
                 /\ sessions' = [sessions EXCEPT ![s].next = @ + 1]
                 /\ Head(c2s[u]).index = sessions[s].next
                 /\ Head(c2s[u]) \in Messages(c2s[u]) /\ Head(c2s[u]).kind = "put"
                 /\ order.kind = "put" /\ order.of = s /\ order.index = sessions[s].next
                 /\ order.data = Head(c2s[u]).data /\ order.node = sessions[s].node
                 /\ order.trans = nextTrans
                 /\ forwarded' = [forwarded EXCEPT ![s] = @ + 1]
                 /\ UNCHANGED <<tree, index, written>>
                 /\ Wait(u, "put", s, sessions[s].path, order)
<1> DEFINE m == Head(c2s[u])
           s == m.session
           p == sessions[s].path
           node == sessions[s].node
           next == sessions[s].next
           order == [kind |-> "put", trans |-> nextTrans, node |-> node,
                     index |-> m.index, data |-> m.data, of |-> s]
<1>1. Received(u, "put") /\ UNCHANGED written
  BY DEF PutOnInit, Received
<1>2. m \in RequestType /\ m.kind = "put" /\ m \in Messages(c2s[u])
  BY <1>1, ReceivedTypes
<1>3. m.index \in Nat /\ s \in Nat /\ m.data \in Files \X Nat
  BY <1>2, RequestFields
<1>4. \/ Refuse(u, "put")
      \/ /\ IsOwn("put", u, s) /\ m.index = next
         /\ sessions' = [sessions EXCEPT ![s].next = @ + 1]
         /\ forwarded' = [forwarded EXCEPT ![s] = @ + 1]
         /\ UNCHANGED <<tree, index>> /\ Wait(u, "put", s, p, order)
  BY DEF PutOnInit, IsNext
<1>5. CASE /\ IsOwn("put", u, s) /\ m.index = next
           /\ sessions' = [sessions EXCEPT ![s].next = @ + 1]
           /\ forwarded' = [forwarded EXCEPT ![s] = @ + 1]
           /\ UNCHANGED <<tree, index>> /\ Wait(u, "put", s, p, order)
  <2>1. /\ s \in DOMAIN sessions /\ sessions[s] \in SessionType /\ sessions[s].type = "put"
        /\ p \in Paths /\ node \in Nat /\ next \in Nat
    BY <1>5, OwnFields DEF Types
  <2> DEFINE index0 == m.index
             data0 == m.data
  <2> HIDE DEF node, s, index0, data0
  <2>2. [kind |-> "put", trans |-> nextTrans, node |-> node,
         index |-> index0, data |-> data0, of |-> s] \in OrderType
    BY <1>3, <2>1 DEF OrderType, Types, ServerTypes, index0, data0
  <2>3. order \in OrderType
    BY <2>2 DEF index0, data0
  <2>4. /\ order.kind = "put" /\ order.of = s /\ order.index = next /\ order.data = m.data
        /\ order.node = node /\ order.trans = nextTrans
    BY <1>5
  <2> HIDE DEF order
  <2> QED
    BY <1>1, <1>2, <1>3, <1>5, <2>1, <2>3, <2>4 DEF s, node
<1> QED
  BY <1>4, <1>5

LEMMA PutOnInitStream ==
    ASSUME Types, InStream, NEW u \in Users, PutOnInit(u)
    PROVE  InStream' /\ [Stream!Next]_(Stream!vars)
<1>1. CASE Refuse(u, "put")
  <2>1. UNCHANGED <<forwarded, written, sessions, s2n>>
    BY <1>1 DEF PutOnInit, Received, Refuse, sessionVars
  <2> QED
    BY <2>1, StreamIdle DEF Stream!vars
<1>2. ASSUME NEW s \in Nat, NEW order \in OrderType,
             s \in DOMAIN sessions, sessions[s] \in SessionType,
             sessions[s].type = "put", sessions[s].next \in Nat,
             sessions' = [sessions EXCEPT ![s].next = @ + 1],
             order.kind = "put", order.of = s, order.index = sessions[s].next,
             forwarded' = [forwarded EXCEPT ![s] = @ + 1], UNCHANGED written,
             s2n' = Append(s2n, order)
      PROVE  InStream' /\ [Stream!Next]_(Stream!vars)
  <2> DEFINE next == sessions[s].next
             new == [sessions[s] EXCEPT !.next = @ + 1]
             n == Len(s2n)
  <2>1. /\ new \in SessionType /\ new.type = "put" /\ new.next = next + 1
        /\ sessions' = [sessions EXCEPT ![s] = new]
    BY <1>2, Advanced
  <2> HIDE DEF new
  <2>2. /\ DOMAIN sessions' = DOMAIN sessions /\ sessions'[s] = new
        /\ \A x \in DOMAIN sessions \ {s} : sessions'[x] = sessions[x]
    BY <1>2, <2>1, SessionChanged DEF Types
  <2>3. /\ forwarded \in [SessionIds -> Nat] /\ written \in [SessionIds -> SUBSET Nat]
        /\ \A x \in SessionIds : SessionFits(x) /\ \A i \in written[x] : i < forwarded[x]
        /\ OrdersFit(s2n) /\ s2n \in Seq(OrderType)
    BY DEF InStream, Types, NodeTypes
  <2>4. s \in SessionIds => forwarded[s] = next
    BY <1>2, <2>3 DEF SessionFits
  <2>5. /\ forwarded' \in [SessionIds -> Nat]
        /\ \A x \in SessionIds : forwarded'[x] = IF x = s THEN next + 1 ELSE forwarded[x]
    <3>1. CASE s \in SessionIds
      BY <1>2, <2>3, <2>4, <3>1
    <3>2. CASE s \notin SessionIds
      BY <1>2, <2>3, <3>2
    <3> QED
      BY <3>1, <3>2
  <2>6. \A x \in SessionIds : SessionFits(x)'
    <3> SUFFICES ASSUME NEW x \in SessionIds
                 PROVE  SessionFits(x)'
      OBVIOUS
    <3>1. CASE x = s
      BY <1>2, <2>1, <2>2, <2>5, <3>1 DEF SessionFits
    <3>2. CASE x # s
      BY <2>2, <2>3, <2>5, <3>2 DEF SessionFits
    <3> QED
      BY <3>1, <3>2
  <2>7. \A x \in SessionIds : \A i \in written'[x] : i < forwarded'[x]
    <3> SUFFICES ASSUME NEW x \in SessionIds, NEW i \in written[x]
                 PROVE  i < forwarded'[x]
      BY <1>2
    <3>1. i \in Nat /\ i < forwarded[x] /\ forwarded[x] \in Nat
      BY <2>3
    <3>2. forwarded'[x] \in {forwarded[x], forwarded[x] + 1}
      BY <2>4, <2>5
    <3> QED
      BY <3>1, <3>2
  <2>8. OrdersFit(s2n)'
    <3>1. n \in Nat /\ DOMAIN s2n = 1 .. n /\ \A i \in 1 .. n : s2n[i] \in OrderType
      BY <2>3
    <3>2. /\ s2n' \in Seq(OrderType) /\ Len(s2n') = n + 1 /\ s2n'[n + 1] = order
          /\ \A i \in 1 .. n : s2n'[i] = s2n[i]
      BY <1>2, <2>3, AppendProperties
    <3> HIDE DEF n
    <3>3. DOMAIN s2n' = 1 .. n + 1
      BY <3>2
    <3>4. \A i \in 1 .. n + 1 : i \in 1 .. n \/ i = n + 1
      BY <3>1
    <3>5. \A i, j \in 1 .. n + 1 : i < j => i \in 1 .. n
      BY <3>1
    <3>6. \A i \in 1 .. n : s2n[i].kind = "put" => s2n[i].index \in Nat
      BY <3>1, OrderFields
    <3>7. ASSUME NEW i \in 1 .. n + 1, s2n'[i].kind = "put", s2n'[i].of \in SessionIds
          PROVE  /\ s2n'[i].index < forwarded'[s2n'[i].of]
                 /\ \A x \in written'[s2n'[i].of] : x < s2n'[i].index
      <4>1. CASE i \in 1 .. n
        <5> DEFINE of == s2n[i].of
        <5>1. /\ s2n'[i] = s2n[i] /\ of \in SessionIds /\ s2n[i].index \in Nat
              /\ s2n[i].index < forwarded[of] /\ \A x \in written[of] : x < s2n[i].index
          BY <2>3, <3>1, <3>2, <3>6, <3>7, <4>1 DEF OrdersFit
        <5>2. forwarded[of] \in Nat /\ forwarded'[of] \in {forwarded[of], forwarded[of] + 1}
          BY <2>3, <2>4, <2>5, <5>1
        <5>3. s2n[i].index < forwarded'[of]
          BY <5>1, <5>2
        <5> QED
          BY <1>2, <5>1, <5>3
      <4>2. CASE i = n + 1
        <5>1. s2n'[i] = order /\ s \in SessionIds
          BY <1>2, <3>2, <3>7, <4>2
        <5>2. next < forwarded'[s]
          BY <1>2, <2>5, <5>1
        <5>3. \A x \in written'[s] : x < next
          BY <1>2, <2>3, <2>4, <5>1
        <5> QED
          BY <1>2, <5>1, <5>2, <5>3
      <4> QED
        BY <3>4, <4>1, <4>2
    <3>8. ASSUME NEW i \in 1 .. n + 1, NEW j \in 1 .. n + 1,
                 i < j, s2n'[i].kind = "put", s2n'[j].kind = "put",
                 s2n'[i].of = s2n'[j].of, s2n'[i].of \in SessionIds
          PROVE  s2n'[i].index < s2n'[j].index
      <4>1. i \in 1 .. n /\ s2n'[i] = s2n[i]
        BY <3>2, <3>5, <3>8
      <4>2. CASE j \in 1 .. n
        BY <2>3, <3>1, <3>2, <3>8, <4>1, <4>2 DEF OrdersFit
      <4>3. CASE j = n + 1
        <5>1. s2n'[j] = order /\ s2n[i].of = s /\ s \in SessionIds
          BY <1>2, <3>2, <3>8, <4>1, <4>3
        <5>2. s2n[i].index < forwarded[s]
          BY <2>3, <3>1, <3>8, <4>1, <5>1 DEF OrdersFit
        <5> QED
          BY <1>2, <2>4, <4>1, <5>1, <5>2
      <4> QED
        BY <3>4, <4>2, <4>3
    <3> QED
      BY <3>3, <3>7, <3>8 DEF OrdersFit
  <2>9. InStream'
    BY <1>2, <2>3, <2>5, <2>6, <2>7, <2>8 DEF InStream
  <2>10. [Stream!Next]_(Stream!vars)
    <3>1. CASE s \in SessionIds
      BY <1>2, <3>1 DEF Stream!Next, Stream!Forward
    <3>2. CASE s \notin SessionIds
      <4>1. forwarded' = forwarded
        BY <1>2, <2>3, <3>2
      <4> QED
        BY <1>2, <4>1 DEF Stream!vars
    <3> QED
      BY <3>1, <3>2
  <2> QED
    BY <2>9, <2>10
<1>3. ASSUME NEW s, NEW p, NEW order, Wait(u, "put", s, p, order)
      PROVE  s2n' = Append(s2n, order)
  BY <1>3 DEF Wait
<1>4. CASE ~Refuse(u, "put")
  <2>1. PICK s \in Nat, order \in OrderType :
           /\ s \in DOMAIN sessions /\ sessions[s] \in SessionType
           /\ sessions[s].type = "put" /\ sessions[s].next \in Nat
           /\ sessions' = [sessions EXCEPT ![s].next = @ + 1]
           /\ order.kind = "put" /\ order.of = s /\ order.index = sessions[s].next
           /\ forwarded' = [forwarded EXCEPT ![s] = @ + 1]
           /\ UNCHANGED written
           /\ Wait(u, "put", s, sessions[s].path, order)
    BY <1>4, PutOnInitDoes
  <2>2. s2n' = Append(s2n, order)
    BY <1>3, <2>1
  <2> QED
    BY <1>2, <2>1, <2>2
<1> QED
  BY <1>1, <1>4
LEMMA NodePutStream ==
    ASSUME Types, InStream, NodePut
    PROVE  InStream' /\ [Stream!Next]_(Stream!vars)
<1> DEFINE m == Head(s2n)
           of == m.of
           i == m.index
<1>1. /\ s2n # <<>> /\ m.kind = "put" /\ s2n' = Tail(s2n)
      /\ UNCHANGED <<forwarded, sessions>>
      /\ written' \in {written, [written EXCEPT ![of] = @ \cup {i}]}
  BY DEF NodePut, NodeReceived, serverVars, sessionVars
<1>2. s2n \in Seq(OrderType) /\ OrdersFit(s2n)
  BY DEF Types, NodeTypes, InStream
<1>3. /\ m \in OrderType /\ m = s2n[1] /\ Len(s2n) \in Nat \ {0}
      /\ \A k \in DOMAIN Tail(s2n) : k + 1 \in DOMAIN s2n /\ Tail(s2n)[k] = s2n[k + 1]
      /\ Tail(s2n) \in Seq(OrderType)
  BY <1>1, <1>2, HeadTaken
<1>4. i \in Nat
  BY <1>1, <1>3, OrderFields
<1>5. IsSuffix(s2n', s2n)
  BY <1>1, <1>2, TailIsSuffix
<1>6. CASE written' = written
  BY <1>1, <1>5, <1>6, StreamIdle DEF Stream!vars
<1>7. CASE written' # written
  <2> HIDE DEF i
  <2>1. /\ forwarded \in [SessionIds -> Nat] /\ written \in [SessionIds -> SUBSET Nat]
        /\ \A x \in SessionIds : SessionFits(x) /\ \A k \in written[x] : k < forwarded[x]
    BY DEF InStream
  <2>2. of \in SessionIds /\ written' = [written EXCEPT ![of] = @ \cup {i}]
    BY <1>1, <1>7, <2>1
  <2>3. 1 \in DOMAIN s2n /\ s2n[1].kind = "put" /\ s2n[1].of = of /\ s2n[1].index = i
    BY <1>1, <1>2, <1>3 DEF i
  <2> HIDE DEF of, m
  <2>4. i < forwarded[of] /\ \A x \in written[of] : x < i
    BY <1>2, <2>2, <2>3 DEF OrdersFit
  <2>5. /\ written' \in [SessionIds -> SUBSET Nat] /\ written'[of] = written[of] \cup {i}
        /\ \A x \in SessionIds \ {of} : written'[x] = written[x]
    BY <1>4, <2>1, <2>2
  <2>6. \A x \in SessionIds : SessionFits(x)' /\ \A k \in written'[x] : k < forwarded'[x]
    <3>1. \A x \in SessionIds : SessionFits(x)'
      BY <1>1, <2>1 DEF SessionFits
    <3>2. \A x \in SessionIds : \A k \in written'[x] : k < forwarded[x]
      BY <2>1, <2>4, <2>5
    <3> QED
      BY <1>1, <3>1, <3>2
  <2>7. OrdersFit(s2n)'
    <3> DEFINE rest == Tail(s2n)
    <3>1. s2n' = rest /\ \A k \in DOMAIN rest : k + 1 \in DOMAIN s2n /\ rest[k] = s2n[k + 1]
      BY <1>1, <1>3
    <3>2. OrdersFit(rest)
      BY <1>1, <1>2, <1>5, SuffixFits
    <3>3. \A k \in DOMAIN rest : k \in Nat \ {0}
      BY <1>3
    <3> HIDE DEF rest
    <3>4. ASSUME NEW k \in DOMAIN rest, rest[k].kind = "put", rest[k].of \in SessionIds
          PROVE  /\ rest[k].index < forwarded'[rest[k].of]
                 /\ \A x \in written'[rest[k].of] : x < rest[k].index
      <4>1. /\ rest[k].index < forwarded[rest[k].of]
            /\ \A x \in written[rest[k].of] : x < rest[k].index
        BY <3>2, <3>4 DEF OrdersFit
      <4>2. CASE rest[k].of # of
        BY <1>1, <2>5, <3>4, <4>1, <4>2
      <4>3. CASE rest[k].of = of
        <5>1. k + 1 \in DOMAIN s2n /\ rest[k] = s2n[k + 1] /\ 1 < k + 1
          BY <3>1, <3>3
        <5>2. i < rest[k].index
          BY <1>2, <2>2, <2>3, <3>4, <4>3, <5>1 DEF OrdersFit
        <5> QED
          BY <1>1, <2>5, <4>1, <4>3, <5>2
      <4> QED
        BY <4>2, <4>3
    <3> QED
      BY <3>1, <3>2, <3>4 DEF OrdersFit
  <2>8. InStream'
    BY <1>1, <2>1, <2>5, <2>6, <2>7 DEF InStream
  <2>9. Stream!Next
    <3>1. \A j \in written[of] : j < i
      BY <2>4
    <3>2. Stream!Write(of, i)
      BY <1>1, <2>2, <2>4 DEF Stream!Write
    <3>3. i \in 0 .. forwarded[of]
      <4>1. forwarded[of] \in Nat
        BY <2>1, <2>2
      <4> QED
        BY <1>4, <2>4, <4>1
    <3> QED
      BY <2>2, <3>2, <3>3 DEF Stream!Next
  <2> QED
    BY <2>8, <2>9
<1> QED
  BY <1>6, <1>7

\* The sessions that are opened are new ones or were there, and the order for one is not
\* to write.
LEMMA OpenedStream ==
    ASSUME Types, InStream, NEW u \in Users, NEW kind, NEW type,
           \/ kind = "putSession" /\ type = "put"
           \/ kind = "getSession" /\ type = "get",
           NEW session \in SessionType, session.path \in Paths,
           session.type = "put" => session.next = 0,
           NEW order \in OrderType, order.kind = kind, s2n' = Append(s2n, order),
           UNCHANGED sessions \/ RegisterSession(session),
           UNCHANGED <<forwarded, written>>
    PROVE  InStream'
<1>1. CASE UNCHANGED sessions
  BY <1>1, StreamSame
<1>2. CASE RegisterSession(session)
  <2>1. /\ sessions'[NextSession] = session
        /\ \A s \in DOMAIN sessions : sessions'[s] = sessions[s]
        /\ DOMAIN sessions' = DOMAIN sessions \cup {NextSession}
        /\ NextSession \notin DOMAIN sessions
    BY <1>2, RegisteredTypes DEF Types
  <2> HIDE DEF NextSession
  <2>2. \A s \in DOMAIN sessions' : sessions'[s].type = "put" =>
               IF s \in DOMAIN sessions
               THEN sessions[s].type = "put" /\ sessions'[s].next = sessions[s].next
               ELSE sessions'[s].next = 0
    BY <2>1
  <2> QED
    BY <2>1, <2>2, StreamSame
<1> QED
  BY <1>1, <1>2

LEMMA RequestStream ==
    ASSUME Types, InStream, NEW u \in Users, Request(u)
    PROVE  InStream' /\ [Stream!Next]_(Stream!vars)
<1> DEFINE m == Head(c2s[u])
           p == m.path
           max == m.max
<1>1. CASE PutSessionOnInit(u)
  <2> DEFINE session == [type |-> "put", user |-> u, path |-> p,
                         max |-> max, next |-> 0, node |-> 0]
             order == [kind |-> "putSession", trans |-> nextTrans,
                       name |-> FileName[p], max |-> max]
  <2>1. Received(u, "putSession") /\ UNCHANGED written
    BY <1>1 DEF PutSessionOnInit, Received
  <2>2. p \in Paths /\ max \in Nat
    BY <2>1, ReceivedTypes, RequestFields
  <2>3. \/ UNCHANGED <<sessions, s2n, forwarded>>
        \/ /\ s2n' = Append(s2n, order) /\ UNCHANGED forwarded
           /\ UNCHANGED sessions \/ RegisterSession(session)
    BY <1>1 DEF PutSessionOnInit, Refuse, Wait, sessionVars
  <2> HIDE DEF p, max
  <2>4. session \in SessionType /\ session.path = p /\ session.next = 0
    BY <2>2 DEF SessionType
  <2>5. order \in OrderType /\ order.kind = "putSession"
    BY <2>2, TransferAssumption DEF OrderType, Types, ServerTypes
  <2> HIDE DEF session, order
  <2>6. InStream'
    BY <2>1, <2>2, <2>3, <2>4, <2>5, StreamIdle, OpenedStream
  <2> QED
    BY <2>1, <2>3, <2>6 DEF Stream!vars
<1>2. CASE GetSessionOnInit(u)
  <2> DEFINE session == [type |-> "get", user |-> u, path |-> p, node |-> 0]
             order == [kind |-> "getSession", trans |-> nextTrans, name |-> FileName[p]]
  <2>1. Received(u, "getSession") /\ UNCHANGED written
    BY <1>2 DEF GetSessionOnInit, Received
  <2>2. p \in Paths
    BY <2>1, ReceivedTypes, RequestFields
  <2>3. \/ UNCHANGED <<sessions, s2n, forwarded>>
        \/ /\ s2n' = Append(s2n, order) /\ UNCHANGED forwarded
           /\ UNCHANGED sessions \/ RegisterSession(session)
    BY <1>2 DEF GetSessionOnInit, Refuse, Wait, sessionVars
  <2> HIDE DEF p, max
  <2>4. session \in SessionType /\ session.path = p /\ session.type = "get"
    BY <2>2 DEF SessionType
  <2>5. order \in OrderType /\ order.kind = "getSession"
    BY <2>2, TransferAssumption DEF OrderType, Types, ServerTypes
  <2> HIDE DEF session, order
  <2>6. InStream'
    BY <2>1, <2>2, <2>3, <2>4, <2>5, StreamIdle, OpenedStream
  <2> QED
    BY <2>1, <2>3, <2>6 DEF Stream!vars
<1>3. CASE GetOnInit(u)
  <2> DEFINE s == m.session
             node == sessions[s].node
             i == m.index
             order == [kind |-> "get", trans |-> nextTrans, node |-> node, index |-> i]
  <2>1. Received(u, "get") /\ UNCHANGED written
    BY <1>3 DEF GetOnInit, Received
  <2>2. i \in Nat
    BY <2>1, ReceivedTypes, RequestFields
  <2>3. \/ UNCHANGED <<sessions, s2n, forwarded>>
        \/ /\ s2n' = Append(s2n, order) /\ UNCHANGED <<forwarded, sessions>>
           /\ IsOwn("get", u, s)
    BY <1>3 DEF GetOnInit, Refuse, Wait, sessionVars
  <2>4. CASE UNCHANGED <<sessions, s2n, forwarded>>
    BY <2>1, <2>4, StreamIdle DEF Stream!vars
  <2>5. CASE /\ s2n' = Append(s2n, order) /\ UNCHANGED <<forwarded, sessions>>
             /\ IsOwn("get", u, s)
    <3>1. node \in Nat
      BY <2>5, OwnFields DEF Types
    <3> HIDE DEF node, i
    <3>2. order \in OrderType /\ order.kind = "get"
      BY <2>2, <3>1 DEF OrderType, Types, ServerTypes
    <3> HIDE DEF order
    <3>3. InStream'
      BY <2>1, <2>5, <3>2, StreamSame
    <3> QED
      BY <2>1, <2>5, <3>3 DEF Stream!vars
  <2> QED
    BY <2>3, <2>4, <2>5
<1>4. CASE RemoveOnInit(u)
  <2>1. UNCHANGED <<sessions, s2n, forwarded, written>>
    BY <1>4 DEF RemoveOnInit, Received, sessionVars
  <2> QED
    BY <2>1, StreamIdle DEF Stream!vars
<1> QED
  BY <1>1, <1>2, <1>3, <1>4, PutOnInitStream DEF Request
\* What the end of a transaction does to the sessions: nothing, or one is removed or is
\* attached to a session of the storage node.
LEMMA EndedSessions ==
    ASSUME Types, NEW w \in waits,
           \/ PutSessionOnActive(w) \/ PutOnActive(w) \/ GetSessionOnActive(w) \/ GetOnActive(w)
           \/ Timeout(w)
    PROVE  /\ DOMAIN sessions' = DOMAIN sessions
           /\ \A s \in DOMAIN sessions : s # w.session => sessions'[s] = sessions[s]
           /\ LET s == w.session
              IN  \/ sessions'[s] = sessions[s]
                  \/ sessions'[s].type = "none"
                  \/ /\ ~Timeout(w) /\ Head(n2s).ok /\ Head(n2s).node \in Nat
                     /\ w.kind \in {"putSession", "getSession"}
                     /\ sessions[s].type # "none"
                     /\ sessions'[s] = [sessions[s] EXCEPT !.node = Head(n2s).node]
<1> DEFINE s == w.session
           m == Head(n2s)
           new == [sessions[s] EXCEPT !.node = m.node]
<1>1. s \in DOMAIN sessions /\ sessions[s] \in SessionType
  BY WaitFields DEF Types
<1>2. CASE UNCHANGED sessions
  BY <1>2
<1>3. CASE RemoveSession(s)
  BY <1>1, <1>3, RemoveSessionTypes DEF Types
<1>4. \/ UNCHANGED sessions
      \/ RemoveSession(s)
      \/ /\ m.ok /\ sessions[s].type # "none" /\ sessions' = [sessions EXCEPT ![s] = new]
         /\ \E kind \in {"putSession", "getSession"} : Activated(w, kind)
  BY DEF PutSessionOnActive, PutOnActive, GetSessionOnActive, GetOnActive, SessionOnActive,
         Timeout, OnError, sessionVars
<1>5. CASE /\ m.ok /\ sessions[s].type # "none" /\ sessions' = [sessions EXCEPT ![s] = new]
           /\ \E kind \in {"putSession", "getSession"} : Activated(w, kind)
  <2>1. w.kind \in {"putSession", "getSession"} /\ ResultFor(w, m) /\ n2s' # n2s
    <3>1. w.kind \in {"putSession", "getSession"} /\ ResultFor(w, m)
      BY <1>5, ActivatedTypes
    <3>2. n2s # <<>> /\ n2s' = Tail(n2s) /\ n2s \in Seq(ResultType)
      BY <1>5 DEF Activated, Types, NodeTypes
    <3>3. Len(n2s') = Len(n2s) - 1 /\ Len(n2s) \in Nat
      BY <3>2, HeadTaken
    <3>4. n2s' # n2s
      <4>1. Len(n2s') # Len(n2s)
        BY <3>3
      <4> QED
        BY <4>1
    <3> QED
      BY <3>1, <3>4
  <2>2. m.node \in Nat
    BY <1>5, <2>1, ResultForFields
  <2>3. new \in SessionType
    BY <1>1, <1>5, <2>2, Attached
  <2>4. ~Timeout(w)
    BY <2>1 DEF Timeout, links
  <2> HIDE DEF new, m, s
  <2>5. /\ DOMAIN sessions' = DOMAIN sessions /\ sessions'[s] = new
        /\ \A x \in DOMAIN sessions \ {s} : sessions'[x] = sessions[x]
    BY <1>1, <1>5, <2>3, SessionChanged DEF Types
  <2> QED
    BY <1>5, <2>1, <2>2, <2>4, <2>5 DEF new, m, s
<1> QED
  BY <1>2, <1>3, <1>4, <1>5

LEMMA EndedStream ==
    ASSUME Types, InStream, NEW w \in waits,
           \/ PutSessionOnActive(w) \/ PutOnActive(w) \/ GetSessionOnActive(w) \/ GetOnActive(w)
           \/ Timeout(w)
    PROVE  InStream' /\ UNCHANGED <<forwarded, written>>
<1> DEFINE s == w.session
<1>1. UNCHANGED <<forwarded, written, s2n>>
  BY DEF PutSessionOnActive, PutOnActive, GetSessionOnActive, GetOnActive, SessionOnActive,
         Timeout, Activated, links
<1>2. s \in DOMAIN sessions /\ sessions[s] \in SessionType
  BY WaitFields DEF Types
<1>3. /\ DOMAIN sessions' = DOMAIN sessions
      /\ \A x \in DOMAIN sessions : x # s => sessions'[x] = sessions[x]
      /\ \/ sessions'[s] = sessions[s]
         \/ sessions'[s].type = "none"
         \/ /\ Head(n2s).node \in Nat /\ sessions[s].type # "none"
            /\ sessions'[s] = [sessions[s] EXCEPT !.node = Head(n2s).node]
  BY EndedSessions
<1> HIDE DEF s
<1>4. sessions'[s].type = "put" => sessions[s].type = "put" /\ sessions'[s].next = sessions[s].next
  <2>1. CASE /\ Head(n2s).node \in Nat /\ sessions[s].type # "none"
             /\ sessions'[s] = [sessions[s] EXCEPT !.node = Head(n2s).node]
    BY <1>2, <2>1, Attached
  <2> QED
    BY <1>3, <2>1
<1>5. \A x \in DOMAIN sessions' : sessions'[x].type = "put" =>
          IF x \in DOMAIN sessions
          THEN sessions[x].type = "put" /\ sessions'[x].next = sessions[x].next
          ELSE sessions'[x].next = 0
  BY <1>3, <1>4
<1>6. IsSuffix(s2n', s2n)
  BY <1>1, SameIsSuffix DEF Types, NodeTypes
<1> QED
  BY <1>1, <1>3, <1>5, <1>6, StreamSame

LEMMA StreamNext ==
    ASSUME Types, InStream, [Next]_vars
    PROVE  InStream' /\ [Stream!Next]_(Stream!vars)
<1>1. ASSUME NEW u \in Users, Client(u) \/ Console(u) \/ KickOut(u) \/ Login(u)
      PROVE  InStream' /\ [Stream!Next]_(Stream!vars)
  <2>1. CASE Client(u)
    <3>1. UNCHANGED <<forwarded, written, sessions, s2n>>
      BY <2>1 DEF Client, PutRequest, ReadError, ReadPutSession, ReadPut, ReadGetSession,
                  ReadGet, Answered, serverVars, sessionVars, links, history
    <3> QED
      BY <3>1, StreamIdle DEF Stream!vars
  <2>2. CASE Console(u)
    <3>1. UNCHANGED <<forwarded, written, sessions, s2n>>
      BY <2>2 DEF Console, PutCommand, GetCommand, RemoveCommand, Command,
                  serverVars, sessionVars, links, history
    <3> QED
      BY <3>1, StreamIdle DEF Stream!vars
  <2>3. CASE KickOut(u) \/ Login(u)
    <3>1. UNCHANGED <<forwarded, written, sessions, s2n>>
      BY <2>3 DEF KickOut, Login, Fault, sessionVars, links, history
    <3> QED
      BY <3>1, StreamIdle DEF Stream!vars
  <2> QED
    BY <1>1, <2>1, <2>2, <2>3
<1>2. CASE LateAnswer \/ UNCHANGED vars
  <2>1. UNCHANGED <<forwarded, written, sessions, s2n>>
    BY <1>2 DEF LateAnswer, vars, serverVars, sessionVars, links, history
  <2> QED
    BY <2>1, StreamIdle DEF Stream!vars
<1>3. CASE NodePutSession \/ NodeGetSession \/ NodeGet
  <2>1. /\ UNCHANGED <<forwarded, written, sessions>>
        /\ s2n # <<>> /\ s2n' = Tail(s2n)
    BY <1>3 DEF NodePutSession, NodeGetSession, NodeGet, NodeReceived, serverVars, sessionVars
  <2>2. IsSuffix(s2n', s2n)
    BY <2>1, TailIsSuffix DEF Types, NodeTypes
  <2> QED
    BY <2>1, <2>2, StreamIdle DEF Stream!vars
<1>4. CASE LoseConnection \/ RestartNode
  <2>1. /\ UNCHANGED <<forwarded, written, sessions>>
        /\ \E k \in 0 .. Len(s2n) : s2n' = SubSeq(s2n, k + 1, Len(s2n))
    BY <1>4 DEF LoseConnection, RestartNode, Fault, sessionVars
  <2>2. IsSuffix(s2n', s2n)
    BY <2>1, CutIsSuffix DEF Types, NodeTypes
  <2> QED
    BY <2>1, <2>2, StreamIdle DEF Stream!vars
<1>5. ASSUME NEW w \in waits,
             \/ PutSessionOnActive(w) \/ PutOnActive(w) \/ GetSessionOnActive(w) \/ GetOnActive(w)
             \/ Timeout(w)
      PROVE  InStream' /\ [Stream!Next]_(Stream!vars)
  BY <1>5, EndedStream DEF Stream!vars
<1> QED
  BY <1>1, <1>2, <1>3, <1>4, <1>5, RequestStream, NodePutStream DEF Next, Answer, Node

\* However often a put is asked for again, whatever times out or is lost and whichever
\* process starts again: the storage node writes each fragment that the server forwarded
\* in a session at most once, in increasing order, and only after it was forwarded.  Every
\* step of Transfer is one of FragmentStream, or leaves its variables alone.
THEOREM IsFragmentStream ==
    Spec => ImplementsStream
<1> DEFINE IInv == Types /\ InStream
<1>1. Init => IInv /\ Stream!Init
  <2> SUFFICES ASSUME Init
               PROVE  IInv /\ Stream!Init
    OBVIOUS
  <2>1. /\ forwarded = [s \in SessionIds |-> 0] /\ written = [s \in SessionIds |-> {}]
        /\ sessions = <<>> /\ s2n = <<>>
    BY DEF Init
  <2>2. \A s \in SessionIds : SessionFits(s) /\ \A i \in written[s] : i < forwarded[s]
    BY <2>1 DEF SessionFits
  <2>3. OrdersFit(s2n)
    BY <2>1 DEF OrdersFit
  <2>4. forwarded \in [SessionIds -> Nat] /\ written \in [SessionIds -> SUBSET Nat]
    BY <2>1
  <2> QED
    BY <2>1, <2>2, <2>3, <2>4, TypesInit DEF InStream, Stream!Init
<1>2. IInv /\ [Next]_vars => IInv' /\ [Stream!Next]_(Stream!vars)
  BY TypesNext, StreamNext
<1> QED
  BY <1>1, <1>2, PTL DEF Spec, ImplementsStream, Stream!Spec
-----------------------------------------------------------------------------
(* Fragments are sent under their own index *)

LEMMA FragmentsStep ==
    ASSUME Fragments,
           \A u \in Users : \A m \in Messages(c2s'[u]) :
               m \in Messages(c2s[u]) \/ (m.kind = "put" => IsFragment(m)),
           \A m \in Messages(s2n') : m \in Messages(s2n) \/ (m.kind = "put" => IsFragment(m))
    PROVE  Fragments'
BY DEF Fragments, IsFragment

\* An order about a session that the server has just found or registered ...
ForSession(s, p, order) ==
    /\ order.name = FileName[p]
    /\ \/ UNCHANGED <<sessions, index>> /\ s = index[p] /\ s # 0
       \/ /\ s = NextSession
          /\ \E session \in SessionType :
                RegisterSession(session) /\ session.path = p /\ session.node = 0

\* ... and one about a fragment, in a session of its own.
InSession(s, p, order) ==
    /\ s \in DOMAIN sessions /\ sessions[s].type # "none"
    /\ p = sessions[s].path /\ order.node = sessions[s].node
    /\ UNCHANGED index
    /\ \/ UNCHANGED sessions
       \/ sessions[s].type = "put" /\ sessions' = [sessions EXCEPT ![s].next = @ + 1]

Orders(u, kind, s, p, order) ==
    /\ Wait(u, kind, s, p, order) /\ order.trans = nextTrans /\ order.kind = kind
    /\ kind = "put" => \E m \in Messages(c2s[u]) :
          m.kind = "put" /\ m.data = order.data /\ m.index = order.index
    /\ \/ kind \in {"putSession", "getSession"} /\ ForSession(s, p, order)
       \/ kind \in {"put", "get"} /\ InSession(s, p, order)

\* What a request leaves of the messages, and the order it sends.
LEMMA RequestSends ==
    ASSUME Types, NEW u \in Users, Request(u)
    PROVE  /\ \A x \in Users : Messages(c2s'[x]) \subseteq Messages(c2s[x])
           /\ \/ UNCHANGED <<s2n, sessions, index, waits>>
              \/ \E kind \in WaitKinds, s \in DOMAIN sessions', p \in Paths, order \in OrderType :
                    Orders(u, kind, s, p, order)
<1> DEFINE m == Head(c2s[u])
           p == m.path
           max == m.max
           Sends == \E kind \in WaitKinds, s \in DOMAIN sessions', q \in Paths, order \in OrderType :
                       Orders(u, kind, s, q, order)
<1>1. \E kind : Received(u, kind)
  BY DEF Request, PutSessionOnInit, PutOnInit, GetSessionOnInit, GetOnInit, RemoveOnInit
<1>2. \A x \in Users : Messages(c2s'[x]) \subseteq Messages(c2s[x])
  BY <1>1, ReceivedTypes
<1>3. ASSUME NEW kind, Refuse(u, kind)
      PROVE  UNCHANGED <<s2n, sessions, index, waits>>
  BY <1>3 DEF Refuse, sessionVars
<1>4. CASE PutSessionOnInit(u)
  <2> DEFINE session == [type |-> "put", user |-> u, path |-> p,
                         max |-> max, next |-> 0, node |-> 0]
             order == [kind |-> "putSession", trans |-> nextTrans,
                       name |-> FileName[p], max |-> max]
             old == FindSession("put", u, p)
  <2>1. Received(u, "putSession")
    BY <1>4 DEF PutSessionOnInit
  <2>2. p \in Paths /\ max \in Nat
    BY <2>1, ReceivedTypes, RequestFields
  <2>3. \/ Refuse(u, "putSession")
        \/ /\ old # 0 /\ UNCHANGED <<sessions, index>>
           /\ Wait(u, "putSession", old, p, order)
        \/ /\ old = 0 /\ RegisterSession(session)
           /\ Wait(u, "putSession", NextSession, p, order)
    BY <1>4 DEF PutSessionOnInit, sessionVars
  <2> HIDE DEF p, max
  <2>4. session \in SessionType /\ session.path = p /\ session.node = 0
    BY <2>2 DEF SessionType
  <2>5. /\ order \in OrderType /\ order.kind = "putSession" /\ order.trans = nextTrans
        /\ order.name = FileName[p]
    BY <2>2, TransferAssumption DEF OrderType, Types, ServerTypes
  <2>6. old # 0 => old \in DOMAIN sessions /\ old = index[p]
    BY <2>2, Found DEF Types
  <2>7. RegisterSession(session) => NextSession \in DOMAIN sessions'
    BY <2>2, <2>4, RegisteredTypes DEF Types
  <2> HIDE DEF session, order, old
  <2>8. CASE /\ old # 0 /\ UNCHANGED <<sessions, index>>
             /\ Wait(u, "putSession", old, p, order)
    <3>1. ForSession(old, p, order) /\ old \in DOMAIN sessions'
      BY <2>5, <2>6, <2>8 DEF ForSession
    <3>2. Orders(u, "putSession", old, p, order)
      BY <2>5, <2>8, <3>1 DEF Orders
    <3>3. Sends
      BY <2>2, <2>5, <3>1, <3>2, KindsOfWaits
    <3> QED
      BY <1>2, <3>3
  <2>9. CASE /\ old = 0 /\ RegisterSession(session)
             /\ Wait(u, "putSession", NextSession, p, order)
    <3>1. ForSession(NextSession, p, order)
      BY <2>4, <2>5, <2>9 DEF ForSession
    <3>2. Orders(u, "putSession", NextSession, p, order)
      BY <2>5, <2>9, <3>1 DEF Orders
    <3>3. Sends
      BY <2>2, <2>5, <2>7, <2>9, <3>2, KindsOfWaits
    <3> QED
      BY <1>2, <3>3
  <2> QED
    BY <1>2, <1>3, <2>3, <2>8, <2>9
<1>5. CASE GetSessionOnInit(u)
  <2> DEFINE session == [type |-> "get", user |-> u, path |-> p, node |-> 0]
             order == [kind |-> "getSession", trans |-> nextTrans, name |-> FileName[p]]
             old == FindSession("get", u, p)
  <2>1. Received(u, "getSession")
    BY <1>5 DEF GetSessionOnInit
  <2>2. p \in Paths
    BY <2>1, ReceivedTypes, RequestFields
  <2>3. \/ Refuse(u, "getSession")
        \/ /\ old # 0 /\ UNCHANGED <<sessions, index>>
           /\ Wait(u, "getSession", old, p, order)
        \/ /\ old = 0 /\ RegisterSession(session)
           /\ Wait(u, "getSession", NextSession, p, order)
    BY <1>5 DEF GetSessionOnInit, sessionVars
  <2> HIDE DEF p, max
  <2>4. session \in SessionType /\ session.path = p /\ session.node = 0
    BY <2>2 DEF SessionType
  <2>5. /\ order \in OrderType /\ order.kind = "getSession" /\ order.trans = nextTrans
        /\ order.name = FileName[p]
    BY <2>2, TransferAssumption DEF OrderType, Types, ServerTypes
  <2>6. old # 0 => old \in DOMAIN sessions /\ old = index[p]
    BY <2>2, Found DEF Types
  <2>7. RegisterSession(session) => NextSession \in DOMAIN sessions'
    BY <2>2, <2>4, RegisteredTypes DEF Types
  <2> HIDE DEF session, order, old
  <2>8. CASE /\ old # 0 /\ UNCHANGED <<sessions, index>>
             /\ Wait(u, "getSession", old, p, order)
    <3>1. ForSession(old, p, order) /\ old \in DOMAIN sessions'
      BY <2>5, <2>6, <2>8 DEF ForSession
    <3>2. Orders(u, "getSession", old, p, order)
      BY <2>5, <2>8, <3>1 DEF Orders
    <3>3. Sends
      BY <2>2, <2>5, <3>1, <3>2, KindsOfWaits
    <3> QED
      BY <1>2, <3>3
  <2>9. CASE /\ old = 0 /\ RegisterSession(session)
             /\ Wait(u, "getSession", NextSession, p, order)
    <3>1. ForSession(NextSession, p, order)
      BY <2>4, <2>5, <2>9 DEF ForSession
    <3>2. Orders(u, "getSession", NextSession, p, order)
      BY <2>5, <2>9, <3>1 DEF Orders
    <3>3. Sends
      BY <2>2, <2>5, <2>7, <2>9, <3>2, KindsOfWaits
    <3> QED
      BY <1>2, <3>3
  <2> QED
    BY <1>2, <1>3, <2>3, <2>8, <2>9
<1>6. CASE PutOnInit(u)
  <2>1. CASE ~Refuse(u, "put")
    <3>1. PICK s \in Nat, order \in OrderType :
             /\ s \in DOMAIN sessions /\ sessions[s] \in SessionType
             /\ sessions[s].type = "put"
             /\ sessions' = [sessions EXCEPT ![s].next = @ + 1]
             /\ m.index = sessions[s].next /\ m \in Messages(c2s[u]) /\ m.kind = "put"
             /\ order.kind = "put" /\ order.index = sessions[s].next
             /\ order.data = m.data /\ order.node = sessions[s].node
             /\ order.trans = nextTrans /\ UNCHANGED index
             /\ Wait(u, "put", s, sessions[s].path, order)
      BY <1>6, <2>1, PutOnInitDoes
    <3>2. s \in DOMAIN sessions' /\ sessions[s].path \in Paths
      BY <3>1, SessionFields
    <3> DEFINE q == sessions[s].path
    <3>3. InSession(s, q, order)
      BY <3>1 DEF InSession
    <3>4. /\ Wait(u, "put", s, q, order) /\ order.trans = nextTrans /\ order.kind = "put"
          /\ \E r \in Messages(c2s[u]) :
                r.kind = "put" /\ r.data = order.data /\ r.index = order.index
          /\ q \in Paths
      BY <3>1, <3>2
    <3> HIDE DEF q, m
    <3>5. Orders(u, "put", s, q, order)
      BY <3>3, <3>4 DEF Orders
    <3>6. Sends
      BY <3>2, <3>4, <3>5, KindsOfWaits
    <3> QED
      BY <1>2, <3>6
  <2> QED
    BY <1>2, <1>3, <2>1
<1>7. CASE GetOnInit(u)
  <2> DEFINE s == m.session
             q == sessions[s].path
             node == sessions[s].node
             i == m.index
             order == [kind |-> "get", trans |-> nextTrans, node |-> node, index |-> i]
  <2>1. Received(u, "get")
    BY <1>7 DEF GetOnInit
  <2>2. i \in Nat
    BY <2>1, ReceivedTypes, RequestFields
  <2>3. \/ Refuse(u, "get")
        \/ /\ IsOwn("get", u, s) /\ UNCHANGED <<sessions, index>>
           /\ Wait(u, "get", s, q, order)
    BY <1>7 DEF GetOnInit, sessionVars
  <2>4. CASE /\ IsOwn("get", u, s) /\ UNCHANGED <<sessions, index>>
             /\ Wait(u, "get", s, q, order)
    <3>1. /\ s \in DOMAIN sessions /\ q \in Paths /\ node \in Nat /\ sessions[s].type = "get"
      BY <2>4, OwnFields DEF Types
    <3> HIDE DEF i, node
    <3>2. order \in OrderType /\ order.kind = "get" /\ order.trans = nextTrans /\ order.node = node
      BY <2>2, <3>1 DEF OrderType, Types, ServerTypes
    <3> HIDE DEF order, m
    <3>3. InSession(s, q, order) /\ s \in DOMAIN sessions'
      BY <2>4, <3>1, <3>2 DEF InSession, node
    <3> HIDE DEF s, q
    <3>4. Orders(u, "get", s, q, order)
      BY <2>4, <3>2, <3>3 DEF Orders
    <3>5. Sends
      BY <3>1, <3>2, <3>3, <3>4, KindsOfWaits
    <3> QED
      BY <1>2, <3>5
  <2> QED
    BY <1>2, <1>3, <2>3, <2>4
<1>8. CASE RemoveOnInit(u)
  <2>1. UNCHANGED <<s2n, sessions, index, waits>>
    BY <1>8 DEF RemoveOnInit, sessionVars
  <2> QED
    BY <1>2, <2>1
<1> QED
  BY <1>4, <1>5, <1>6, <1>7, <1>8 DEF Request
\* What becomes of the stored contents does not concern the server and the node: nothing
\* but messages to the server is added.
Idle ==
    /\ UNCHANGED <<sessions, index, waits, nextTrans, nodeVars, acked, restarts>>
    /\ Messages(s2n') \subseteq Messages(s2n) /\ Messages(n2s') \subseteq Messages(n2s)
    /\ \A u \in Users : \A m \in Messages(c2s'[u]) :
          m \in Messages(c2s[u]) \/ (m.kind = "put" => IsFragment(m))

LEMMA AskedIdle ==
    ASSUME Types, NEW u \in Users, NEW request \in RequestType, request.kind # "put",
           c2s' = [c2s EXCEPT ![u] = Append(@, request)],
           UNCHANGED <<serverVars, nodeVars, links, acked, restarts>>
    PROVE  Idle
<1>1. c2s \in [Users -> Seq(RequestType)]
  BY DEF Types, LinkTypes
<1> DEFINE more == Append(c2s[u], request)
<1>2. Messages(more) = Messages(c2s[u]) \cup {request}
  BY <1>1, Appended
<1>3. c2s' = [c2s EXCEPT ![u] = more]
  OBVIOUS
<1> HIDE DEF more
<1>4. \A x \in Users : c2s'[x] = IF x = u THEN more ELSE c2s[x]
  BY <1>1, <1>3
<1>5. \A x \in Users : \A m \in Messages(c2s'[x]) : m \in Messages(c2s[x]) \/ m.kind # "put"
  BY <1>2, <1>4
<1> QED
  BY <1>5 DEF Idle, serverVars, sessionVars, links

LEMMA ClientIdle ==
    ASSUME Types, NEW u \in Users, Client(u)
    PROVE  Idle
<1>1. CASE PutRequest(u)
  <2> DEFINE request == [kind |-> "putSession", path |-> put[u].path, max |-> Size[put[u].file]]
  <2>1. /\ put[u].typed /\ Ask(u, <<request>>)
        /\ UNCHANGED <<serverVars, nodeVars, links, acked, restarts>>
    BY <1>1 DEF PutRequest, history
  <2>2. put[u].file \in Files /\ put[u].path \in Paths
    BY <2>1, ClientFields DEF Types
  <2>3. Size[put[u].file] \in Nat
    BY <2>2, TransferAssumption
  <2>4. request \in RequestType /\ request.kind # "put"
    BY <2>2, <2>3 DEF RequestType
  <2> HIDE DEF request
  <2> QED
    BY <2>1, <2>4, AskOne, AskedIdle DEF Types
<1>2. ASSUME NEW requests \in Seq(RequestType), Answered(u, requests),
             \A m \in Messages(requests) : m.kind = "put" => IsFragment(m)
      PROVE  Idle
  <2>1. UNCHANGED <<serverVars, nodeVars, links, acked, restarts>>
    BY <1>2 DEF Answered
  <2>2. /\ Messages(c2s'[u]) = Messages(c2s[u]) \cup Messages(requests)
        /\ \A x \in Users \ {u} : c2s'[x] = c2s[x]
    BY <1>2, AnsweredLinks DEF Types
  <2> QED
    BY <1>2, <2>1, <2>2 DEF Idle, serverVars, sessionVars, links
<1> QED
  BY <1>1, <1>2, ClientSends

LEMMA ConsoleIdle ==
    ASSUME Types, NEW u \in Users, Console(u)
    PROVE  Idle
<1>1. UNCHANGED <<serverVars, nodeVars, links, acked, restarts>>
  BY DEF Console, PutCommand, GetCommand, RemoveCommand, Command, history
<1>2. ASSUME NEW p \in Paths, GetCommand(u, p)
      PROVE  Idle
  <2> DEFINE request == [kind |-> "getSession", path |-> p]
  <2>1. Ask(u, <<request>>)
    BY <1>2 DEF GetCommand
  <2>2. request \in RequestType /\ request.kind # "put"
    BY DEF RequestType
  <2> HIDE DEF request
  <2> QED
    BY <1>1, <2>1, <2>2, AskOne, AskedIdle DEF Types
<1>3. ASSUME NEW p \in Paths, RemoveCommand(u, p)
      PROVE  Idle
  <2> DEFINE request == [kind |-> "remove", path |-> p]
  <2>1. c2s' = [c2s EXCEPT ![u] = Append(@, request)]
    BY <1>3 DEF RemoveCommand
  <2>2. request \in RequestType /\ request.kind # "put"
    BY DEF RequestType
  <2> HIDE DEF request
  <2> QED
    BY <1>1, <2>1, <2>2, AskedIdle
<1>4. ASSUME UNCHANGED c2s
      PROVE  Idle
  BY <1>1, <1>4 DEF Idle, serverVars, sessionVars, links
<1> QED
  BY <1>2, <1>3, <1>4 DEF Console, PutCommand

\* The transaction of the server that an answer or its timer ends.
Ended(w) ==
    PutSessionOnActive(w) \/ PutOnActive(w) \/ GetSessionOnActive(w) \/ GetOnActive(w) \/ Timeout(w)

\* Every step is one of these.
LEMMA Steps ==
    ASSUME Types, [Next]_vars
    PROVE  \/ Idle
           \/ \E u \in Users : Request(u)
           \/ \E w \in waits : Ended(w)
           \/ Node
           \/ RestartNode
<1>1. CASE LateAnswer
  <2>1. /\ n2s # <<>> /\ n2s' = Tail(n2s)
        /\ UNCHANGED <<c2s, serverVars, nodeVars, s2n, acked, restarts>>
    BY <1>1 DEF LateAnswer, history
  <2>2. Messages(n2s') \subseteq Messages(n2s)
    BY <2>1, HeadTaken DEF Types, NodeTypes
  <2> QED
    BY <2>1, <2>2 DEF Idle, serverVars, sessionVars
<1>2. CASE LoseConnection
  <2>1. UNCHANGED <<c2s, sessions, index, waits, nextTrans, nodeVars, acked, restarts>>
    BY <1>2 DEF LoseConnection, Fault, sessionVars, nodeVars
  <2>2. Messages(n2s') \subseteq Messages(n2s) /\ Messages(s2n') \subseteq Messages(s2n)
    BY <1>2, LinksCut DEF LoseConnection, Types
  <2> QED
    BY <2>1, <2>2 DEF Idle
<1>3. ASSUME NEW u \in Users, KickOut(u) \/ Login(u)
      PROVE  Idle
  BY <1>3 DEF KickOut, Login, Fault, Idle, sessionVars, nodeVars, links, history
<1>4. CASE UNCHANGED vars
  BY <1>4 DEF vars, Idle, serverVars, sessionVars, links, history
<1> QED
  BY <1>1, <1>2, <1>3, <1>4, ClientIdle, ConsoleIdle DEF Next, Answer, Ended

LEMMA EndedDoes ==
    ASSUME Types, NEW w \in waits, Ended(w)
    PROVE  /\ waits' = waits \ {w}
           /\ UNCHANGED <<c2s, index, nextTrans, nodeVars, s2n, restarts>>
           /\ Messages(n2s') \subseteq Messages(n2s)
<1>1. ASSUME NEW kind, Activated(w, kind)
      PROVE  /\ waits' = waits \ {w} /\ UNCHANGED <<c2s, nextTrans, nodeVars, s2n, restarts>>
             /\ Messages(n2s') \subseteq Messages(n2s)
  BY <1>1, ActivatedTypes DEF Activated
<1>2. \/ \E kind : Activated(w, kind)
      \/ waits' = waits \ {w} /\ UNCHANGED <<c2s, nextTrans, nodeVars, s2n, n2s, restarts>>
  BY DEF Ended, PutSessionOnActive, PutOnActive, GetSessionOnActive, GetOnActive,
         SessionOnActive, Timeout, links
<1>3. UNCHANGED index
  BY DEF Ended, PutSessionOnActive, PutOnActive, GetSessionOnActive, GetOnActive,
         SessionOnActive, Timeout, OnError, RemoveSession, sessionVars
<1> QED
  BY <1>1, <1>2, <1>3

LEMMA NodeDoes ==
    ASSUME Types, Node
    PROVE  /\ UNCHANGED <<c2s, sessions, index, waits, nextTrans, acked, restarts>>
           /\ Head(s2n) \in Messages(s2n) /\ Head(s2n) \in OrderType
           /\ Messages(s2n') \subseteq Messages(s2n)
<1>1. PICK kind : NodeReceived(kind)
  BY DEF Node, NodePutSession, NodePut, NodeGetSession, NodeGet
<1> QED
  BY <1>1, HeadTaken DEF NodeReceived, serverVars, sessionVars, Types, NodeTypes

LEMMA FragmentsNext ==
    ASSUME Types, Fragments, [Next]_vars
    PROVE  Fragments'
<1>1. CASE Idle
  BY <1>1, FragmentsStep DEF Idle
<1>2. ASSUME NEW u \in Users, Request(u)
      PROVE  Fragments'
  <2>1. \A x \in Users : Messages(c2s'[x]) \subseteq Messages(c2s[x])
    BY <1>2, RequestSends
  <2>2. CASE UNCHANGED s2n
    BY <2>1, <2>2, FragmentsStep
  <2>3. ASSUME NEW kind \in WaitKinds, NEW s, NEW p, NEW order \in OrderType,
               Orders(u, kind, s, p, order)
        PROVE  Fragments'
    <3>1. s2n' = Append(s2n, order) /\ order.kind = kind
      BY <2>3 DEF Orders, Wait
    <3>2. kind = "put" => \E m \in Messages(c2s[u]) :
             m.kind = "put" /\ m.data = order.data /\ m.index = order.index
      BY <2>3 DEF Orders
    <3>3. kind = "put" => IsFragment(order)
      BY <3>2 DEF Fragments, IsFragment
    <3>4. Messages(s2n') = Messages(s2n) \cup {order}
      BY <3>1, Appended DEF Types, NodeTypes
    <3> QED
      BY <2>1, <3>1, <3>3, <3>4, FragmentsStep
  <2> QED
    BY <1>2, <2>2, <2>3, RequestSends
<1>3. ASSUME NEW w \in waits, Ended(w)
      PROVE  Fragments'
  BY <1>3, EndedDoes, FragmentsStep
<1>4. CASE Node
  BY <1>4, NodeDoes, FragmentsStep
<1>5. CASE RestartNode
  <2>1. UNCHANGED c2s /\ Messages(s2n') \subseteq Messages(s2n)
    BY <1>5, LinksCut DEF RestartNode, Fault, Types
  <2> QED
    BY <2>1, FragmentsStep
<1> QED
  BY <1>1, <1>2, <1>3, <1>4, <1>5, Steps
-----------------------------------------------------------------------------
(* Sessions are found under their paths *)

\* What an order leaves of the sessions of the server.
LEMMA SessionsKept ==
    ASSUME Types, NEW u \in Users, NEW kind \in WaitKinds, NEW s \in DOMAIN sessions',
           NEW p \in Paths, NEW order \in OrderType, Orders(u, kind, s, p, order)
    PROVE  /\ DOMAIN sessions \subseteq DOMAIN sessions'
           /\ \A x \in DOMAIN sessions :
                 /\ sessions'[x].type = sessions[x].type
                 /\ sessions[x].type # "none" => /\ sessions'[x].path = sessions[x].path
                                                 /\ sessions'[x].node = sessions[x].node
           /\ \A x \in DOMAIN sessions' \ DOMAIN sessions :
                 x = s /\ sessions'[x].path = p /\ sessions'[x].node = 0
           /\ \A q \in Paths : index'[q] = index[q] \/ (index'[q] = s /\ q = p)
           /\ s \in DOMAIN sessions => \/ s = index[p]
                                       \/ sessions[s].type # "none" /\ p = sessions[s].path
<1>1. CASE UNCHANGED <<sessions, index>> /\ (s = index[p] \/ InSession(s, p, order))
  BY <1>1 DEF InSession
<1>2. ASSUME s = NextSession,
             NEW session \in SessionType, RegisterSession(session), session.path = p,
             session.node = 0
      PROVE  /\ DOMAIN sessions' = DOMAIN sessions \cup {s} /\ s \notin DOMAIN sessions
             /\ sessions'[s] = session
             /\ \A x \in DOMAIN sessions : sessions'[x] = sessions[x]
             /\ \A q \in Paths : index'[q] = IF q = p THEN s ELSE index[q]
  BY <1>2, RegisteredTypes DEF Types
<1>3. CASE /\ InSession(s, p, order) /\ sessions[s].type = "put"
           /\ sessions' = [sessions EXCEPT ![s].next = @ + 1]
  <2>1. s \in DOMAIN sessions /\ sessions[s] \in SessionType /\ UNCHANGED index
        /\ p = sessions[s].path
    BY <1>3 DEF InSession, Types, ServerTypes
  <2> DEFINE new == [sessions[s] EXCEPT !.next = @ + 1]
  <2>2. new \in SessionType /\ new.type = "put" /\ new.path = sessions[s].path
        /\ new.node = sessions[s].node
    BY <1>3, <2>1, Advanced
  <2>3. sessions' = [sessions EXCEPT ![s] = new]
    BY <1>3
  <2> HIDE DEF new
  <2>4. /\ DOMAIN sessions' = DOMAIN sessions /\ sessions'[s] = new
        /\ \A x \in DOMAIN sessions \ {s} : sessions'[x] = sessions[x]
    BY <2>1, <2>2, <2>3, SessionChanged DEF Types
  <2> QED
    BY <1>3, <2>1, <2>2, <2>4
<1>4. CASE \E session \in SessionType :
             RegisterSession(session) /\ session.path = p /\ session.node = 0 /\ s = NextSession
  BY <1>2, <1>4
<1> QED
  BY <1>1, <1>3, <1>4 DEF Orders, ForSession, InSession

LEMMA PathsStep ==
    ASSUME Types, PathsFit, waits' \subseteq waits, UNCHANGED index,
           \A s \in DOMAIN sessions : sessions'[s].type # "none" =>
               sessions[s].type # "none" /\ sessions'[s].path = sessions[s].path
    PROVE  PathsFit'
<1>1. \A p \in Paths : index[p] # 0 => index[p] \in DOMAIN sessions
  BY DEF Types, ServerTypes
<1>2. \A w \in waits : w.session \in DOMAIN sessions
  BY WaitFields DEF Types
<1>3. \A p : \A s \in DOMAIN sessions : IsFor(s, p) => IsFor(s, p)'
  BY DEF IsFor
<1> QED
  BY <1>1, <1>2, <1>3 DEF PathsFit

LEMMA PathsFitNext ==
    ASSUME Types, PathsFit, [Next]_vars
    PROVE  PathsFit'
<1>1. CASE Idle
  BY <1>1, PathsStep DEF Idle
<1>2. ASSUME NEW u \in Users, Request(u)
      PROVE  PathsFit'
  <2>1. CASE UNCHANGED <<sessions, index, waits>>
    BY <2>1, PathsStep
  <2>2. ASSUME NEW kind \in WaitKinds, NEW s \in DOMAIN sessions', NEW p \in Paths,
               NEW order \in OrderType, Orders(u, kind, s, p, order)
        PROVE  PathsFit'
    <3> DEFINE w == [id |-> nextTrans, kind |-> kind, user |-> u, session |-> s, path |-> p]
    <3>1. waits' = waits \cup {w} /\ w.session = s /\ w.path = p
      BY <2>2 DEF Orders, Wait
    <3> HIDE DEF w
    <3>2. \A x \in DOMAIN sessions : \A q : IsFor(x, q) => IsFor(x, q)'
      BY <2>2, SessionsKept DEF IsFor
    <3>3. \A q \in Paths : index[q] # 0 => index[q] \in DOMAIN sessions
      BY DEF Types, ServerTypes
    <3>4. s # 0
      <4>1. Types'
        BY TypesNext
      <4>2. DOMAIN sessions' = 1 .. Len(sessions') /\ Len(sessions') \in Nat
        BY <4>1 DEF Types, ServerTypes
      <4> QED
        BY <4>2
    <3>5. IsFor(s, p)'
      <4>1. CASE s \notin DOMAIN sessions
        BY <2>2, <4>1, SessionsKept DEF IsFor
      <4>2. CASE s \in DOMAIN sessions
        <5>1. IsFor(s, p)
          BY <2>2, <3>4, <4>2, SessionsKept DEF IsFor, PathsFit
        <5> QED
          BY <3>2, <4>2, <5>1
      <4> QED
        BY <4>1, <4>2
    <3>6. \A v \in waits : IsFor(v.session, v.path)'
      <4>1. \A v \in waits : v.session \in DOMAIN sessions /\ IsFor(v.session, v.path)
        BY WaitFields DEF Types, PathsFit
      <4> QED
        BY <3>2, <4>1
    <3>7. \A v \in waits' : IsFor(v.session, v.path)'
      BY <3>1, <3>5, <3>6
    <3>8. ASSUME NEW q \in Paths, index'[q] # 0
          PROVE  (IsFor(index[q], q))'
      <4>1. CASE index'[q] = s /\ q = p
        BY <3>5, <4>1 DEF IsFor
      <4>2. CASE index'[q] = index[q]
        <5>1. index[q] \in DOMAIN sessions /\ IsFor(index[q], q)
          BY <3>3, <3>8, <4>2 DEF PathsFit
        <5>2. /\ sessions'[index[q]].type = sessions[index[q]].type
              /\ sessions[index[q]].type # "none" =>
                     sessions'[index[q]].path = sessions[index[q]].path
          BY <2>2, <5>1, SessionsKept
        <5> QED
          BY <4>2, <5>1, <5>2 DEF IsFor
      <4> QED
        BY <2>2, <4>1, <4>2, SessionsKept
    <3> QED
      BY <3>7, <3>8 DEF PathsFit
  <2> QED
    BY <1>2, <2>1, <2>2, RequestSends
<1>3. ASSUME NEW w \in waits, Ended(w)
      PROVE  PathsFit'
  <2>1. waits' \subseteq waits /\ UNCHANGED index
    BY <1>3, EndedDoes
  <2>2. ASSUME NEW s \in DOMAIN sessions, sessions'[s].type # "none"
        PROVE  sessions[s].type # "none" /\ sessions'[s].path = sessions[s].path
    <3>1. sessions[s] \in SessionType
      BY DEF Types, ServerTypes
    <3>2. CASE sessions'[s] = sessions[s]
      BY <2>2, <3>2
    <3>3. CASE /\ sessions[s].type # "none" /\ Head(n2s).node \in Nat
               /\ sessions'[s] = [sessions[s] EXCEPT !.node = Head(n2s).node]
      BY <3>1, <3>3, Attached
    <3> QED
      BY <1>3, <2>2, <3>2, <3>3, EndedSessions DEF Ended
  <2> QED
    BY <2>1, <2>2, PathsStep
<1>4. CASE Node
  BY <1>4, NodeDoes, PathsStep
<1>5. CASE RestartNode
  BY <1>5, PathsStep DEF RestartNode, Fault, sessionVars
<1> QED
  BY <1>1, <1>2, <1>3, <1>4, <1>5, Steps
-----------------------------------------------------------------------------
(* What is acknowledged is stored *)

\* As long as the storage node does nothing, its promises to the transactions stand.
LEMMA KeptSame ==
    ASSUME Kept, waits' \subseteq waits, UNCHANGED <<nodeVars, acked>>,
           Messages(s2n') \subseteq Messages(s2n), Messages(n2s') \subseteq Messages(n2s),
           \A s \in DOMAIN sessions' : sessions'[s].type # "none" =>
               (NodeIs(sessions[s].node, sessions[s].path))'
    PROVE  Kept'
<1>1. UNCHANGED <<nodeSessions, opened, files, disk>>
  BY DEF nodeVars
<1>2. /\ \A w, m : OrderFits(w, m) => OrderFits(w, m)'
      /\ \A w, m : ResultFits(w, m) => ResultFits(w, m)'
      /\ \A name, i : Stored(name, i) => Stored(name, i)'
  BY <1>1 DEF OrderFits, ResultFits, NodeIs, Stored
<1>3. \A w \in waits' : \A m \in Messages(s2n') : m.trans = w.id => OrderFits(w, m)'
  BY <1>2 DEF Kept
<1>4. \A w \in waits' : \A m \in Messages(n2s') : m.trans = w.id => ResultFits(w, m)'
  BY <1>2 DEF Kept
<1>5. \A a \in acked' : Stored(a.name, a.index)'
  BY <1>2 DEF Kept
<1>6. \A n \in Names \ opened' : disk'[n] = <<>>
  BY <1>1 DEF Kept
<1> QED
  BY <1>3, <1>4, <1>5, <1>6 DEF Kept

LEMMA KeptIdle ==
    ASSUME Kept, Idle
    PROVE  Kept'
<1>1. UNCHANGED <<sessions, waits, nodeVars, acked, nodeSessions>>
  BY DEF Idle, nodeVars
<1>2. \A n, p : NodeIs(n, p) => NodeIs(n, p)'
  BY <1>1 DEF NodeIs
<1>3. \A s \in DOMAIN sessions' : sessions'[s].type # "none" =>
          (NodeIs(sessions[s].node, sessions[s].path))'
  BY <1>1, <1>2 DEF Kept, NodeIs
<1> QED
  BY <1>1, <1>3, KeptSame DEF Idle

LEMMA KeptRequest ==
    ASSUME Types, Kept, NEW u \in Users, Request(u)
    PROVE  Kept'
<1>0. UNCHANGED <<n2s, nodeVars, nodeSessions, acked>>
  BY DEF Request, PutSessionOnInit, PutOnInit, GetSessionOnInit, GetOnInit, RemoveOnInit, Received,
         nodeVars
<1>1. CASE UNCHANGED <<s2n, sessions, index, waits>>
  <2>1. \A s \in DOMAIN sessions' : sessions'[s].type # "none" =>
            (NodeIs(sessions[s].node, sessions[s].path))'
    BY <1>0, <1>1 DEF Kept, NodeIs
  <2> QED
    BY <1>0, <1>1, <2>1, KeptSame
<1>2. ASSUME NEW kind \in WaitKinds, NEW s \in DOMAIN sessions', NEW p \in Paths,
             NEW order \in OrderType, Orders(u, kind, s, p, order)
      PROVE  Kept'
  <2> DEFINE w == [id |-> nextTrans, kind |-> kind, user |-> u, session |-> s, path |-> p]
  <2>1. /\ waits' = waits \cup {w} /\ w.id = nextTrans /\ w.path = p /\ w.kind = kind
        /\ s2n' = Append(s2n, order) /\ order.trans = nextTrans /\ order.kind = kind
    BY <1>2 DEF Orders, Wait
  <2>2. Messages(s2n') = Messages(s2n) \cup {order}
    BY <2>1, Appended DEF Types, NodeTypes
  <2>3. nextTrans \in Nat /\ \A v \in waits : v.id \in Nat /\ v.id < nextTrans
    BY WaitFields DEF Types, ServerTypes
  <2>4. /\ \A m \in Messages(s2n) : m.trans \in Nat /\ m.trans < nextTrans
        /\ \A m \in Messages(n2s) : m.trans < nextTrans
    BY HeadTaken, OrderFields DEF Types, Matched, NodeTypes, Messages
  <2> HIDE DEF w
  <2>5. /\ \A v, m : OrderFits(v, m) => OrderFits(v, m)'
        /\ \A v, m : ResultFits(v, m) => ResultFits(v, m)'
        /\ \A name, i : Stored(name, i) => Stored(name, i)'
        /\ \A n, q : NodeIs(n, q) => NodeIs(n, q)'
    BY <1>0 DEF OrderFits, ResultFits, NodeIs, Stored, nodeVars
  <2>6. OrderFits(w, order)
    <3>1. CASE kind \in {"putSession", "getSession"} /\ ForSession(s, p, order)
      BY <2>1, <3>1 DEF ForSession, OrderFits
    <3>2. CASE kind \in {"put", "get"} /\ InSession(s, p, order)
      <4>1. NodeIs(order.node, p)
        BY <3>2 DEF InSession, Kept
      <4> QED
        BY <2>1, <3>2, <4>1 DEF OrderFits
    <3> QED
      BY <1>2, <3>1, <3>2 DEF Orders
  <2>7. ASSUME NEW v \in waits', NEW m \in Messages(s2n'), m.trans = v.id
        PROVE  OrderFits(v, m)'
    <3>1. CASE v = w
      <4>1. m = order
        BY <2>1, <2>2, <2>3, <2>4, <2>7, <3>1
      <4> QED
        BY <2>5, <2>6, <3>1, <4>1
    <3>2. CASE v \in waits
      <4>1. m \in Messages(s2n)
        BY <2>1, <2>2, <2>3, <2>7, <3>2
      <4> QED
        BY <2>5, <2>7, <3>2, <4>1 DEF Kept
    <3> QED
      BY <2>1, <3>1, <3>2
  <2>8. ASSUME NEW v \in waits', NEW m \in Messages(n2s'), m.trans = v.id
        PROVE  ResultFits(v, m)'
    <3>1. v \in waits /\ m \in Messages(n2s)
      BY <1>0, <2>1, <2>3, <2>4, <2>8
    <3> QED
      BY <2>5, <2>8, <3>1 DEF Kept
  <2>9. ASSUME NEW x \in DOMAIN sessions', sessions'[x].type # "none"
        PROVE  (NodeIs(sessions[x].node, sessions[x].path))'
    <3>1. CASE x \in DOMAIN sessions
      <4>1. /\ sessions[x].type # "none" /\ sessions'[x].path = sessions[x].path
            /\ sessions'[x].node = sessions[x].node
        BY <1>2, <2>9, <3>1, SessionsKept
      <4>2. NodeIs(sessions[x].node, sessions[x].path)
        BY <3>1, <4>1 DEF Kept
      <4> QED
        BY <1>0, <4>1, <4>2 DEF NodeIs
    <3>2. CASE x \notin DOMAIN sessions
      <4>1. sessions'[x].node = 0
        BY <1>2, <3>2, SessionsKept
      <4> QED
        BY <4>1 DEF NodeIs
    <3> QED
      BY <3>1, <3>2
  <2>10. \A a \in acked' : Stored(a.name, a.index)'
    BY <1>0, <2>5 DEF Kept
  <2>11. \A n \in Names \ opened' : disk'[n] = <<>>
    BY <1>0 DEF Kept, nodeVars
  <2> QED
    BY <2>7, <2>8, <2>9, <2>10, <2>11 DEF Kept
<1> QED
  BY <1>1, <1>2, RequestSends

\* An answer attaches the session of the node that it names, and acknowledges what the
\* node has stored.
LEMMA KeptEnded ==
    ASSUME Types, PathsFit, Kept, NEW w \in waits, Ended(w)
    PROVE  Kept'
<1> DEFINE m == Head(n2s)
           added == [name |-> FileName[w.path], index |-> m.index]
<1>1. /\ waits' = waits \ {w} /\ UNCHANGED <<nodeVars, s2n>>
      /\ Messages(n2s') \subseteq Messages(n2s)
  BY EndedDoes
<1>2. ~Timeout(w) => m \in Messages(n2s) /\ m.trans = w.id
  <2>1. ~Timeout(w) => \E kind : Activated(w, kind)
    BY DEF Ended, PutSessionOnActive, PutOnActive, GetSessionOnActive, GetOnActive,
           SessionOnActive
  <2> QED
    BY <2>1, ActivatedTypes
<1>3. ~Timeout(w) => ResultFits(w, m)
  BY <1>2 DEF Kept
<1>4. /\ \A name, i : Stored(name, i) => Stored(name, i)'
      /\ \A n, q : NodeIs(n, q) => NodeIs(n, q)'
      /\ \A v, r : OrderFits(v, r) => OrderFits(v, r)'
      /\ \A v, r : ResultFits(v, r) => ResultFits(v, r)'
  BY <1>1 DEF NodeIs, Stored, OrderFits, ResultFits, nodeVars
<1>5. ASSUME NEW s \in DOMAIN sessions', sessions'[s].type # "none"
      PROVE  (NodeIs(sessions[s].node, sessions[s].path))'
  <2>0. DOMAIN sessions' = DOMAIN sessions
    BY EndedSessions DEF Ended
  <2>1. s \in DOMAIN sessions /\ sessions[s] \in SessionType
    BY <2>0 DEF Types, ServerTypes
  <2>2. CASE sessions'[s] = sessions[s]
    <3>1. NodeIs(sessions[s].node, sessions[s].path)
      BY <1>5, <2>1, <2>2 DEF Kept
    <3> QED
      BY <1>1, <2>2, <3>1 DEF NodeIs, nodeVars
  <2>3. CASE /\ s = w.session /\ ~Timeout(w) /\ m.ok /\ m.node \in Nat
             /\ w.kind \in {"putSession", "getSession"} /\ sessions[s].type # "none"
             /\ sessions'[s] = [sessions[s] EXCEPT !.node = m.node]
    <3>1. sessions'[s].node = m.node /\ sessions'[s].path = sessions[s].path
      BY <2>1, <2>3, Attached
    <3>2. sessions[s].path = w.path
      BY <2>3 DEF PathsFit, IsFor
    <3>3. NodeIs(m.node, w.path)
      BY <1>3, <2>3 DEF ResultFits
    <3> HIDE DEF m
    <3> QED
      BY <1>1, <3>1, <3>2, <3>3 DEF NodeIs, nodeVars
  <2>4. CASE s = w.session
    <3>1. \/ sessions'[s] = sessions[s] \/ sessions'[s].type = "none"
          \/ /\ ~Timeout(w) /\ m.ok /\ m.node \in Nat
             /\ w.kind \in {"putSession", "getSession"} /\ sessions[s].type # "none"
             /\ sessions'[s] = [sessions[s] EXCEPT !.node = m.node]
      BY <2>4, EndedSessions DEF Ended
    <3> QED
      BY <1>5, <2>2, <2>3, <2>4, <3>1
  <2> QED
    BY <2>1, <2>2, <2>4, EndedSessions DEF Ended
<1>6. acked' = acked \/ (~Timeout(w) /\ m.ok /\ w.kind = "put" /\ acked' = acked \cup {added})
  BY DEF Ended, PutSessionOnActive, PutOnActive, GetSessionOnActive, GetOnActive,
         SessionOnActive, Timeout, Activated
<1>7. \A a \in acked' : Stored(a.name, a.index)'
  <2>1. m.ok /\ w.kind = "put" /\ ~Timeout(w) => Stored(FileName[w.path], m.index)
    BY <1>3 DEF ResultFits
  <2>2. added.name = FileName[w.path] /\ added.index = m.index
    OBVIOUS
  <2> HIDE DEF m, added
  <2>3. \A a \in acked' : Stored(a.name, a.index)
    BY <1>6, <2>1, <2>2 DEF Kept
  <2> QED
    BY <1>4, <2>3
<1>8. \A v \in waits' : \A r \in Messages(s2n') : r.trans = v.id => OrderFits(v, r)'
  BY <1>1, <1>4 DEF Kept
<1>9. \A v \in waits' : \A r \in Messages(n2s') : r.trans = v.id => ResultFits(v, r)'
  BY <1>1, <1>4 DEF Kept
<1>10. \A n \in Names \ opened' : disk'[n] = <<>>
  BY <1>1 DEF Kept, nodeVars
<1> QED
  BY <1>5, <1>7, <1>8, <1>9, <1>10 DEF Kept
\* What the node does to its sessions and files breaks no promise, when its answer
\* to the order it has received keeps its own.
LEMMA KeptNodeStep ==
    ASSUME Types, Kept, NEW kind, NodeReceived(kind), UNCHANGED acked,
           NEW result \in ResultType, NodeReply(result), result.trans = Head(s2n).trans,
           \A n, p : NodeIs(n, p) => NodeIs(n, p)',
           \A name \in Names, i \in Nat : Stored(name, i) => Stored(name, i)',
           acked \subseteq [name : Names, index : Nat],
           \A name \in Names \ opened' : disk'[name] = <<>>,
           \A w \in waits : w.id = Head(s2n).trans /\ w.kind = kind /\ OrderFits(w, Head(s2n)) =>
               ResultFits(w, result)'
    PROVE  Kept'
<1>1. /\ UNCHANGED <<sessions, waits>> /\ s2n # <<>> /\ s2n' = Tail(s2n)
      /\ n2s' = Append(n2s, result)
  BY DEF NodeReceived, NodeReply, serverVars, sessionVars
<1>2. /\ Messages(s2n') \subseteq Messages(s2n) /\ Head(s2n) \in Messages(s2n)
      /\ Messages(n2s') = Messages(n2s) \cup {result}
  BY <1>1, HeadTaken, Appended DEF Types, NodeTypes
<1>3. \A w, m : OrderFits(w, m) => OrderFits(w, m)'
  BY DEF OrderFits
<1>4. \A w \in waits' : \A m \in Messages(s2n') : m.trans = w.id => OrderFits(w, m)'
  BY <1>1, <1>2, <1>3 DEF Kept
<1>5. ASSUME NEW w \in waits, NEW m \in Messages(n2s), m.trans = w.id
      PROVE  ResultFits(w, m)'
  <2>1. ResultFits(w, m) /\ ResultFor(w, m) /\ w.path \in Paths
    BY <1>5, WaitFields DEF Kept, Types, Matched
  <2>2. m.ok /\ w.kind = "put" => m.index \in Nat
    BY <2>1, ResultForFields
  <2>3. FileName[w.path] \in Names
    BY <2>1, TransferAssumption
  <2> QED
    BY <2>1, <2>2, <2>3 DEF ResultFits
<1>6. ASSUME NEW w \in waits, result.trans = w.id
      PROVE  ResultFits(w, result)'
  <2>1. OrderFits(w, Head(s2n)) /\ w.kind = Head(s2n).kind
    BY <1>2, <1>6 DEF Kept, Types, Matched
  <2>2. Head(s2n).kind = kind
    BY DEF NodeReceived
  <2> QED
    BY <1>6, <2>1, <2>2
<1>7. \A w \in waits' : \A m \in Messages(n2s') : m.trans = w.id => ResultFits(w, m)'
  BY <1>1, <1>2, <1>5, <1>6
<1>8. \A s \in DOMAIN sessions' : sessions'[s].type # "none" =>
          (NodeIs(sessions[s].node, sessions[s].path))'
  <2> SUFFICES ASSUME NEW s \in DOMAIN sessions, sessions[s].type # "none"
               PROVE  (NodeIs(sessions[s].node, sessions[s].path))'
    BY <1>1
  <2>1. PICK n, p : n = sessions[s].node /\ p = sessions[s].path /\ NodeIs(n, p)
    BY DEF Kept
  <2>2. NodeIs(n, p)'
    BY <2>1
  <2> QED
    BY <1>1, <2>1, <2>2 DEF NodeIs
<1>9. ASSUME NEW a \in acked'
      PROVE  Stored(a.name, a.index)'
  <2>1. a \in acked /\ a.name \in Names /\ a.index \in Nat
    BY <1>9
  <2> QED
    BY <2>1 DEF Kept
<1> QED
  BY <1>4, <1>7, <1>8, <1>9 DEF Kept

\* A refused order.
LEMMA KeptNodeError ==
    ASSUME Types, Kept, NEW kind, NodeReceived(kind), UNCHANGED <<acked, nodeVars>>,
           NodeReply(NodeError), acked \subseteq [name : Names, index : Nat]
    PROVE  Kept'
<1>1. UNCHANGED <<nodeSessions, opened, files, disk>>
  BY DEF nodeVars
<1>2. /\ \A n, p : NodeIs(n, p) => NodeIs(n, p)'
      /\ \A name, i : Stored(name, i) => Stored(name, i)'
  BY <1>1 DEF NodeIs, Stored
<1>3. NodeError \in ResultType /\ NodeError.trans = Head(s2n).trans /\ ~NodeError.ok
  BY OrderTaken
<1> DEFINE result == NodeError
<1>4. PICK r \in ResultType : r.trans = Head(s2n).trans /\ ~r.ok /\ NodeReply(r)
  BY <1>3
<1>5. \A w : ResultFits(w, r)'
  BY <1>4 DEF ResultFits
<1>6. \A name \in Names \ opened' : disk'[name] = <<>>
  BY <1>1 DEF Kept
<1> QED
  BY <1>2, <1>4, <1>5, <1>6, KeptNodeStep

\* An order to open a session, whose answer names a session of the file it is about.
LEMMA KeptNodeSession ==
    ASSUME Types, Kept, NEW kind \in {"putSession", "getSession"}, NodeReceived(kind),
           UNCHANGED <<acked, opened, files, disk>>, acked \subseteq [name : Names, index : Nat],
           NEW result \in ResultType, NodeReply(result), result.trans = Head(s2n).trans,
           \/ UNCHANGED nodeSessions
           \/ \E max \in Nat : RegisterNodeSession(Head(s2n).name, max),
           result.ok => /\ result.node \in DOMAIN nodeSessions'
                        /\ nodeSessions'[result.node].type = "file" =>
                              nodeSessions'[result.node].name = Head(s2n).name
    PROVE  Kept'
<1> DEFINE m == Head(s2n)
<1>1. m \in OrderType /\ m.kind = kind
  BY OrderTaken
<1>2. m.name \in Names
  BY <1>1, OrderFields
<1>3. /\ DOMAIN nodeSessions \subseteq DOMAIN nodeSessions'
      /\ \A n \in DOMAIN nodeSessions : nodeSessions'[n] = nodeSessions[n]
  BY <1>2, NodeRegistered DEF Types
<1>4. \A n, p : NodeIs(n, p) => NodeIs(n, p)'
  BY <1>3 DEF NodeIs
<1>5. \A name, i : Stored(name, i) => Stored(name, i)'
  BY DEF Stored
<1>6. \A name \in Names \ opened' : disk'[name] = <<>>
  BY DEF Kept
<1>7. ASSUME NEW w \in waits, w.kind = kind, OrderFits(w, m)
      PROVE  ResultFits(w, result)'
  <2>1. m.name = FileName[w.path]
    BY <1>1, <1>7 DEF OrderFits
  <2> HIDE DEF m
  <2>2. result.ok => NodeIs(result.node, w.path)'
    BY <2>1 DEF NodeIs, m
  <2> QED
    BY <1>7, <2>2 DEF ResultFits
<1> QED
  BY <1>4, <1>5, <1>6, <1>7, KeptNodeStep
LEMMA KeptNodePutSession ==
    ASSUME Types, Kept, NodePutSession, acked \subseteq [name : Names, index : Nat], UNCHANGED acked
    PROVE  Kept'
<1> DEFINE m == Head(s2n)
           max == m.max
           Done(n) == [trans |-> m.trans, ok |-> TRUE, node |-> n]
<1>1. NodeReceived("putSession") /\ UNCHANGED <<opened, files, disk>>
  BY DEF NodePutSession
<1>2. /\ m \in OrderType /\ m.kind = "putSession" /\ m.trans \in Nat
      /\ NodeError \in ResultType /\ NodeError.trans = m.trans /\ ~NodeError.ok
  BY <1>1, OrderTaken
<1>3. m.name \in Names /\ max \in Nat
  BY <1>2, OrderFields
<1>4. \/ \E n \in DOMAIN nodeSessions :
            nodeSessions[n].name = m.name /\ NodeReply(Done(n)) /\ UNCHANGED nodeSessions
      \/ NodeReply(NodeError) /\ UNCHANGED nodeSessions
      \/ RegisterNodeSession(m.name, max) /\ NodeReply(Done(NextNode))
  BY DEF NodePutSession, NodeSessionsOf
<1>5. \A n \in Nat : /\ Done(n) \in ResultType /\ Done(n).trans = m.trans
                     /\ Done(n).ok /\ Done(n).node = n
  BY <1>2 DEF ResultType
<1> HIDE DEF Done, max
<1>6. CASE \E n \in DOMAIN nodeSessions :
             nodeSessions[n].name = m.name /\ NodeReply(Done(n)) /\ UNCHANGED nodeSessions
  <2>1. PICK n \in DOMAIN nodeSessions :
            nodeSessions[n].name = m.name /\ NodeReply(Done(n)) /\ UNCHANGED nodeSessions
    BY <1>6
  <2>2. n \in Nat
    BY NodeSessionIds DEF Types
  <2> QED
    BY <1>1, <1>5, <2>1, <2>2, KeptNodeSession
<1>7. CASE NodeReply(NodeError) /\ UNCHANGED nodeSessions
  BY <1>1, <1>7, KeptNodeError DEF nodeVars
<1>8. CASE RegisterNodeSession(m.name, max) /\ NodeReply(Done(NextNode))
  <2> HIDE DEF m
  <2>1. /\ NextNode \in Nat /\ NextNode \in DOMAIN nodeSessions'
        /\ nodeSessions'[NextNode] = [type |-> "file", name |-> m.name, max |-> max]
    BY <1>3, <1>8, NodeRegistered DEF Types
  <2> QED
    BY <1>1, <1>3, <1>5, <1>8, <2>1, KeptNodeSession DEF m
<1> QED
  BY <1>4, <1>6, <1>7, <1>8

LEMMA KeptNodeGetSession ==
    ASSUME Types, Kept, NodeGetSession, acked \subseteq [name : Names, index : Nat], UNCHANGED acked
    PROVE  Kept'
<1> DEFINE m == Head(s2n)
           size == Len(disk[m.name])
           Done(n, max) == [trans |-> m.trans, ok |-> TRUE, node |-> n, max |-> max]
<1>1. NodeReceived("getSession") /\ UNCHANGED <<opened, files, disk>>
  BY DEF NodeGetSession
<1>2. /\ m \in OrderType /\ m.kind = "getSession" /\ m.trans \in Nat
      /\ NodeError \in ResultType /\ NodeError.trans = m.trans /\ ~NodeError.ok
  BY <1>1, OrderTaken
<1>3. m.name \in Names
  BY <1>2, OrderFields
<1>4. \/ \E n \in DOMAIN nodeSessions :
            /\ nodeSessions[n].type = "file" /\ nodeSessions[n].name = m.name
            /\ NodeReply(Done(n, nodeSessions[n].max)) /\ UNCHANGED nodeSessions
      \/ RegisterNodeSession(m.name, size) /\ NodeReply(Done(NextNode, size))
      \/ RegisterNodeSession(m.name, 0) /\ NodeReply(NodeError)
  BY DEF NodeGetSession, NodeSessionsOf
<1>5. \A n \in Nat : \A max \in Nat :
          /\ Done(n, max) \in ResultType /\ Done(n, max).trans = m.trans
          /\ Done(n, max).ok /\ Done(n, max).node = n
  BY <1>2 DEF ResultType
<1>6. size \in Nat
  <2>1. disk[m.name] \in Seq(Data)
    BY <1>3 DEF Types, NodeTypes
  <2> QED
    BY <2>1
<1> HIDE DEF Done, size
<1>7. CASE \E n \in DOMAIN nodeSessions :
            /\ nodeSessions[n].type = "file" /\ nodeSessions[n].name = m.name
            /\ NodeReply(Done(n, nodeSessions[n].max)) /\ UNCHANGED nodeSessions
  <2>1. PICK n \in DOMAIN nodeSessions :
            /\ nodeSessions[n].type = "file" /\ nodeSessions[n].name = m.name
            /\ NodeReply(Done(n, nodeSessions[n].max)) /\ UNCHANGED nodeSessions
    BY <1>7
  <2>2. n \in Nat /\ nodeSessions[n].max \in Nat
    BY <2>1, NodeSessionIds, NodeSessionFields DEF Types
  <2> QED
    BY <1>1, <1>5, <2>1, <2>2, KeptNodeSession
<1>8. CASE RegisterNodeSession(m.name, size) /\ NodeReply(Done(NextNode, size))
  <2> HIDE DEF m
  <2>1. /\ NextNode \in Nat /\ NextNode \in DOMAIN nodeSessions'
        /\ nodeSessions'[NextNode] = [type |-> "file", name |-> m.name, max |-> size]
    BY <1>3, <1>6, <1>8, NodeRegistered DEF Types
  <2> QED
    BY <1>1, <1>5, <1>6, <1>8, <2>1, KeptNodeSession DEF m
<1>9. CASE RegisterNodeSession(m.name, 0) /\ NodeReply(NodeError)
  BY <1>1, <1>2, <1>9, KeptNodeSession
<1> QED
  BY <1>4, <1>7, <1>8, <1>9

LEMMA NodesStay ==
    ASSUME NodeTypes, NEW node, NEW i, IsNodeSession(node, i), EndAtLast(node, i)
    PROVE  \A n, p : NodeIs(n, p) => NodeIs(n, p)'
<1>1. /\ DOMAIN nodeSessions' = DOMAIN nodeSessions
      /\ \A x \in DOMAIN nodeSessions : nodeSessions'[x] \in {nodeSessions[x], NoSession}
  BY EndAtLastTypes
<1>2. NoSession.type # "file"
  BY DEF NoSession
<1> QED
  BY <1>1, <1>2 DEF NodeIs

\* The session that an order is for is a session of its own file.
LEMMA OrderedName ==
    ASSUME Types, NEW w, NEW m \in OrderType, m.kind \in {"put", "get"}, OrderFits(w, m),
           IsNodeSession(m.node, m.index)
    PROVE  nodeSessions[m.node].name = FileName[w.path]
<1>1. m.node \in DOMAIN nodeSessions /\ nodeSessions[m.node].type = "file"
  BY DEF IsNodeSession
<1>2. m.node # 0
  <2>1. DOMAIN nodeSessions = 1 .. Len(nodeSessions) /\ Len(nodeSessions) \in Nat
    BY DEF Types, NodeTypes
  <2> QED
    BY <1>1, <2>1
<1> QED
  BY <1>1, <1>2 DEF OrderFits, NodeIs

LEMMA KeptNodePut ==
    ASSUME Types, Fragments, Kept, NodePut, acked \subseteq [name : Names, index : Nat],
           UNCHANGED acked
    PROVE  Kept'
<1> DEFINE m == Head(s2n)
           i == m.index
           name == nodeSessions[m.node].name
           contents == Opened(name)
           more == WriteAt(contents, i, m.data)
           done == [trans |-> m.trans, ok |-> TRUE, index |-> i]
<1>1. NodeReceived("put")
  BY DEF NodePut
<1>2. /\ m \in OrderType /\ m.kind = "put" /\ m.trans \in Nat /\ m \in Messages(s2n)
  BY <1>1, OrderTaken
<1>3. i \in Nat /\ m.data \in Data /\ \E f \in Files : m.data = Fragment(f, i)
  <2>1. i \in Nat /\ m.data \in Files \X Nat
    BY <1>2, OrderFields
  <2>2. m.data = Fragment(m.data[1], i)
    BY <1>2 DEF Fragments, IsFragment
  <2> QED
    BY <2>1, <2>2 DEF Data
<1>4. \/ NodeReply(NodeError) /\ UNCHANGED nodeVars
      \/ /\ IsNodeSession(m.node, i)
         /\ disk' = [disk EXCEPT ![name] = more]
         /\ opened' = opened \cup {name}
         /\ EndAtLast(m.node, i) /\ NodeReply(done)
  BY DEF NodePut
<1>5. CASE /\ IsNodeSession(m.node, i)
           /\ disk' = [disk EXCEPT ![name] = more]
           /\ opened' = opened \cup {name}
           /\ EndAtLast(m.node, i) /\ NodeReply(done)
  <2>1. name \in Names
    BY <1>5, EndAtLastTypes DEF Types
  <2>2. contents = disk[name] /\ contents \in Seq(Data)
    BY <2>1, OpenedTyped DEF Types, Kept, Opened
  <2> HIDE DEF contents, i
  <2> DEFINE size == Len(contents)
             data == m.data
  <2>3. /\ size \in Nat /\ size <= Len(more) /\ i < Len(more) /\ more[i + 1] = data
        /\ \A k \in 1 .. size : k # i + 1 => more[k] = contents[k]
    <3>1. i \in Nat /\ data \in Data
      BY <1>3 DEF i
    <3>2. more = WriteAt(contents, i, data)
      OBVIOUS
    <3> HIDE DEF data, more
    <3> DEFINE Written == WriteAt(contents, i, data)
    <3>3. contents \in Seq(Data)
      BY <2>2
    <3>4. /\ size \in Nat /\ Len(Written) = IF i + 1 > size THEN i + 1 ELSE size
          /\ Written[i + 1] = data
          /\ \A k \in 1 .. size : k # i + 1 => Written[k] = contents[k]
      BY <3>3, <3>1, WriteAtFacts, Zenon
    <3>5. /\ size \in Nat /\ Len(more) = IF i + 1 > size THEN i + 1 ELSE size
          /\ more[i + 1] = data
          /\ \A k \in 1 .. size : k # i + 1 => more[k] = contents[k]
      BY <3>2, <3>4
    <3> HIDE DEF size
    <3> QED
      BY <3>1, <3>5
  <2>4. done \in ResultType /\ done.trans = m.trans /\ done.index = i
    BY <1>2, <1>3 DEF ResultType
  <2>5. \A n, p : NodeIs(n, p) => NodeIs(n, p)'
    BY <1>5, NodesStay DEF Types
  <2> HIDE DEF more, name, done
  <2>6. disk'[name] = more /\ \A x \in Names \ {name} : disk'[x] = disk[x]
    BY <1>5, <2>1 DEF Types, NodeTypes
  <2>7. PICK x \in Names, k \in Nat, r \in ResultType :
            /\ x = name /\ k = i /\ r = done
            /\ disk'[x] = more /\ k < Len(more) /\ \E f \in Files : more[k + 1] = Fragment(f, k)
    BY <1>3, <2>1, <2>3, <2>4, <2>6 DEF i
  <2>8. Stored(x, k)'
    BY <2>7 DEF Stored
  <2>9. ASSUME NEW y \in Names, NEW j \in Nat, Stored(y, j)
        PROVE  Stored(y, j)'
    <3>1. CASE y # x
      BY <2>6, <2>7, <2>9, <3>1 DEF Stored
    <3>2. CASE y = x /\ j = k
      BY <2>8, <3>2
    <3>3. CASE y = x /\ j # k
      <4>1. j < Len(contents) /\ \E f \in Files : contents[j + 1] = Fragment(f, j)
        BY <2>2, <2>7, <2>9, <3>3 DEF Stored
      <4>2. j + 1 \in 1 .. Len(contents) /\ j + 1 # k + 1
        BY <2>3, <3>3, <4>1
      <4>3. more[j + 1] = contents[j + 1]
        BY <2>3, <2>7, <4>2
      <4>4. j < Len(more)
        BY <1>3, <2>2, <2>3, <4>1, WriteAtFacts DEF more
      <4> QED
        BY <2>7, <3>3, <4>1, <4>3, <4>4 DEF Stored
    <3> QED
      BY <3>1, <3>2, <3>3
  <2>10. ASSUME NEW w \in waits, w.kind = "put", OrderFits(w, m)
         PROVE  ResultFits(w, r)'
    <3>1. x = FileName[w.path]
      BY <1>2, <1>5, <2>7, <2>10, OrderedName DEF name, i
    <3>2. r.index = k
      BY <2>4, <2>7
    <3> QED
      BY <2>8, <2>10, <3>1, <3>2 DEF ResultFits
  <2>11. \A n \in Names \ opened' : disk'[n] = <<>>
    BY <1>5, <2>1, <2>6 DEF Kept
  <2>12. NodeReply(r) /\ r.trans = m.trans
    BY <1>5, <2>4, <2>7
  <2> QED
    BY <1>1, <2>5, <2>9, <2>10, <2>11, <2>12, KeptNodeStep
<1> QED
  BY <1>1, <1>4, <1>5, KeptNodeError

LEMMA KeptNodeGet ==
    ASSUME Types, Kept, NodeGet, acked \subseteq [name : Names, index : Nat], UNCHANGED acked
    PROVE  Kept'
<1> DEFINE m == Head(s2n)
           name == nodeSessions[m.node].name
           data == ReadAt(Opened(name), m.index)
           done == [trans |-> m.trans, ok |-> TRUE, index |-> m.index, data |-> data]
<1>1. NodeReceived("get")
  BY DEF NodeGet
<1>2. m \in OrderType /\ m.kind = "get" /\ m.trans \in Nat
  BY <1>1, OrderTaken
<1>3. m.index \in Nat
  BY <1>2, OrderFields
<1>4. \/ NodeReply(NodeError) /\ UNCHANGED nodeVars
      \/ /\ IsNodeSession(m.node, m.index) /\ disk' = [disk EXCEPT ![name] = Opened(name)]
         /\ opened' = opened \cup {name}
         /\ EndAtLast(m.node, m.index) /\ NodeReply(done)
  BY DEF NodeGet
<1>5. CASE /\ IsNodeSession(m.node, m.index) /\ disk' = [disk EXCEPT ![name] = Opened(name)]
           /\ opened' = opened \cup {name}
           /\ EndAtLast(m.node, m.index) /\ NodeReply(done)
  <2>1. name \in Names
    BY <1>5, EndAtLastTypes DEF Types
  <2>2. Opened(name) = disk[name] /\ Opened(name) \in Seq(Data)
    BY <2>1, OpenedTyped DEF Types, Kept, Opened
  <2>3. data \in Seq(Data)
    BY <1>3, <2>2, ReadAtTyped
  <2> HIDE DEF data
  <2>4. done \in ResultType /\ done.trans = m.trans
    BY <1>2, <1>3, <2>3 DEF ResultType
  <2>5. \A n, p : NodeIs(n, p) => NodeIs(n, p)'
    BY <1>5, NodesStay DEF Types
  <2> HIDE DEF name, done
  <2>6. disk' = disk
    BY <1>5, <2>1, <2>2 DEF Types, NodeTypes
  <2>7. \A x, k : Stored(x, k) => Stored(x, k)'
    BY <2>6 DEF Stored
  <2>8. \A n \in Names \ opened' : disk'[n] = <<>>
    BY <1>5, <2>6 DEF Kept
  <2>9. \A w \in waits : w.kind = "get" => \A r : ResultFits(w, r)'
    BY DEF ResultFits
  <2> QED
    BY <1>1, <1>5, <2>4, <2>5, <2>7, <2>8, <2>9, KeptNodeStep
<1> QED
  BY <1>1, <1>4, <1>5, KeptNodeError

LEMMA KeptNext ==
    ASSUME Types, Fragments, PathsFit, KeptUntilRestart, [Next]_vars
    PROVE  KeptUntilRestart'
<1>1. CASE RestartNode
  <2>1. UNCHANGED acked /\ restarts' = restarts + 1
    BY <1>1 DEF RestartNode, Fault
  <2> QED
    BY <2>1 DEF KeptUntilRestart
<1>2. CASE Idle
  <2>1. UNCHANGED <<acked, restarts>>
    BY <1>2 DEF Idle
  <2> QED
    BY <1>2, <2>1, KeptIdle DEF KeptUntilRestart
<1>3. ASSUME NEW u \in Users, Request(u)
      PROVE  KeptUntilRestart'
  <2>1. UNCHANGED <<acked, restarts>>
    BY <1>3 DEF Request, PutSessionOnInit, PutOnInit, GetSessionOnInit, GetOnInit, RemoveOnInit,
                Received
  <2> QED
    BY <1>3, <2>1, KeptRequest DEF KeptUntilRestart
<1>4. ASSUME NEW w \in waits, Ended(w)
      PROVE  KeptUntilRestart'
  <2>1. UNCHANGED restarts
    BY <1>4, EndedDoes
  <2>2. acked' \subseteq [name : Names, index : Nat]
    <3> DEFINE added == [name |-> FileName[w.path], index |-> Head(n2s).index]
    <3>1. \/ acked' = acked
          \/ /\ Activated(w, "put") /\ Head(n2s).ok /\ acked' = acked \cup {added}
      BY <1>4 DEF Ended, PutSessionOnActive, PutOnActive, GetSessionOnActive, GetOnActive,
                  SessionOnActive, Timeout
    <3>2. Activated(w, "put") /\ Head(n2s).ok => added \in [name : Names, index : Nat]
      <4>1. Activated(w, "put") /\ Head(n2s).ok => Head(n2s).index \in Nat
        BY ActivatedTypes, ResultForFields
      <4>2. FileName[w.path] \in Names
        BY WaitFields, TransferAssumption DEF Types
      <4> QED
        BY <4>1, <4>2
    <3> HIDE DEF added
    <3> QED
      BY <3>1, <3>2 DEF KeptUntilRestart
  <2> QED
    BY <1>4, <2>1, <2>2, KeptEnded DEF KeptUntilRestart
<1>5. CASE Node
  <2>1. UNCHANGED <<acked, restarts>>
    BY <1>5, NodeDoes
  <2> QED
    BY <1>5, <2>1, KeptNodePutSession, KeptNodePut, KeptNodeGetSession, KeptNodeGet
       DEF KeptUntilRestart, Node
<1> QED
  BY <1>1, <1>2, <1>3, <1>4, <1>5, Steps

\* A fragment whose put was answered as a success is stored, at its place, in the file of
\* that name until the storage node is started again, whatever is lost, late, removed, put
\* or read in between, for any number of clients, paths and commands.
THEOREM AckedAlwaysStored ==
    Spec => []AckedIsStored
<1> DEFINE IInv == Types /\ Fragments /\ PathsFit /\ KeptUntilRestart
<1>1. Init => IInv
  <2> SUFFICES ASSUME Init
               PROVE  IInv
    OBVIOUS
  <2>1. /\ c2s = [u \in Users |-> <<>>] /\ s2n = <<>> /\ n2s = <<>> /\ waits = {}
        /\ sessions = <<>> /\ index = [p \in Paths |-> 0]
        /\ disk = [n \in Names |-> <<>>] /\ acked = {} /\ restarts = 0
    BY DEF Init
  <2>2. Messages(<<>>) = {}
    BY DEF Messages
  <2>3. Fragments /\ PathsFit
    BY <2>1, <2>2 DEF Fragments, PathsFit
  <2>4. KeptUntilRestart
    BY <2>1, <2>2 DEF KeptUntilRestart, Kept
  <2> QED
    BY <2>3, <2>4, TypesInit
<1>2. IInv /\ [Next]_vars => IInv'
  BY TypesNext, FragmentsNext, PathsFitNext, KeptNext
<1>3. IInv => AckedIsStored
  BY DEF KeptUntilRestart, Kept, Stored, AckedIsStored
<1> QED
  BY <1>1, <1>2, <1>3, PTL DEF Spec
-----------------------------------------------------------------------------
(* What is undisturbed *)

\* While nothing is lost or late and each command is entered when nothing is
\* under way, one client at a time is served, and one of its requests or the
\* fragments of one file are all that is on the way.

Carries(list, first, next) ==
    /\ Len(list) = next - first
    /\ \A k \in DOMAIN list : list[k].index = first + k - 1

Rests(u) == ~put[u].typed /\ unanswered[u] = 0 /\ c2s[u] = <<>> /\ s2c[u] = <<>>
Only(u) == \A v \in Users \ {u} : Rests(v)
ServerRests == waits = {} /\ s2n = <<>> /\ n2s = <<>>

\* The puts of all other sessions are complete.
CompleteBut(s) ==
    \A r \in DOMAIN sessions : r # s /\ sessions[r].type = "put" =>
        sessions[r].next = sessions[r].max
Complete == \A r \in DOMAIN sessions : sessions[r].type = "put" =>
                sessions[r].next = sessions[r].max

Holds(name, f, n) ==
    \A k \in 1 .. n : k <= Len(disk[name]) /\ disk[name][k] = Fragment(f, k - 1)
Whole(name) == finished[name] # "" => Holds(name, finished[name], Size[finished[name]])
AllWhole == \A n \in Names : Whole(n)

PutName(u) == FileName[put[u].path]
GetName(u) == FileName[get[u].path]

Chosen(u) == put[u].path \in Paths /\ put[u].file \in Files /\ put[u].max = Size[put[u].file]
\* The session of the put that the client has entered.
IsPut(u, s) ==
    /\ Chosen(u)
    /\ s \in DOMAIN sessions /\ sessions[s].type = "put" /\ sessions[s].user = u
    /\ sessions[s].path = put[u].path /\ sessions[s].max = put[u].max
    /\ CompleteBut(s)
Fresh(u) == get[u].path \in Paths /\ local[u][get[u].path] = <<>>
IsGet(u, s) ==
    /\ get[u].path \in Paths
    /\ s \in DOMAIN sessions /\ sessions[s].type = "get" /\ sessions[s].user = u
    /\ sessions[s].path = get[u].path /\ get[u].path \in tree
    /\ Complete
IsOpen(n, name, max) ==
    /\ n \in DOMAIN nodeSessions /\ nodeSessions[n].type = "file"
    /\ nodeSessions[n].name = name /\ nodeSessions[n].max = max

Settled ==
    /\ online = Users /\ crashed = FALSE
    /\ opened = files /\ \A n \in Names \ files : disk[n] = <<>>
    /\ \A u \in Users, p \in Paths : local[u][p] = <<>> => meta[u][p] = 0
    /\ finished \in [Names -> Files \cup {""}]

Resting == (\A u \in Users : Rests(u)) /\ ServerRests /\ Complete /\ AllWhole

Typed(u) ==
    /\ put[u].typed /\ unanswered[u] = 0 /\ c2s[u] = <<>> /\ s2c[u] = <<>>
    /\ Only(u) /\ ServerRests /\ Complete /\ AllWhole

Removes(u) ==
    /\ ~put[u].typed /\ unanswered[u] = 0 /\ s2c[u] = <<>>
    /\ Len(c2s[u]) = 1 /\ Head(c2s[u]).kind = "remove"
    /\ Only(u) /\ ServerRests /\ Complete /\ AllWhole

\* A request for a session: on its way to the server, ...
RequestOf(u, m) ==
    \/ m.kind = "putSession" /\ Chosen(u) /\ m.path = put[u].path /\ m.max = put[u].max
    \/ m.kind = "getSession" /\ Fresh(u) /\ m.path = get[u].path /\ SizeIsKnown(m.path)
Asks(u) ==
    /\ ~put[u].typed /\ unanswered[u] = 1 /\ s2c[u] = <<>>
    /\ Only(u) /\ ServerRests /\ Complete /\ AllWhole
    /\ Len(c2s[u]) = 1 /\ RequestOf(u, Head(c2s[u]))

\* ... on to the storage node, ...
OrderOf(u, w, m) ==
    \/ /\ w.kind = "putSession" /\ m.kind = "putSession" /\ m.name = PutName(u) /\ m.max = put[u].max
       /\ IsPut(u, w.session) /\ sessions[w.session].next \in {0, put[u].max}
    \/ /\ w.kind = "getSession" /\ m.kind = "getSession" /\ m.name = GetName(u)
       /\ IsGet(u, w.session) /\ Fresh(u) /\ SizeIsKnown(get[u].path)
Ordered(u) ==
    /\ ~put[u].typed /\ unanswered[u] = 1 /\ c2s[u] = <<>> /\ s2c[u] = <<>> /\ n2s = <<>>
    /\ Only(u) /\ AllWhole
    /\ Len(s2n) = 1
    /\ \E w \in waits : /\ waits = {w} /\ Head(s2n).trans = w.id /\ w.user = u
                       /\ OrderOf(u, w, Head(s2n))

\* ... back to the server, ...
ResultOf(u, w, m) ==
    \/ /\ w.kind = "putSession" /\ IsPut(u, w.session)
       /\ sessions[w.session].next \in {0, put[u].max}
       /\ m.ok => IsOpen(m.node, PutName(u), put[u].max)
    \/ /\ w.kind = "getSession" /\ IsGet(u, w.session) /\ Fresh(u)
       /\ m.ok => m.max = Len(disk[GetName(u)]) /\ IsOpen(m.node, GetName(u), m.max)
Resulted(u) ==
    /\ ~put[u].typed /\ unanswered[u] = 1 /\ c2s[u] = <<>> /\ s2c[u] = <<>> /\ s2n = <<>>
    /\ Only(u) /\ AllWhole
    /\ Len(n2s) = 1
    /\ \E w \in waits : /\ waits = {w} /\ Head(n2s).trans = w.id /\ w.user = u
                       /\ ResultOf(u, w, Head(n2s))

\* ... and back to the client.
AnswerOf(u, m) ==
    \/ ~m.ok /\ Complete
    \/ /\ m.ok /\ m.kind = "putSession" /\ IsPut(u, m.session)
       /\ m.next = sessions[m.session].next /\ m.next \in {0, put[u].max}
       /\ IsOpen(sessions[m.session].node, PutName(u), put[u].max)
    \/ /\ m.ok /\ m.kind = "getSession" /\ IsGet(u, m.session) /\ Fresh(u)
       /\ m.max = Len(disk[GetName(u)])
       /\ IsOpen(sessions[m.session].node, GetName(u), m.max)
IsAnswered(u) ==
    /\ ~put[u].typed /\ unanswered[u] = 1 /\ c2s[u] = <<>>
    /\ Only(u) /\ ServerRests /\ AllWhole
    /\ Len(s2c[u]) = 1 /\ AnswerOf(u, Head(s2c[u]))

\* The fragments of a file: those before h are answered and read, those from h on
\* answered, from i on on the way back from the node, from j on on the way to it and
\* from f on on the way to the server.
Flow(u, kind, s, max, t, h, i, j, f) ==
    /\ ~put[u].typed /\ Only(u)
    /\ h <= i /\ i <= j /\ j <= f /\ f <= max /\ h < max
    /\ Carries(s2c[u], h, i) /\ Carries(n2s, i, j) /\ Carries(s2n, j, f) /\ Carries(c2s[u], f, max)
    /\ \A m \in Messages(s2c[u]) : m.kind = kind /\ m.ok
    /\ \A m \in Messages(n2s) : m.ok /\ m.trans = t + m.index
    /\ \A m \in Messages(s2n) : m.kind = kind /\ m.trans = t + m.index
    /\ \A m \in Messages(c2s[u]) : m.kind = kind /\ m.session = s
    /\ nextTrans = t + f
    /\ \A w \in waits : w.user = u /\ w.kind = kind /\ w.id >= t + i
    /\ \A x \in i .. f - 1 : \E w \in waits : w.id = t + x
    /\ unanswered[u] + h = max

PutFlow(u, s, t, h, i, j, f) ==
    /\ Flow(u, "put", s, put[u].max, t, h, i, j, f)
    /\ IsPut(u, s) /\ sessions[s].next = f
    /\ j < put[u].max => IsOpen(sessions[s].node, PutName(u), put[u].max)
    /\ \A m \in Messages(c2s[u]) : m.data = Fragment(put[u].file, m.index)
    /\ \A m \in Messages(s2n) : m.data = Fragment(put[u].file, m.index) /\ m.node = sessions[s].node
    /\ Holds(PutName(u), put[u].file, j)
    /\ \A n \in Names \ {PutName(u)} : Whole(n)
Puts(u) == \E s, t, h, i, j, f \in Nat : PutFlow(u, s, t, h, i, j, f)

Copied(u, m) == m.data = <<disk[GetName(u)][m.index + 1]>>
GetFlow(u, s, t, h, i, j, f) ==
    /\ Flow(u, "get", s, get[u].max, t, h, i, j, f)
    /\ IsGet(u, s) /\ AllWhole /\ GetName(u) \in files
    /\ get[u].max = Len(disk[GetName(u)])
    /\ j < get[u].max => IsOpen(sessions[s].node, GetName(u), get[u].max)
    /\ \A m \in Messages(s2n) : m.node = sessions[s].node
    /\ \A m \in Messages(n2s) : Copied(u, m)
    /\ \A m \in Messages(s2c[u]) : Copied(u, m)
    /\ local[u][get[u].path] = SubSeq(disk[GetName(u)], 1, h)
Gets(u) == \E s, t, h, i, j, f \in Nat : GetFlow(u, s, t, h, i, j, f)

Serves(u) ==
    Typed(u) \/ Removes(u) \/ Asks(u) \/ Ordered(u) \/ Resulted(u) \/ IsAnswered(u)
    \/ Puts(u) \/ Gets(u)
Orderly == Settled /\ (Resting \/ \E u \in Users : Serves(u))
Undisturbed == calm => Orderly

LEMMA CarriesEnds ==
    ASSUME NEW S, NEW list \in Seq(S), NEW first \in Nat, NEW next \in Nat,
           Carries(list, first, next)
    PROVE  first <= next /\ (first = next <=> list = <<>>)
BY DEF Carries

LEMMA CarriesNothing ==
    ASSUME NEW n \in Nat
    PROVE  Carries(<<>>, n, n)
BY DEF Carries

LEMMA CarriesHead ==
    ASSUME NEW S, NEW list \in Seq(S), list # <<>>, NEW first \in Nat, NEW next \in Nat,
           Carries(list, first, next)
    PROVE  /\ first < next /\ Head(list).index = first
           /\ Carries(Tail(list), first + 1, next)
<1>1. /\ Head(list) = list[1] /\ Len(list) \in Nat \ {0}
      /\ Tail(list) \in Seq(S) /\ Len(Tail(list)) = Len(list) - 1
      /\ \A k \in DOMAIN Tail(list) : k + 1 \in DOMAIN list /\ Tail(list)[k] = list[k + 1]
  BY HeadTaken
<1>2. DOMAIN list = 1 .. Len(list) /\ DOMAIN Tail(list) = 1 .. Len(list) - 1
  BY <1>1
<1>3. Head(list).index = first
  BY <1>1, <1>2 DEF Carries
<1>4. ASSUME NEW k \in DOMAIN Tail(list)
      PROVE  Tail(list)[k].index = first + 1 + k - 1
  BY <1>1, <1>2, <1>4 DEF Carries
<1> QED
  BY <1>1, <1>3, <1>4 DEF Carries

LEMMA CarriesMore ==
    ASSUME NEW S, NEW list \in Seq(S), NEW m \in S, NEW first \in Nat, NEW next \in Nat,
           Carries(list, first, next), m.index = next
    PROVE  Carries(Append(list, m), first, next + 1)
<1> DEFINE more == Append(list, m)
<1>1. /\ more \in Seq(S) /\ Len(more) = Len(list) + 1 /\ Len(list) \in Nat
      /\ \A k \in 1 .. Len(list) : more[k] = list[k]
      /\ more[Len(list) + 1] = m
  BY AppendProperties
<1> HIDE DEF more
<1>2. DOMAIN more = 1 .. Len(list) + 1 /\ DOMAIN list = 1 .. Len(list)
  BY <1>1
<1>3. ASSUME NEW k \in DOMAIN more
      PROVE  more[k].index = first + k - 1
  <2>1. CASE k \in 1 .. Len(list)
    BY <1>1, <1>2, <2>1 DEF Carries
  <2>2. CASE k = Len(list) + 1
    BY <1>1, <2>2 DEF Carries
  <2> QED
    BY <1>1, <1>2, <1>3, <2>1, <2>2
<1>4. Carries(more, first, next + 1)
  BY <1>1, <1>3 DEF Carries
<1> QED
  BY <1>4 DEF more

\* What a list of one message becomes.
LEMMA OneTaken ==
    ASSUME NEW S, NEW list \in Seq(S), Len(list) = 1
    PROVE  Tail(list) = <<>> /\ list # <<>> /\ Messages(list) = {Head(list)}
<1>1. list # <<>> /\ DOMAIN list = {1}
  OBVIOUS
<1>2. Tail(list) \in Seq(S) /\ Len(Tail(list)) = 0 /\ Head(list) = list[1]
  BY <1>1, HeadTaken
<1>3. Tail(list) = <<>>
  BY <1>2, EmptySeq
<1>4. Messages(list) = {list[1]}
  BY <1>1 DEF Messages
<1> QED
  BY <1>1, <1>2, <1>3, <1>4

LEMMA OneAppended ==
    ASSUME NEW m
    PROVE  /\ Append(<<>>, m) = <<m>> /\ <<>> \o <<m>> = <<m>>
           /\ Len(<<m>>) = 1 /\ Head(<<m>>) = m
OBVIOUS

-----------------------------------------------------------------------------
(* What is undisturbed: the steps there are *)

LEMMA ClientNeeds ==
    ASSUME NEW u \in Users, Client(u)
    PROVE  (PutRequest(u) /\ put[u].typed) \/ s2c[u] # <<>>
BY DEF Client, PutRequest, ReadError, ReadPutSession, ReadPut, ReadGetSession, ReadGet

LEMMA RequestNeeds ==
    ASSUME NEW u \in Users, Request(u)
    PROVE  c2s[u] # <<>>
BY DEF Request, PutSessionOnInit, PutOnInit, GetSessionOnInit, GetOnInit, RemoveOnInit, Received

LEMMA AnswerNeeds ==
    ASSUME Answer
    PROVE  /\ n2s # <<>>
           /\ \/ \E w \in waits : /\ Head(n2s).trans = w.id
                                  /\ \/ PutSessionOnActive(w) \/ PutOnActive(w)
                                     \/ GetSessionOnActive(w) \/ GetOnActive(w)
              \/ \A w \in waits : w.id # Head(n2s).trans
BY DEF Answer, PutSessionOnActive, PutOnActive, GetSessionOnActive, GetOnActive, SessionOnActive,
       Activated, LateAnswer

LEMMA NodeNeeds ==
    ASSUME Node
    PROVE  s2n # <<>>
BY DEF Node, NodePutSession, NodePut, NodeGetSession, NodeGet, NodeReceived

LEMMA ConsoleNeeds ==
    ASSUME NEW u \in Users, Console(u), calm'
    PROVE  calm /\ Quiet
BY DEF Console, PutCommand, GetCommand, RemoveCommand, Command

\* Once something went wrong, it stays so: no step makes a run calm again.
LEMMA CalmStays ==
    ASSUME [Next]_vars, calm'
    PROVE  calm
<1>1. ASSUME NEW u \in Users, Client(u)
      PROVE  calm
  <2>1. CASE PutRequest(u)
    BY <2>1 DEF PutRequest
  <2>2. CASE ReadError(u)
    BY <2>2 DEF ReadError, Answered
  <2>3. CASE ReadPutSession(u)
    BY <2>3 DEF ReadPutSession, Answered
  <2>4. CASE ReadPut(u)
    BY <2>4 DEF ReadPut, Answered
  <2>5. CASE ReadGetSession(u)
    BY <2>5 DEF ReadGetSession, Answered
  <2>6. CASE ReadGet(u)
    BY <2>6 DEF ReadGet, Answered
  <2> QED
    BY <1>1, <2>1, <2>2, <2>3, <2>4, <2>5, <2>6 DEF Client
<1>2. ASSUME NEW u \in Users, Console(u)
      PROVE  calm
  BY <1>2, ConsoleNeeds
<1>3. ASSUME NEW u \in Users, Request(u)
      PROVE  calm
  <2>1. ASSUME NEW kind, Received(u, kind)
        PROVE  calm
    BY <2>1 DEF Received
  <2> QED
    BY <1>3, <2>1 DEF Request, PutSessionOnInit, PutOnInit, GetSessionOnInit, GetOnInit,
                      RemoveOnInit
<1>4. ASSUME NEW u \in Users, KickOut(u)
      PROVE  calm
  BY <1>4 DEF KickOut, Fault
<1>5. ASSUME NEW u \in Users, Login(u)
      PROVE  calm
  BY <1>5 DEF Login
<1>6. ASSUME Answer
      PROVE  calm
  <2>1. ASSUME NEW w, NEW kind, Activated(w, kind)
        PROVE  calm
    BY <2>1 DEF Activated
  <2>2. CASE LateAnswer
    BY <2>2 DEF LateAnswer
  <2> QED
    BY <1>6, <2>1, <2>2 DEF Answer, PutSessionOnActive, PutOnActive, GetSessionOnActive,
                            GetOnActive, SessionOnActive
<1>7. ASSUME NEW w \in waits, Timeout(w)
      PROVE  calm
  BY <1>7 DEF Timeout
<1>8. ASSUME Node
      PROVE  calm
  <2>1. ASSUME NEW kind, NodeReceived(kind)
        PROVE  calm
    BY <2>1 DEF NodeReceived
  <2> QED
    BY <1>8, <2>1 DEF Node, NodePutSession, NodePut, NodeGetSession, NodeGet
<1>9. ASSUME LoseConnection \/ RestartNode
      PROVE  calm
  BY <1>9 DEF LoseConnection, RestartNode, Fault
<1>10. CASE UNCHANGED vars
  BY <1>10 DEF vars
<1> QED
  BY <1>1, <1>2, <1>3, <1>4, <1>5, <1>6, <1>7, <1>8, <1>9, <1>10 DEF Next

\* Nor does anybody log in, since nobody was logged out.
LEMMA CalmSteps ==
    ASSUME Settled, [Next]_vars, calm'
    PROVE  /\ calm
           /\ \/ UNCHANGED vars
              \/ \E u \in Users : Console(u) /\ Quiet
              \/ \E u \in Users : Client(u)
              \/ \E u \in Users : Request(u)
              \/ Answer
              \/ Node
<1>1. ASSUME NEW u \in Users, Console(u)
      PROVE  Quiet
  BY <1>1, ConsoleNeeds
<1>2. ASSUME NEW u \in Users, KickOut(u)
      PROVE  FALSE
  BY <1>2 DEF KickOut, Fault
<1>3. ASSUME NEW u \in Users, Login(u)
      PROVE  FALSE
  BY <1>3 DEF Login, Settled
<1>4. ~LoseConnection /\ ~RestartNode
  BY DEF LoseConnection, RestartNode, Fault
<1>5. \A w \in waits : ~Timeout(w)
  BY DEF Timeout
<1> QED
  BY <1>1, <1>2, <1>3, <1>4, <1>5, CalmStays DEF Next

\* A step of, or for, one client leaves the others alone.
OthersSame(u) ==
    \A v \in Users \ {u} : /\ put'[v] = put[v] /\ unanswered'[v] = unanswered[v]
                           /\ c2s'[v] = c2s[v] /\ s2c'[v] = s2c[v]

LEMMA OnlyKept ==
    ASSUME NEW u \in Users, Only(u), OthersSame(u)
    PROVE  Only(u)'
BY DEF Only, OthersSame, Rests

LEMMA OnlyRests ==
    ASSUME NEW u \in Users, Only(u), Rests(u)
    PROVE  \A v \in Users : Rests(v)
BY DEF Only

LEMMA SettledKept ==
    Settled /\ UNCHANGED <<online, crashed, opened, files, disk, local, meta, finished>> => Settled'
BY DEF Settled

LEMMA WholeKept ==
    AllWhole /\ UNCHANGED <<finished, disk>> => AllWhole'
BY DEF AllWhole, Whole, Holds

LEMMA CompleteKept ==
    Complete /\ UNCHANGED sessions => Complete'
BY DEF Complete

LEMMA AskSame ==
    ASSUME Types, Counted, NEW u \in Users, NEW request \in RequestType, Ask(u, <<request>>),
           c2s[u] = <<>>, UNCHANGED s2c, \A v \in Users \ {u} : put'[v] = put[v]
    PROVE  /\ OthersSame(u) /\ unanswered'[u] = unanswered[u] + 1
           /\ c2s'[u] = <<request>> /\ s2c'[u] = s2c[u]
<1>1. c2s' = [c2s EXCEPT ![u] = Append(@, request)]
  BY AskOne DEF Types
<1>2. unanswered' = [unanswered EXCEPT ![u] = @ + 1]
  <2>1. Len(<<request>>) = 1
    OBVIOUS
  <2> QED
    BY <2>1 DEF Ask
<1>3. /\ \A v \in Users \ {u} : c2s'[v] = c2s[v] /\ unanswered'[v] = unanswered[v]
      /\ unanswered'[u] = unanswered[u] + 1 /\ c2s'[u] = Append(c2s[u], request)
  BY <1>1, <1>2 DEF Types, LinkTypes, Counted
<1> QED
  BY <1>3 DEF OthersSame

LEMMA AnsweredSame ==
    ASSUME Types, Counted, NEW u \in Users, NEW requests \in Seq(RequestType),
           Answered(u, requests), c2s[u] = <<>>, \A v \in Users \ {u} : put'[v] = put[v]
    PROVE  /\ OthersSame(u) /\ unanswered'[u] = unanswered[u] + Len(requests) - 1
           /\ c2s'[u] = requests /\ s2c'[u] = Tail(s2c[u])
<1>1. /\ c2s' = [c2s EXCEPT ![u] = @ \o requests]
      /\ s2c' = [s2c EXCEPT ![u] = Tail(@)]
      /\ unanswered' = [unanswered EXCEPT ![u] = @ + Len(requests) - 1]
  BY DEF Answered
<1>2. /\ \A v \in Users \ {u} : /\ c2s'[v] = c2s[v] /\ unanswered'[v] = unanswered[v]
                                /\ s2c'[v] = s2c[v]
      /\ unanswered'[u] = unanswered[u] + Len(requests) - 1 /\ c2s'[u] = c2s[u] \o requests
      /\ s2c'[u] = Tail(s2c[u])
  BY <1>1 DEF Types, LinkTypes, Counted
<1>3. <<>> \o requests = requests
  OBVIOUS
<1> QED
  BY <1>2, <1>3 DEF OthersSame

\* A console is only heeded when nothing is under way.
LEMMA QuietOnly ==
    ASSUME NEW u \in Users, Serves(u), Types, Counted
    PROVE  ~Quiet
<1>1. ASSUME Puts(u) \/ Gets(u)
      PROVE  unanswered[u] # 0
  <2>1. put[u].max \in Nat /\ get[u].max \in Nat /\ unanswered[u] \in Nat
    BY DEF Types, ClientTypes, PutType, Counted
  <2>2. PICK kind \in {"put", "get"}, s \in Nat, max \in Nat, t \in Nat, h \in Nat, i \in Nat,
             j \in Nat, f \in Nat : Flow(u, kind, s, max, t, h, i, j, f)
    BY <1>1, <2>1 DEF Puts, Gets, PutFlow, GetFlow
  <2> QED
    BY <2>1, <2>2 DEF Flow
<1>2. Len(c2s[u]) = 1 => c2s[u] # <<>>
  OBVIOUS
<1> QED
  BY <1>1, <1>2 DEF Serves, Quiet, Typed, Removes, Asks, Ordered, Resulted, IsAnswered

\* The console of a client that rests like all others.
LEMMA RestingConsole ==
    ASSUME Types, Counted, Settled, Resting, calm', NEW u \in Users, Console(u)
    PROVE  Orderly'
<1>1. Rests(u) /\ \A v \in Users : Rests(v)
  BY DEF Resting
<1>2. Only(u)
  BY <1>1 DEF Only
<1>3. UNCHANGED <<s2c, serverVars, nodeVars, links, finished, local, meta>>
  BY DEF Console, PutCommand, GetCommand, RemoveCommand, Command, history, clientVars
<1>4. Settled' /\ AllWhole' /\ Complete' /\ ServerRests'
  BY <1>3, SettledKept, WholeKept, CompleteKept
     DEF Resting, ServerRests, serverVars, sessionVars, nodeVars, links
<1>5. ASSUME NEW f \in Files, NEW p \in Paths, PutCommand(u, f, p)
      PROVE  Typed(u)'
  <2>1. put' = [put EXCEPT ![u] = [@ EXCEPT !.typed = TRUE, !.path = p, !.file = f]]
    BY <1>5 DEF PutCommand
  <2>2. UNCHANGED <<c2s, unanswered, s2c>>
    BY <1>3, <1>5 DEF PutCommand
  <2>3. put'[u].typed /\ \A v \in Users \ {u} : put'[v] = put[v]
    BY <2>1 DEF Types, ClientTypes, PutType
  <2>4. Only(u)'
    BY <1>2, <2>2, <2>3, OnlyKept DEF OthersSame
  <2> QED
    BY <1>1, <1>4, <2>2, <2>3, <2>4 DEF Typed, Rests
<1>6. ASSUME NEW p \in Paths, GetCommand(u, p)
      PROVE  Asks(u)'
  <2> DEFINE request == [kind |-> "getSession", path |-> p]
  <2>1. request \in RequestType /\ Ask(u, <<request>>) /\ UNCHANGED put
    BY <1>6 DEF GetCommand, RequestType
  <2>2. /\ OthersSame(u) /\ unanswered'[u] = unanswered[u] + 1
        /\ c2s'[u] = <<request>> /\ s2c'[u] = s2c[u]
    BY <1>1, <1>3, <2>1, AskSame DEF Rests
  <2>3. local[u][p] = <<>> /\ SizeIsKnown(p)
    BY <1>6 DEF GetCommand, Command
  <2>4. get' = [get EXCEPT ![u] = [@ EXCEPT !.path = p]]
    BY <1>6 DEF GetCommand
  <2>5. get'[u].path = p
    BY <2>4 DEF Types, ClientTypes
  <2>6. Fresh(u)' /\ SizeIsKnown(p)'
    BY <1>3, <2>3, <2>5 DEF Fresh, SizeIsKnown, nodeVars
  <2>7. Len(c2s'[u]) = 1 /\ Head(c2s'[u]) = request
    BY <2>2, OneAppended
  <2>8. RequestOf(u, Head(c2s[u]))'
    BY <2>5, <2>6, <2>7 DEF RequestOf
  <2>9. Only(u)'
    BY <1>2, <2>2, OnlyKept
  <2>10. ~put'[u].typed /\ unanswered'[u] = 1 /\ s2c'[u] = <<>>
    BY <1>1, <2>1, <2>2 DEF Rests
  <2> QED
    BY <1>4, <2>7, <2>8, <2>9, <2>10 DEF Asks
<1>7. ASSUME NEW p \in Paths, RemoveCommand(u, p)
      PROVE  Removes(u)'
  <2> DEFINE request == [kind |-> "remove", path |-> p]
  <2>1. c2s' = [c2s EXCEPT ![u] = Append(@, request)] /\ UNCHANGED <<clientVars, unanswered>>
    BY <1>7 DEF RemoveCommand
  <2>2. c2s'[u] = Append(c2s[u], request) /\ \A v \in Users \ {u} : c2s'[v] = c2s[v]
    BY <2>1 DEF Types, LinkTypes
  <2>3. Len(c2s'[u]) = 1 /\ Head(c2s'[u]) = request
    BY <1>1, <2>2, OneAppended DEF Rests
  <2>4. Only(u)'
    BY <1>2, <1>3, <2>1, <2>2, OnlyKept DEF OthersSame, clientVars
  <2> QED
    BY <1>1, <1>3, <1>4, <2>1, <2>3, <2>4 DEF Removes, Rests, clientVars
<1> QED
  BY <1>4, <1>5, <1>6, <1>7 DEF Console, Orderly, Serves

\* put_file sends its request.
LEMMA TypedClient ==
    ASSUME Types, Counted, Settled, NEW u \in Users, Typed(u), PutRequest(u)
    PROVE  Orderly'
<1> DEFINE request == [kind |-> "putSession", path |-> put[u].path, max |-> Size[put[u].file]]
<1>1. /\ put' = [put EXCEPT ![u] = [@ EXCEPT !.typed = FALSE, !.max = Size[put[u].file]]]
      /\ Ask(u, <<request>>)
      /\ UNCHANGED <<get, local, meta, s2c, serverVars, nodeVars, links, finished>>
  BY DEF PutRequest, history
<1>2. put[u].file \in Files /\ put[u].path \in Paths /\ Size[put[u].file] \in Nat
  BY ClientFields, TransferAssumption DEF Types, Typed
<1>3. request \in RequestType
  BY <1>2 DEF RequestType
<1>4. /\ \A v \in Users \ {u} : put'[v] = put[v]
      /\ ~put'[u].typed /\ put'[u].max = Size[put[u].file]
      /\ put'[u].path = put[u].path /\ put'[u].file = put[u].file
  BY <1>1 DEF Types, ClientTypes, PutType
<1>5. /\ OthersSame(u) /\ unanswered'[u] = unanswered[u] + 1
      /\ c2s'[u] = <<request>> /\ s2c'[u] = s2c[u]
  BY <1>1, <1>3, <1>4, AskSame DEF Typed
<1>6. Settled' /\ AllWhole' /\ Complete' /\ ServerRests'
  BY <1>1, SettledKept, WholeKept, CompleteKept
     DEF Typed, ServerRests, serverVars, sessionVars, nodeVars, links
<1>7. Len(c2s'[u]) = 1 /\ Head(c2s'[u]) = request
  BY <1>5, OneAppended
<1>8. RequestOf(u, Head(c2s[u]))'
  BY <1>2, <1>4, <1>7 DEF RequestOf, Chosen
<1>9. Only(u)'
  BY <1>5, OnlyKept DEF Typed
<1>10. unanswered'[u] = 1 /\ s2c'[u] = <<>>
  BY <1>5 DEF Typed
<1>11. Asks(u)'
  BY <1>4, <1>6, <1>7, <1>8, <1>9, <1>10 DEF Asks
<1> QED
  BY <1>6, <1>11 DEF Orderly, Serves

-----------------------------------------------------------------------------
(* What is undisturbed: the requests of the client *)

LEMMA ReceivedSame ==
    ASSUME Types, NEW u \in Users, NEW kind, Received(u, kind)
    PROVE  /\ c2s'[u] = Tail(c2s[u]) /\ \A v \in Users \ {u} : c2s'[v] = c2s[v]
           /\ UNCHANGED <<put, get, local, meta, online, crashed, n2s, nodeSessions, opened, files,
                          disk, unanswered, finished, calm>>
BY DEF Received, clientVars, nodeVars, Types, LinkTypes

LEMMA ReceivedSettled ==
    ASSUME Types, Settled, NEW u \in Users, NEW kind, Received(u, kind)
    PROVE  Settled' /\ (AllWhole => AllWhole')
BY ReceivedSame, SettledKept, WholeKept

LEMMA RemovesRequest ==
    ASSUME Types, Counted, Settled, NEW u \in Users, Removes(u), Request(u)
    PROVE  Orderly'
<1>1. c2s[u] \in Seq(RequestType) /\ Len(c2s[u]) = 1 /\ Head(c2s[u]).kind = "remove"
  BY DEF Types, LinkTypes, Removes
<1>2. RemoveOnInit(u)
  BY <1>1 DEF Request, PutSessionOnInit, PutOnInit, GetSessionOnInit, GetOnInit, Received
<1>3. Received(u, "remove") /\ UNCHANGED <<sessions, index, waits, s2c, s2n>>
  BY <1>2 DEF RemoveOnInit, sessionVars
<1>4. Settled' /\ AllWhole'
  BY <1>3, ReceivedSettled DEF Removes
<1>5. c2s'[u] = <<>> /\ OthersSame(u) /\ UNCHANGED <<put, unanswered, n2s>>
  BY <1>1, <1>3, ReceivedSame, OneTaken DEF OthersSame
<1>6. Complete' /\ ServerRests' /\ Only(u)' /\ Rests(u)'
  BY <1>3, <1>5, CompleteKept, OnlyKept DEF Removes, ServerRests, Rests
<1>7. Resting'
  BY <1>4, <1>6, OnlyRests DEF Resting, Only
<1> QED
  BY <1>4, <1>7 DEF Orderly

LEMMA AsksRefused ==
    ASSUME Types, Counted, Settled, NEW u \in Users, Asks(u), NEW kind \in WaitKinds,
           Received(u, kind), Refuse(u, kind)
    PROVE  Orderly'
<1> DEFINE answer == [kind |-> kind, ok |-> FALSE]
<1>1. c2s[u] \in Seq(RequestType) /\ Len(c2s[u]) = 1
  BY DEF Types, LinkTypes, Asks
<1>2. s2c' = [s2c EXCEPT ![u] = Append(@, answer)] /\ UNCHANGED <<sessions, index, waits, s2n>>
  BY DEF Refuse, sessionVars
<1>3. s2c'[u] = <<answer>> /\ \A v \in Users \ {u} : s2c'[v] = s2c[v]
  BY <1>2, OneAppended DEF Types, LinkTypes, Asks
<1>4. Settled' /\ AllWhole'
  BY ReceivedSettled DEF Asks
<1>5. c2s'[u] = <<>> /\ OthersSame(u) /\ UNCHANGED <<put, unanswered, n2s>>
  BY <1>1, <1>3, ReceivedSame, OneTaken DEF OthersSame
<1>6. Complete' /\ ServerRests' /\ Only(u)'
  BY <1>2, <1>5, CompleteKept, OnlyKept DEF Asks, ServerRests
<1>7. Len(s2c'[u]) = 1 /\ Head(s2c'[u]) = answer
  BY <1>3, OneAppended
<1>8. AnswerOf(u, Head(s2c[u]))'
  BY <1>6, <1>7 DEF AnswerOf
<1>9. IsAnswered(u)'
  BY <1>4, <1>5, <1>6, <1>7, <1>8 DEF IsAnswered, Asks
<1> QED
  BY <1>4, <1>9 DEF Orderly, Serves

LEMMA AsksWaits ==
    ASSUME Types, Counted, Settled, NEW u \in Users, Asks(u), NEW kind, Received(u, kind),
           NEW s, NEW p, NEW order, order.trans = nextTrans, Wait(u, kind, s, p, order),
           NEW w, w = [id |-> nextTrans, kind |-> kind, user |-> u, session |-> s, path |-> p],
           OrderOf(u, w, order)'
    PROVE  Orderly'
<1>1. c2s[u] \in Seq(RequestType) /\ Len(c2s[u]) = 1
  BY DEF Types, LinkTypes, Asks
<1>2. waits' = {w} /\ s2n' = <<order>> /\ UNCHANGED s2c
  BY OneAppended DEF Wait, Asks, ServerRests
<1>3. Settled' /\ AllWhole'
  BY ReceivedSettled DEF Asks
<1>4. c2s'[u] = <<>> /\ OthersSame(u) /\ UNCHANGED <<put, unanswered, n2s>>
  BY <1>1, <1>2, ReceivedSame, OneTaken DEF OthersSame
<1>5. Only(u)'
  BY <1>4, OnlyKept DEF Asks
<1>6. Len(s2n') = 1 /\ Head(s2n') = order
  BY <1>2, OneAppended
<1>7. w.id = nextTrans /\ w.user = u
  OBVIOUS
<1>9. OrderOf(u, w, Head(s2n))'
  BY <1>6 DEF OrderOf, IsPut, IsGet, Chosen, Fresh, CompleteBut, Complete, SizeIsKnown,
                     PutName, GetName
<1>10. \E x \in waits' : waits' = {x} /\ Head(s2n').trans = x.id /\ x.user = u
                         /\ OrderOf(u, x, Head(s2n))'
  BY <1>2, <1>6, <1>7, <1>9
<1>11. Ordered(u)'
  BY <1>2, <1>3, <1>4, <1>5, <1>6, <1>10 DEF Ordered, Asks, ServerRests
<1> QED
  BY <1>3, <1>11 DEF Orderly, Serves

LEMMA AsksPutSession ==
    ASSUME Types, Counted, PathsFit, Settled, NEW u \in Users, Asks(u), PutSessionOnInit(u)
    PROVE  Orderly'
<1> DEFINE m == Head(c2s[u])
           max == m.max
<1>0. PICK p, order : /\ p = m.path
                      /\ order = [kind |-> "putSession", trans |-> nextTrans,
                                  name |-> FileName[p], max |-> max]
  OBVIOUS
<1> DEFINE old == FindSession("put", u, p)
           session == [type |-> "put", user |-> u, path |-> p, max |-> max, next |-> 0, node |-> 0]
<1>1. Received(u, "putSession") /\ m.kind = "putSession"
  BY DEF PutSessionOnInit, Received
<1>2. Chosen(u) /\ p = put[u].path /\ max = put[u].max /\ p \in Paths /\ max \in Nat
  BY <1>0, <1>1, TransferAssumption DEF Asks, RequestOf, Chosen
<1>3. \/ Refuse(u, "putSession")
      \/ /\ old # 0 /\ sessions[old].max = max /\ UNCHANGED <<sessions, index>>
         /\ Wait(u, "putSession", old, p, order)
      \/ /\ old = 0 /\ RegisterSession(session)
         /\ Wait(u, "putSession", NextSession, p, order)
  BY <1>0 DEF PutSessionOnInit, sessionVars
<1>4. UNCHANGED put
  BY <1>1, ReceivedSame
<1>5. /\ order.kind = "putSession" /\ order.trans = nextTrans
      /\ order.name = FileName[p] /\ order.max = max
  BY <1>0
<1>6. old # 0 => /\ old \in DOMAIN sessions /\ old = index[p]
                 /\ sessions[old].type = "put" /\ sessions[old].user = u
  BY <1>2, Found DEF Types
<1> HIDE DEF m, max, old, session
<1>7. ASSUME NEW s, Wait(u, "putSession", s, p, order), IsPut(u, s)',
             sessions'[s].next \in {0, put[u].max}
      PROVE  Orderly'
  <2>0. PICK w : w = [id |-> nextTrans, kind |-> "putSession", user |-> u, session |-> s, path |-> p]
    OBVIOUS
  <2>1. w.kind = "putSession" /\ w.session = s
    BY <2>0
  <2>2. OrderOf(u, w, order)'
    BY <1>2, <1>4, <1>5, <1>7, <2>1 DEF OrderOf, PutName
  <2> QED
    BY <1>1, <1>5, <1>7, <2>2, <2>0, AsksWaits
<1>8. CASE /\ old # 0 /\ sessions[old].max = max /\ UNCHANGED <<sessions, index>>
           /\ Wait(u, "putSession", old, p, order)
  <2>1. PICK s : s = old
    OBVIOUS
  <2>2. /\ s \in DOMAIN sessions /\ sessions[s].type = "put" /\ sessions[s].user = u
        /\ sessions[s].path = p /\ sessions[s].max = max /\ UNCHANGED sessions
        /\ Wait(u, "putSession", s, p, order)
    BY <1>2, <1>6, <1>8, <2>1 DEF PathsFit, IsFor
  <2>3. sessions[s].next = sessions[s].max
    BY <2>2 DEF Asks, Complete
  <2>4. IsPut(u, s)'
    BY <1>2, <1>4, <2>2 DEF IsPut, Chosen, Asks, Complete, CompleteBut
  <2> QED
    BY <1>2, <1>7, <2>2, <2>3, <2>4
<1>9. CASE /\ old = 0 /\ RegisterSession(session)
           /\ Wait(u, "putSession", NextSession, p, order)
  <2>1. /\ session \in SessionType /\ session.type = "put" /\ session.user = u /\ session.path = p
        /\ session.max = max /\ session.next = 0
    BY <1>2 DEF SessionType, session
  <2>2. PICK s : s = NextSession
    OBVIOUS
  <2>3. /\ sessions'[s] = session /\ s \in DOMAIN sessions'
        /\ DOMAIN sessions' = DOMAIN sessions \cup {s}
        /\ \A r \in DOMAIN sessions : sessions'[r] = sessions[r]
    BY <1>2, <1>9, <2>1, <2>2, RegisteredTypes DEF Types
  <2>4. \A r \in DOMAIN sessions' : r # s /\ sessions'[r].type = "put" =>
            sessions'[r].next = sessions'[r].max
    BY <2>3 DEF Asks, Complete
  <2>5. Wait(u, "putSession", s, p, order)
    BY <1>9, <2>2
  <2>6. IsPut(u, s)'
    BY <1>2, <1>4, <2>1, <2>3, <2>4 DEF IsPut, Chosen, CompleteBut
  <2> QED
    BY <1>7, <2>1, <2>3, <2>5, <2>6
<1> QED
  BY <1>1, <1>3, <1>8, <1>9, AsksRefused, KindsOfWaits

LEMMA AsksGetSession ==
    ASSUME Types, Counted, PathsFit, Settled, NEW u \in Users, Asks(u), GetSessionOnInit(u)
    PROVE  Orderly'
<1> DEFINE m == Head(c2s[u])
<1>0. PICK p, order : /\ p = m.path
                      /\ order = [kind |-> "getSession", trans |-> nextTrans,
                                  name |-> FileName[p]]
  OBVIOUS
<1> DEFINE old == FindSession("get", u, p)
           session == [type |-> "get", user |-> u, path |-> p, node |-> 0]
<1>1. Received(u, "getSession") /\ m.kind = "getSession"
  BY DEF GetSessionOnInit, Received
<1>2. Fresh(u) /\ p = get[u].path /\ p \in Paths /\ SizeIsKnown(p)
  BY <1>0, <1>1 DEF Asks, RequestOf, Fresh
<1>3. \/ Refuse(u, "getSession")
      \/ /\ p \in tree /\ UNCHANGED tree
         /\ \/ /\ old # 0 /\ UNCHANGED <<sessions, index>>
               /\ Wait(u, "getSession", old, p, order)
            \/ /\ old = 0 /\ RegisterSession(session)
               /\ Wait(u, "getSession", NextSession, p, order)
  BY <1>0 DEF GetSessionOnInit, sessionVars
<1>4. UNCHANGED <<get, local, nodeSessions, disk>>
  BY <1>1, ReceivedSame
<1>5. order.kind = "getSession" /\ order.trans = nextTrans /\ order.name = FileName[p]
  BY <1>0
<1>6. old # 0 => /\ old \in DOMAIN sessions /\ old = index[p]
                 /\ sessions[old].type = "get" /\ sessions[old].user = u
  BY <1>2, Found DEF Types
<1> HIDE DEF m, old, session
<1>7. Fresh(u)' /\ SizeIsKnown(p)'
  BY <1>2, <1>4 DEF Fresh, SizeIsKnown
<1>8. ASSUME NEW s, Wait(u, "getSession", s, p, order), IsGet(u, s)'
      PROVE  Orderly'
  <2>0. PICK w : w = [id |-> nextTrans, kind |-> "getSession", user |-> u, session |-> s, path |-> p]
    OBVIOUS
  <2>1. w.kind = "getSession" /\ w.session = s
    BY <2>0
  <2>2. p = get'[u].path
    BY <1>2, <1>4
  <2>3. OrderOf(u, w, order)'
    BY <1>5, <1>7, <1>8, <2>1, <2>2 DEF OrderOf, GetName, SizeIsKnown
  <2> QED
    BY <1>1, <1>5, <1>8, <2>3, <2>0, AsksWaits
<1>9. CASE /\ p \in tree /\ UNCHANGED tree /\ old # 0 /\ UNCHANGED <<sessions, index>>
           /\ Wait(u, "getSession", old, p, order)
  <2>1. PICK s : s = old
    OBVIOUS
  <2>2. /\ s \in DOMAIN sessions /\ sessions[s].type = "get" /\ sessions[s].user = u
        /\ sessions[s].path = p /\ p \in tree /\ UNCHANGED <<sessions, tree>>
        /\ Wait(u, "getSession", s, p, order)
    BY <1>2, <1>6, <1>9, <2>1 DEF PathsFit, IsFor
  <2>3. IsGet(u, s)'
    BY <1>2, <1>4, <2>2 DEF IsGet, Asks, Complete
  <2> QED
    BY <1>8, <2>2, <2>3
<1>10. CASE /\ p \in tree /\ UNCHANGED tree /\ old = 0 /\ RegisterSession(session)
            /\ Wait(u, "getSession", NextSession, p, order)
  <2>1. /\ session \in SessionType /\ session.type = "get" /\ session.user = u /\ session.path = p
    BY <1>2 DEF SessionType, session
  <2>0. PICK s : s = NextSession
    OBVIOUS
  <2>2. /\ sessions'[s] = session /\ s \in DOMAIN sessions'
        /\ DOMAIN sessions' = DOMAIN sessions \cup {s}
        /\ \A r \in DOMAIN sessions : sessions'[r] = sessions[r]
    BY <1>2, <1>10, <2>0, <2>1, RegisteredTypes DEF Types
  <2>3. Wait(u, "getSession", s, p, order)
    BY <1>10, <2>0
  <2>4. Complete'
    BY <2>1, <2>2 DEF Asks, Complete
  <2>5. IsGet(u, s)'
    BY <1>2, <1>4, <1>10, <2>1, <2>2, <2>4 DEF IsGet
  <2> QED
    BY <1>8, <2>3, <2>5
<1> QED
  BY <1>1, <1>3, <1>9, <1>10, AsksRefused, KindsOfWaits

LEMMA AsksRequest ==
    ASSUME Types, Counted, PathsFit, Settled, NEW u \in Users, Asks(u), Request(u)
    PROVE  Orderly'
<1>1. Head(c2s[u]).kind \in {"putSession", "getSession"}
  BY DEF Asks, RequestOf
<1>2. PutSessionOnInit(u) \/ GetSessionOnInit(u)
  BY <1>1 DEF Request, PutOnInit, GetOnInit, RemoveOnInit, Received
<1> QED
  BY <1>2, AsksPutSession, AsksGetSession

-----------------------------------------------------------------------------
(* What is undisturbed: the storage node and its answers about sessions *)

LEMMA NodeReceivedSame ==
    ASSUME NEW kind, NodeReceived(kind)
    PROVE  UNCHANGED <<put, get, local, meta, c2s, s2c, online, tree, sessions, index, waits,
                       nextTrans, crashed, unanswered, finished>>
BY DEF NodeReceived, clientVars, serverVars, sessionVars

LEMMA SessionsSame ==
    ASSUME UNCHANGED <<sessions, put, get, tree, local>>, NEW u \in Users, NEW s
    PROVE  /\ IsPut(u, s) => IsPut(u, s)'
           /\ IsGet(u, s) => IsGet(u, s)'
           /\ Fresh(u) => Fresh(u)'
           /\ PutName(u)' = PutName(u) /\ GetName(u)' = GetName(u)
BY DEF IsPut, IsGet, Fresh, Chosen, CompleteBut, Complete, PutName, GetName

LEMMA OrderedDone ==
    ASSUME Types, Counted, Settled, NEW u \in Users, Ordered(u), NEW kind, NodeReceived(kind),
           NEW r, NodeReply(r), r.trans = Head(s2n).trans, UNCHANGED <<opened, files, disk>>,
           NEW w \in waits, ResultOf(u, w, r)'
    PROVE  Orderly'
<1>1. s2n \in Seq(OrderType) /\ Len(s2n) = 1 /\ n2s = <<>> /\ s2n' = Tail(s2n)
  BY DEF Ordered, Types, NodeTypes, NodeReceived
<1>2. s2n' = <<>> /\ n2s' = <<r>>
  BY <1>1, OneTaken, OneAppended DEF NodeReply
<1>3. waits = {w} /\ Head(s2n).trans = w.id /\ w.user = u
  BY DEF Ordered
<1>4. Settled' /\ AllWhole' /\ Only(u)'
  BY NodeReceivedSame, SettledKept, WholeKept, OnlyKept DEF Ordered, OthersSame
<1>5. Len(n2s') = 1 /\ Head(n2s') = r
  BY <1>2, OneAppended
<1>6. ResultOf(u, w, Head(n2s))'
  BY <1>5 DEF ResultOf, IsPut, IsGet, Chosen, Fresh, CompleteBut, Complete, PutName, GetName,
              IsOpen
<1>7. waits' = {w} /\ w.id = r.trans
  BY <1>3, NodeReceivedSame
<1>8. Resulted(u)'
  BY <1>2, <1>3, <1>4, <1>5, <1>6, <1>7, NodeReceivedSame DEF Resulted, Ordered
<1> QED
  BY <1>4, <1>8 DEF Orderly, Serves

LEMMA OrderedPutSession ==
    ASSUME Types, Counted, Settled, NEW u \in Users, Ordered(u), NodePutSession
    PROVE  Orderly'
<1> DEFINE m == Head(s2n)
           name == PutName(u)
           max == put[u].max
<1>1. NodeReceived("putSession") /\ m.kind = "putSession" /\ UNCHANGED <<opened, files, disk>>
  BY DEF NodePutSession, NodeReceived
<1>2. PICK w \in waits : OrderOf(u, w, m)
  BY DEF Ordered
<1>3. /\ w.kind = "putSession" /\ m.name = name /\ m.max = max
      /\ IsPut(u, w.session) /\ sessions[w.session].next \in {0, put[u].max}
  BY <1>1, <1>2 DEF OrderOf
<1>4. name \in Names /\ max \in Nat
  BY <1>3, TransferAssumption DEF IsPut, Chosen, PutName
<1>5. UNCHANGED <<name, max>> /\ IsPut(u, w.session)' /\ UNCHANGED sessions
  BY <1>1, <1>3, NodeReceivedSame, SessionsSame
<1>6. ASSUME NEW r, NodeReply(r), r.trans = m.trans, r.ok => IsOpen(r.node, name, max)'
      PROVE  Orderly'
  <2>1. ResultOf(u, w, r)'
    BY <1>3, <1>5, <1>6, NodeReceivedSame, <1>1 DEF ResultOf
  <2> QED
    BY <1>1, <1>6, <2>1, OrderedDone
<1>7. ASSUME NEW n \in NodeSessionsOf(name), UNCHANGED nodeSessions,
             NodeReply(IF nodeSessions[n].max = max
                       THEN [trans |-> m.trans, ok |-> TRUE, node |-> n] ELSE NodeError)
      PROVE  Orderly'
  <2>1. PICK r : r = IF nodeSessions[n].max = max
                     THEN [trans |-> m.trans, ok |-> TRUE, node |-> n] ELSE NodeError
    OBVIOUS
  <2>2. r.trans = m.trans /\ (r.ok => r.node = n /\ nodeSessions[n].max = max)
    BY <2>1 DEF NodeError
  <2>3. r.ok => IsOpen(r.node, name, max)'
    BY <1>5, <1>7, <2>2 DEF NodeSessionsOf, IsOpen
  <2> QED
    BY <1>6, <1>7, <2>1, <2>2, <2>3
<1>8. ASSUME RegisterNodeSession(name, max),
             NodeReply([trans |-> m.trans, ok |-> TRUE, node |-> NextNode])
      PROVE  Orderly'
  <2>1. PICK n, r : n = NextNode /\ r = [trans |-> m.trans, ok |-> TRUE, node |-> n]
    OBVIOUS
  <2>2. /\ n \in DOMAIN nodeSessions'
        /\ nodeSessions'[n] = [type |-> "file", name |-> name, max |-> max]
    BY <1>4, <1>8, <2>1, NodeRegistered DEF Types
  <2>3. r.trans = m.trans /\ r.node = n
    BY <2>1
  <2>4. IsOpen(r.node, name, max)'
    BY <1>5, <2>2, <2>3 DEF IsOpen
  <2> QED
    BY <1>6, <1>8, <2>1, <2>3, <2>4
<1> QED
  BY <1>3, <1>7, <1>8 DEF NodePutSession

LEMMA OrderedGetSession ==
    ASSUME Types, Counted, Settled, NEW u \in Users, Ordered(u), NodeGetSession
    PROVE  Orderly'
<1> DEFINE m == Head(s2n)
           name == GetName(u)
           size == Len(disk[name])
<1>1. NodeReceived("getSession") /\ m.kind = "getSession" /\ UNCHANGED <<opened, files, disk>>
  BY DEF NodeGetSession, NodeReceived
<1>2. PICK w \in waits : OrderOf(u, w, m)
  BY DEF Ordered
<1>3. /\ w.kind = "getSession" /\ m.name = name
      /\ IsGet(u, w.session) /\ Fresh(u) /\ SizeIsKnown(get[u].path)
  BY <1>1, <1>2 DEF OrderOf
<1>4. name \in Names /\ size \in Nat
  BY <1>3, TransferAssumption DEF Fresh, GetName, Types, NodeTypes
<1>5. UNCHANGED <<name, size>> /\ IsGet(u, w.session)' /\ Fresh(u)'
  BY <1>1, <1>3, NodeReceivedSame, SessionsSame
<1>6. ASSUME NEW r, NodeReply(r), r.trans = m.trans,
             r.ok => r.max = size /\ IsOpen(r.node, name, size)'
      PROVE  Orderly'
  <2>1. r.ok => r.max = size' /\ IsOpen(r.node, name, r.max)'
    BY <1>5, <1>6 DEF IsOpen
  <2>2. ResultOf(u, w, r)'
    BY <1>3, <1>5, <2>1 DEF ResultOf
  <2> QED
    BY <1>1, <1>6, <2>2, OrderedDone
<1>7. ASSUME NEW n \in NodeSessionsOf(name), UNCHANGED nodeSessions,
             NodeReply([trans |-> m.trans, ok |-> TRUE, node |-> n, max |-> nodeSessions[n].max])
      PROVE  Orderly'
  <2>1. PICK r : r = [trans |-> m.trans, ok |-> TRUE, node |-> n, max |-> nodeSessions[n].max]
    OBVIOUS
  <2>2. r.trans = m.trans /\ r.node = n /\ r.max = nodeSessions[n].max
    BY <2>1
  <2>3. nodeSessions[n].max = size
    BY <1>3, <1>7 DEF NodeSessionsOf, SizeIsKnown, GetName
  <2>4. IsOpen(r.node, name, size)'
    BY <1>5, <1>7, <2>2, <2>3 DEF NodeSessionsOf, IsOpen
  <2> QED
    BY <1>6, <1>7, <2>1, <2>2, <2>3, <2>4
<1>8. ASSUME RegisterNodeSession(name, size),
             NodeReply([trans |-> m.trans, ok |-> TRUE, node |-> NextNode, max |-> size])
      PROVE  Orderly'
  <2>1. PICK n, r : n = NextNode /\ r = [trans |-> m.trans, ok |-> TRUE, node |-> n, max |-> size]
    OBVIOUS
  <2>2. /\ n \in DOMAIN nodeSessions'
        /\ nodeSessions'[n] = [type |-> "file", name |-> name, max |-> size]
    BY <1>4, <1>8, <2>1, NodeRegistered DEF Types
  <2>3. r.trans = m.trans /\ r.node = n /\ r.max = size
    BY <2>1
  <2>4. IsOpen(r.node, name, size)'
    BY <1>5, <2>2, <2>3 DEF IsOpen
  <2> QED
    BY <1>6, <1>8, <2>1, <2>3, <2>4
<1>9. ASSUME NodeReply(NodeError)
      PROVE  Orderly'
  <2>1. PICK r : r = NodeError
    OBVIOUS
  <2>2. r.trans = m.trans /\ ~r.ok
    BY <2>1 DEF NodeError
  <2> QED
    BY <1>6, <1>9, <2>1, <2>2
<1> QED
  BY <1>3, <1>7, <1>8, <1>9 DEF NodeGetSession

LEMMA OrderedNode ==
    ASSUME Types, Counted, Settled, NEW u \in Users, Ordered(u), Node
    PROVE  Orderly'
<1>1. Head(s2n).kind \in {"putSession", "getSession"}
  BY DEF Ordered, OrderOf
<1>2. NodePutSession \/ NodeGetSession
  BY <1>1 DEF Node, NodePut, NodeGet, NodeReceived
<1> QED
  BY <1>2, OrderedPutSession, OrderedGetSession

LEMMA ActivatedSame ==
    ASSUME NEW w \in waits, NEW kind, Activated(w, kind)
    PROVE  /\ waits' = waits \ {w} /\ w.kind = kind /\ n2s' = Tail(n2s)
           /\ UNCHANGED <<put, get, local, meta, c2s, online, tree, nextTrans, s2n, nodeSessions,
                          opened, files, disk, unanswered, finished>>
BY DEF Activated, clientVars, nodeVars

LEMMA ReplySame ==
    ASSUME Types, NEW w \in waits, NEW answer, Reply(w, answer)
    PROVE  /\ s2c'[w.user] = Append(s2c[w.user], answer)
           /\ \A v \in Users \ {w.user} : s2c'[v] = s2c[v]
<1>1. w.user \in Users
  BY WaitFields DEF Types
<1> QED
  BY <1>1 DEF Reply, Types, LinkTypes

LEMMA ResultedDone ==
    ASSUME Types, Counted, Settled, NEW u \in Users, Resulted(u), NEW kind,
           NEW w \in waits, Activated(w, kind), NEW answer, Reply(w, answer), UNCHANGED crashed,
           AnswerOf(u, answer)'
    PROVE  Orderly'
<1>1. n2s \in Seq(ResultType) /\ Len(n2s) = 1 /\ waits = {w} /\ w.user = u
      /\ s2n = <<>> /\ s2c[u] = <<>>
  BY DEF Resulted, Types, NodeTypes
<1>2. ServerRests'
  BY <1>1, ActivatedSame, OneTaken DEF ServerRests
<1>3. Settled' /\ AllWhole'
  BY ActivatedSame, SettledKept, WholeKept DEF Resulted
<1>4. s2c'[u] = <<answer>> /\ \A v \in Users \ {u} : s2c'[v] = s2c[v]
  BY <1>1, ReplySame, OneAppended
<1>5. Only(u)'
  BY <1>4, ActivatedSame, OnlyKept DEF Resulted, OthersSame
<1>6. Len(s2c'[u]) = 1 /\ Head(s2c'[u]) = answer
  BY <1>4, OneAppended
<1>7. AnswerOf(u, Head(s2c[u]))'
  BY <1>6 DEF AnswerOf, IsPut, IsGet, Chosen, Fresh, CompleteBut, Complete, PutName, GetName,
              IsOpen
<1>8. IsAnswered(u)'
  BY <1>2, <1>3, <1>5, <1>6, <1>7, ActivatedSame DEF IsAnswered, Resulted
<1> QED
  BY <1>3, <1>8 DEF Orderly, Serves

LEMMA ResultedFails ==
    ASSUME Types, Counted, Settled, NEW u \in Users, Resulted(u),
           NEW kind \in {"putSession", "getSession"},
           NEW w \in waits, Activated(w, kind), OnError(w), UNCHANGED crashed
    PROVE  Orderly'
<1>1. PICK answer : answer = Failure(w)
  OBVIOUS
<1>2. Reply(w, answer) /\ RemoveSession(w.session) /\ ~answer.ok
  BY <1>1, ActivatedSame DEF OnError, Failure
<1>3. CompleteBut(w.session) /\ w.session \in DOMAIN sessions
  <2>1. \/ IsPut(u, w.session)
        \/ IsGet(u, w.session)
    BY DEF Resulted, ResultOf
  <2> QED
    BY <2>1 DEF IsPut, IsGet, Complete, CompleteBut
<1>4. /\ DOMAIN sessions' = DOMAIN sessions /\ sessions'[w.session].type = "none"
      /\ \A x \in DOMAIN sessions \ {w.session} : sessions'[x] = sessions[x]
  BY <1>2, <1>3, RemoveSessionTypes DEF Types
<1>5. Complete'
  BY <1>3, <1>4 DEF Complete, CompleteBut
<1>6. AnswerOf(u, answer)'
  BY <1>2, <1>5 DEF AnswerOf
<1> QED
  BY <1>2, <1>6, ResultedDone

LEMMA ResultedPut ==
    ASSUME Types, Counted, Settled, NEW u \in Users, Resulted(u), NEW w \in waits,
           PutSessionOnActive(w)
    PROVE  Orderly'
<1> DEFINE m == Head(n2s)
<1>1. PICK s : s = w.session
  OBVIOUS
<1>2. Activated(w, "putSession")
  BY DEF PutSessionOnActive, SessionOnActive
<1>3. w.kind = "putSession" /\ ResultOf(u, w, m)
  BY <1>2, ActivatedSame DEF Resulted
<1>4. /\ IsPut(u, s) /\ sessions[s].next \in {0, put[u].max}
      /\ m.ok => IsOpen(m.node, PutName(u), put[u].max)
  BY <1>1, <1>3 DEF ResultOf
<1>5. /\ s \in DOMAIN sessions /\ sessions \in Seq(SessionType)
      /\ sessions[s].type = "put" /\ sessions[s].user = u
  BY <1>4 DEF IsPut, Types, ServerTypes
<1>6. CASE ~m.ok
  BY <1>2, <1>6, ResultedFails DEF PutSessionOnActive, SessionOnActive
<1>7. CASE m.ok
  <2>1. PICK answer : answer = [kind |-> "putSession", ok |-> TRUE, session |-> s,
                                next |-> sessions[s].next]
    OBVIOUS
  <2>2. /\ sessions' = [sessions EXCEPT ![s] = [@ EXCEPT !.node = m.node]]
        /\ Reply(w, answer) /\ UNCHANGED crashed
    BY <1>1, <1>5, <1>7, <2>1 DEF PutSessionOnActive, SessionOnActive
  <2> DEFINE new == [sessions[s] EXCEPT !.node = m.node]
  <2>3. sessions[s] \in SessionType /\ m.node \in Nat
    BY <1>2, <1>3, <1>5, <1>7, ActivatedTypes, ResultForFields, ElementOfSeq
  <2>4. /\ new.type = "put" /\ new.user = u /\ new.path = sessions[s].path
        /\ new.max = sessions[s].max /\ new.next = sessions[s].next /\ new.node = m.node
    BY <1>5, <2>3 DEF SessionType, NoSession
  <2>5. /\ DOMAIN sessions' = DOMAIN sessions /\ sessions'[s] = new
        /\ \A x \in DOMAIN sessions \ {s} : sessions'[x] = sessions[x]
    BY <1>5, <2>2
  <2> HIDE DEF new
  <2>6. UNCHANGED <<put, nodeSessions>>
    BY <1>2, ActivatedSame
  <2>7. IsPut(u, s)'
    BY <1>4, <2>4, <2>5, <2>6 DEF IsPut, Chosen, CompleteBut
  <2>8. IsOpen(sessions[s].node, PutName(u), put[u].max)'
    BY <1>4, <1>7, <2>4, <2>5, <2>6 DEF IsOpen, PutName
  <2>9. answer.ok /\ answer.kind = "putSession" /\ answer.session = s
        /\ answer.next = sessions'[s].next /\ answer.next \in {0, put'[u].max}
    BY <1>4, <2>1, <2>4, <2>5, <2>6
  <2>10. AnswerOf(u, answer)'
    BY <2>7, <2>8, <2>9 DEF AnswerOf
  <2> QED
    BY <1>2, <2>2, <2>10, ResultedDone
<1> QED
  BY <1>6, <1>7

LEMMA ResultedGet ==
    ASSUME Types, Counted, Settled, NEW u \in Users, Resulted(u), NEW w \in waits,
           GetSessionOnActive(w)
    PROVE  Orderly'
<1> DEFINE m == Head(n2s)
<1>1. PICK s : s = w.session
  OBVIOUS
<1>2. Activated(w, "getSession")
  BY DEF GetSessionOnActive, SessionOnActive
<1>3. w.kind = "getSession" /\ ResultOf(u, w, m)
  BY <1>2, ActivatedSame DEF Resulted
<1>4. /\ IsGet(u, s) /\ Fresh(u)
      /\ m.ok => m.max = Len(disk[GetName(u)]) /\ IsOpen(m.node, GetName(u), m.max)
  BY <1>1, <1>3 DEF ResultOf
<1>5. /\ s \in DOMAIN sessions /\ sessions \in Seq(SessionType)
      /\ sessions[s].type = "get" /\ sessions[s].user = u
  BY <1>4 DEF IsGet, Types, ServerTypes
<1>6. CASE ~m.ok
  BY <1>2, <1>6, ResultedFails DEF GetSessionOnActive, SessionOnActive
<1>7. CASE m.ok
  <2>1. PICK answer : answer = [kind |-> "getSession", ok |-> TRUE, session |-> s, max |-> m.max]
    OBVIOUS
  <2>2. /\ sessions' = [sessions EXCEPT ![s] = [@ EXCEPT !.node = m.node]]
        /\ Reply(w, answer) /\ UNCHANGED crashed
    BY <1>1, <1>5, <1>7, <2>1 DEF GetSessionOnActive, SessionOnActive
  <2> DEFINE new == [sessions[s] EXCEPT !.node = m.node]
  <2>3. sessions[s] \in SessionType /\ m.node \in Nat
    BY <1>2, <1>3, <1>5, <1>7, ActivatedTypes, ResultForFields, ElementOfSeq
  <2>4. /\ new.type = "get" /\ new.user = u /\ new.path = sessions[s].path
        /\ new.node = m.node
    BY <1>5, <2>3 DEF SessionType, NoSession
  <2>5. /\ DOMAIN sessions' = DOMAIN sessions /\ sessions'[s] = new
        /\ \A x \in DOMAIN sessions \ {s} : sessions'[x] = sessions[x]
    BY <1>5, <2>2
  <2> HIDE DEF new
  <2>6. UNCHANGED <<get, local, tree, disk, nodeSessions>>
    BY <1>2, ActivatedSame
  <2>7. IsGet(u, s)'
    BY <1>4, <2>4, <2>5, <2>6 DEF IsGet, Complete
  <2>8. answer.ok /\ answer.kind = "getSession" /\ answer.session = s /\ answer.max = m.max
    BY <2>1
  <2>9. /\ Fresh(u)' /\ answer.max = Len(disk'[GetName(u)'])
        /\ IsOpen(sessions[s].node, GetName(u), answer.max)'
    BY <1>4, <1>7, <2>4, <2>5, <2>6, <2>8 DEF IsOpen, GetName, Fresh
  <2>10. AnswerOf(u, answer)'
    BY <2>7, <2>8, <2>9 DEF AnswerOf
  <2> QED
    BY <1>2, <2>2, <2>10, ResultedDone
<1> QED
  BY <1>6, <1>7

LEMMA ResultedAnswer ==
    ASSUME Types, Counted, Settled, NEW u \in Users, Resulted(u), Answer
    PROVE  Orderly'
<1>1. PICK x \in waits : waits = {x} /\ Head(n2s).trans = x.id /\ ResultOf(u, x, Head(n2s))
  BY DEF Resulted
<1>2. PICK w \in waits : PutSessionOnActive(w) \/ PutOnActive(w)
                         \/ GetSessionOnActive(w) \/ GetOnActive(w)
  BY <1>1, AnswerNeeds
<1>3. w.kind \in {"putSession", "getSession"}
  BY <1>1 DEF ResultOf
<1>4. PutSessionOnActive(w) \/ GetSessionOnActive(w)
  BY <1>2, <1>3 DEF PutOnActive, GetOnActive, Activated
<1> QED
  BY <1>4, ResultedPut, ResultedGet

-----------------------------------------------------------------------------
(* What is undisturbed: the fragments of a file *)

LEMMA RemainingAll ==
    ASSUME ClientTypes, NEW u \in Users, NEW s \in Nat, NEW max, max = put[u].max
    PROVE  /\ max > 0 =>
                  /\ Len(Remaining(u, s, 0)) = max
                  /\ \A k \in 1 .. max : LET m == Remaining(u, s, 0)[k]
                                         IN  /\ m.kind = "put" /\ m.session = s /\ m.index = k - 1
                                             /\ m.data = Fragment(put[u].file, k - 1)
           /\ Len(Remaining(u, s, max)) = 0
<1>1. max \in Nat
  BY DEF ClientTypes, PutType
<1>2. Remaining(u, s, max) = [k \in 1 .. 0 |-> [kind |-> "put", session |-> s,
                                 index |-> max + k - 1, data |-> Fragment(put[u].file, max + k - 1)]]
  BY <1>1 DEF Remaining
<1>3. Len(Remaining(u, s, max)) = 0
  BY <1>2
<1>4. ASSUME max > 0
      PROVE  /\ Len(Remaining(u, s, 0)) = max
             /\ \A k \in 1 .. max : LET m == Remaining(u, s, 0)[k]
                                    IN  /\ m.kind = "put" /\ m.session = s /\ m.index = k - 1
                                        /\ m.data = Fragment(put[u].file, k - 1)
  <2> DEFINE F(k) == [kind |-> "put", session |-> s, index |-> 0 + k - 1,
                      data |-> Fragment(put[u].file, 0 + k - 1)]
  <2>1. Remaining(u, s, 0) = [k \in 1 .. max |-> F(k)]
    BY <1>1, <1>4 DEF Remaining
  <2>2. \A k \in 1 .. max : /\ F(k).kind = "put" /\ F(k).session = s /\ F(k).index = k - 1
                            /\ F(k).data = Fragment(put[u].file, k - 1)
    <3> TAKE k \in 1 .. max
    <3>1. 0 + k - 1 = k - 1
      BY <1>1
    <3> QED
      BY <3>1
  <2> HIDE DEF F
  <2>3. Len(Remaining(u, s, 0)) = max /\ \A k \in 1 .. max : Remaining(u, s, 0)[k] = F(k)
    BY <1>1, <2>1
  <2> QED
    BY <2>2, <2>3
<1> QED
  BY <1>3, <1>4

LEMMA WantedAll ==
    ASSUME ClientTypes, NEW u \in Users, NEW s \in Nat, NEW max \in Nat,
           meta[u][get[u].path] = 0
    PROVE  /\ Len(Wanted(u, s, max)) = max
           /\ \A k \in 1 .. max : LET m == Wanted(u, s, max)[k]
                                  IN  m.kind = "get" /\ m.session = s /\ m.index = k - 1
<1> DEFINE F(k) == [kind |-> "get", session |-> s, index |-> 0 + k - 1]
<1>1. Wanted(u, s, max) = [k \in 1 .. max |-> F(k)]
  <2>1. CASE max > 0
    BY <2>1 DEF Wanted
  <2>2. CASE max = 0
    BY <2>2 DEF Wanted
  <2> QED
    BY <2>1, <2>2
<1>2. \A k \in 1 .. max : F(k).kind = "get" /\ F(k).session = s /\ F(k).index = k - 1
  <2> TAKE k \in 1 .. max
  <2>1. 0 + k - 1 = k - 1
    OBVIOUS
  <2> QED
    BY <2>1
<1> HIDE DEF F
<1>3. Len(Wanted(u, s, max)) = max /\ \A k \in 1 .. max : Wanted(u, s, max)[k] = F(k)
  BY <1>1
<1> QED
  BY <1>2, <1>3

\* A client that has nothing more to ask for rests.
LEMMA AnsweredRests ==
    ASSUME Types, Counted, NEW u \in Users, IsAnswered(u), NEW requests \in Seq(RequestType),
           Len(requests) = 0, Answered(u, requests), UNCHANGED <<local, meta, finished>>,
           put'[u].typed = put[u].typed, \A v \in Users \ {u} : put'[v] = put[v],
           Settled, Complete
    PROVE  Orderly'
<1>1. requests = <<>>
  BY EmptySeq
<1>2. s2c[u] \in Seq(AnswerType) /\ Len(s2c[u]) = 1
  BY DEF IsAnswered, Types, LinkTypes
<1>3. OthersSame(u) /\ unanswered'[u] = 0 /\ c2s'[u] = <<>> /\ s2c'[u] = <<>>
  <2>1. c2s[u] = <<>> /\ unanswered[u] = 1
    BY DEF IsAnswered
  <2>2. /\ OthersSame(u) /\ unanswered'[u] = unanswered[u] + Len(requests) - 1
        /\ c2s'[u] = requests /\ s2c'[u] = Tail(s2c[u])
    BY <2>1, AnsweredSame
  <2>3. Tail(s2c[u]) = <<>>
    BY <1>2, OneTaken
  <2> QED
    BY <1>1, <2>1, <2>2, <2>3
<1>4. Only(u)' /\ Rests(u)'
  BY <1>3, OnlyKept DEF IsAnswered, Rests
<1>5. Settled' /\ AllWhole' /\ Complete' /\ ServerRests'
  BY SettledKept, WholeKept, CompleteKept
     DEF Answered, IsAnswered, ServerRests, serverVars, sessionVars, nodeVars, links
<1>6. Resting'
  BY <1>4, <1>5, OnlyRests DEF Resting, Only
<1> QED
  BY <1>5, <1>6 DEF Orderly

\* The requests for all fragments of a file.
AllOf(requests, kind, s, max) ==
    /\ Len(requests) = max
    /\ \A k \in 1 .. max : /\ requests[k].kind = kind /\ requests[k].session = s
                           /\ requests[k].index = k - 1

LEMMA FlowBegins ==
    ASSUME Types, Counted, NEW u \in Users, IsAnswered(u), NEW requests \in Seq(RequestType),
           NEW kind, NEW s, NEW max \in Nat, NEW t, t = nextTrans, max > 0,
           AllOf(requests, kind, s, max),
           Answered(u, requests),
           put'[u].typed = put[u].typed, \A v \in Users \ {u} : put'[v] = put[v]
    PROVE  Flow(u, kind, s, max, t, 0, 0, 0, 0)' /\ c2s'[u] = requests /\ t \in Nat
<1>1. s2c[u] \in Seq(AnswerType) /\ Len(s2c[u]) = 1
  BY DEF IsAnswered, Types, LinkTypes
<1>2. OthersSame(u) /\ unanswered'[u] = max /\ c2s'[u] = requests /\ s2c'[u] = <<>>
  <2>1. c2s[u] = <<>> /\ unanswered[u] = 1
    BY DEF IsAnswered
  <2>2. /\ OthersSame(u) /\ unanswered'[u] = unanswered[u] + Len(requests) - 1
        /\ c2s'[u] = requests /\ s2c'[u] = Tail(s2c[u])
    BY <2>1, AnsweredSame
  <2>3. Tail(s2c[u]) = <<>> /\ Len(requests) = max
    BY <1>1, OneTaken DEF AllOf
  <2> QED
    BY <2>1, <2>2, <2>3
<1>3. Only(u)'
  BY <1>2, OnlyKept DEF IsAnswered
<1>4. waits' = {} /\ s2n' = <<>> /\ n2s' = <<>> /\ nextTrans' = t
  BY DEF Answered, IsAnswered, ServerRests, serverVars, links
<1>5. DOMAIN requests = 1 .. max
  BY DEF AllOf
<1>6. Carries(requests, 0, max)
  BY <1>5 DEF Carries, AllOf
<1>7. Carries(<<>>, 0, 0)
  BY CarriesNothing
<1>8. \A m \in Messages(requests) : m.kind = kind /\ m.session = s
  BY <1>5 DEF Messages, AllOf
<1>9. Messages(<<>>) = {}
  BY DEF Messages
<1>10. t \in Nat
  BY DEF Types, ServerTypes
<1>11. ~put'[u].typed
  BY DEF IsAnswered
<1> QED
  BY <1>2, <1>3, <1>4, <1>6, <1>7, <1>8, <1>9, <1>10, <1>11 DEF Flow

LEMMA PutBegins ==
    ASSUME Types, Counted, Settled, NEW u \in Users, IsAnswered(u), ReadPutSession(u)
    PROVE  Orderly'
<1> DEFINE m == Head(s2c[u])
<1>1. PICK s, max, t : s = m.session /\ max = put[u].max /\ t = nextTrans
  OBVIOUS
<1>2. /\ put' = [put EXCEPT ![u] = [@ EXCEPT !.session = s]]
      /\ Answered(u, Remaining(u, s, m.next)) /\ UNCHANGED <<get, local, meta, finished>>
  BY <1>1 DEF ReadPutSession
<1>3. /\ m.ok /\ IsPut(u, s) /\ m.next = sessions[s].next /\ m.next \in {0, max}
      /\ IsOpen(sessions[s].node, PutName(u), max)
  BY <1>1 DEF ReadPutSession, IsAnswered, AnswerOf
<1>4. s \in Nat /\ max \in Nat
  <2>1. s \in DOMAIN sessions /\ sessions \in Seq(SessionType)
    BY <1>3 DEF IsPut, Types, ServerTypes
  <2>2. max \in Nat
    BY <1>1, ClientFields DEF Types
  <2> QED
    BY <2>1, <2>2
<1>5. /\ \A v \in Users \ {u} : put'[v] = put[v]
      /\ put'[u].typed = put[u].typed /\ put'[u].path = put[u].path
      /\ put'[u].file = put[u].file /\ put'[u].max = put[u].max
  <2> DEFINE new == [put[u] EXCEPT !.session = s]
  <2>1. put \in [Users -> PutType] /\ put' = [put EXCEPT ![u] = new]
    BY <1>2 DEF Types, ClientTypes
  <2>2. put[u] \in PutType
    BY <2>1
  <2>3. /\ new.typed = put[u].typed /\ new.path = put[u].path
        /\ new.file = put[u].file /\ new.max = put[u].max
    BY <2>2 DEF PutType
  <2> HIDE DEF new
  <2>4. put'[u] = new /\ \A v \in Users \ {u} : put'[v] = put[v]
    BY <2>1
  <2> QED
    BY <2>3, <2>4
<1>6. CASE m.next = max
  <2>1. /\ Remaining(u, s, max) \in Seq(RequestType) /\ Len(Remaining(u, s, max)) = 0
        /\ Answered(u, Remaining(u, s, max))
    BY <1>1, <1>2, <1>4, <1>6, RemainingTyped, RemainingAll DEF Types
  <2>2. Complete
    BY <1>1, <1>3, <1>6 DEF IsPut, CompleteBut, Complete
  <2> QED
    BY <1>2, <1>5, <2>1, <2>2, AnsweredRests
<1>7. CASE m.next # max
  <2>1. PICK requests : requests = Remaining(u, s, 0)
    OBVIOUS
  <2>2. max > 0 /\ m.next = 0
    BY <1>3, <1>4, <1>7
  <2>3. /\ requests \in Seq(RequestType) /\ Answered(u, requests) /\ Len(requests) = max
        /\ \A k \in 1 .. max : /\ requests[k].kind = "put" /\ requests[k].session = s
                               /\ requests[k].index = k - 1
                               /\ requests[k].data = Fragment(put[u].file, k - 1)
    <3>1. requests \in Seq(RequestType) /\ Answered(u, requests)
      BY <1>2, <1>4, <2>1, <2>2, RemainingTyped DEF Types
    <3>2. /\ Len(requests) = max
          /\ \A k \in 1 .. max : LET r == requests[k]
                                 IN  /\ r.kind = "put" /\ r.session = s /\ r.index = k - 1
                                     /\ r.data = Fragment(put[u].file, k - 1)
      BY <1>1, <1>4, <2>1, <2>2, RemainingAll DEF Types
    <3> QED
      BY <3>1, <3>2
  <2>4. Flow(u, "put", s, max, t, 0, 0, 0, 0)' /\ c2s'[u] = requests /\ t \in Nat
    <3>1. AllOf(requests, "put", s, max)
      BY <2>3 DEF AllOf
    <3>2. /\ requests \in Seq(RequestType) /\ Answered(u, requests)
          /\ t = nextTrans /\ put'[u].typed = put[u].typed
          /\ \A v \in Users \ {u} : put'[v] = put[v]
      BY <1>1, <1>5, <2>3
    <3> HIDE DEF m
    <3> QED
      BY <1>4, <2>2, <3>1, <3>2, FlowBegins
  <2>5. UNCHANGED <<sessions, tree, nodeSessions, s2n, opened, files, disk, online, crashed>>
    BY <2>3 DEF Answered, serverVars, sessionVars, nodeVars, links
  <2>6. IsPut(u, s)' /\ PutName(u)' = PutName(u)
    BY <1>3, <1>5, <2>5 DEF IsPut, Chosen, CompleteBut, PutName
  <2>7. IsOpen(sessions[s].node, PutName(u), put[u].max)'
    BY <1>1, <1>3, <1>5, <2>5, <2>6 DEF IsOpen
  <2>8. DOMAIN requests = 1 .. max
    BY <2>3, <1>4
  <2>9. \A r \in Messages(requests) : r.data = Fragment(put'[u].file, r.index)
    BY <1>5, <2>3, <2>8 DEF Messages
  <2>10. s2n' = <<>> /\ Messages(<<>>) = {}
    BY <2>5 DEF IsAnswered, ServerRests, Messages
  <2>11. Holds(PutName(u), put[u].file, 0)'
    BY DEF Holds
  <2>12. AllWhole' /\ Settled'
    BY <1>2, <2>5, WholeKept, SettledKept DEF IsAnswered
  <2>13. sessions'[s].next = 0
    BY <1>3, <2>2, <2>5
  <2>14. PutFlow(u, s, t, 0, 0, 0, 0)'
    BY <1>1, <1>5, <2>4, <2>6, <2>7, <2>9, <2>10, <2>11, <2>12, <2>13 DEF PutFlow, AllWhole
  <2>15. Puts(u)'
    BY <1>4, <2>4, <2>14 DEF Puts
  <2> QED
    BY <2>12, <2>15 DEF Orderly, Serves
<1> QED
  BY <1>6, <1>7

LEMMA GetBegins ==
    ASSUME Types, Counted, Settled, NEW u \in Users, IsAnswered(u), ReadGetSession(u)
    PROVE  Orderly'
<1> DEFINE m == Head(s2c[u])
<1>1. PICK s, max, t, requests :
         s = m.session /\ max = m.max /\ t = nextTrans /\ requests = Wanted(u, s, max)
  OBVIOUS
<1>2. /\ get' = [get EXCEPT ![u] = [@ EXCEPT !.session = s, !.max = max]]
      /\ Answered(u, requests) /\ UNCHANGED <<put, local, meta, finished>>
  BY <1>1 DEF ReadGetSession
<1>3. /\ m.ok /\ IsGet(u, s) /\ Fresh(u)
      /\ max = Len(disk[GetName(u)]) /\ IsOpen(sessions[s].node, GetName(u), max)
  BY <1>1 DEF ReadGetSession, IsAnswered, AnswerOf
<1>4. GetName(u) \in Names /\ disk[GetName(u)] \in Seq(Data)
  BY <1>3, TransferAssumption DEF Fresh, GetName, Types, NodeTypes
<1>5. s \in Nat /\ max \in Nat
  BY <1>3, <1>4 DEF IsGet, Types, ServerTypes
<1>6. get'[u].path = get[u].path /\ get'[u].max = max
  BY <1>2 DEF Types, ClientTypes
<1>7. meta[u][get[u].path] = 0
  BY <1>3 DEF Settled, Fresh
<1>8. /\ requests \in Seq(RequestType) /\ Len(requests) = max
      /\ \A k \in 1 .. max : /\ requests[k].kind = "get" /\ requests[k].session = s
                             /\ requests[k].index = k - 1
  <2>1. get[u].path \in Paths /\ ClientTypes
    BY <1>3 DEF Fresh, Types
  <2>2. requests \in Seq(RequestType)
    BY <1>1, <1>5, <2>1, WantedTyped
  <2>3. /\ Len(requests) = max
        /\ \A k \in 1 .. max : LET r == requests[k]
                               IN  r.kind = "get" /\ r.session = s /\ r.index = k - 1
    BY <1>1, <1>5, <1>7, <2>1, WantedAll
  <2> QED
    BY <2>2, <2>3
<1>9. CASE max = 0
  <2>1. Complete
    BY <1>3 DEF IsGet
  <2> QED
    BY <1>2, <1>8, <1>9, <2>1, AnsweredRests
<1>10. CASE max > 0
  <2>1. Flow(u, "get", s, max, t, 0, 0, 0, 0)' /\ t \in Nat
    <3>1. /\ requests \in Seq(RequestType) /\ AllOf(requests, "get", s, max)
          /\ Answered(u, requests) /\ t = nextTrans /\ put'[u].typed = put[u].typed
          /\ \A v \in Users \ {u} : put'[v] = put[v]
      BY <1>1, <1>2, <1>8 DEF AllOf
    <3> QED
      BY <1>5, <1>10, <3>1, FlowBegins
  <2>2. /\ UNCHANGED <<sessions, tree, nodeSessions, s2n, n2s, opened, files, disk, online, crashed>>
        /\ s2c' = [s2c EXCEPT ![u] = Tail(@)]
    BY <1>2 DEF Answered, serverVars, sessionVars, nodeVars, links
  <2>3. IsGet(u, s)' /\ GetName(u)' = GetName(u)
    BY <1>3, <1>6, <2>2 DEF IsGet, Complete, GetName
  <2>4. IsOpen(sessions[s].node, GetName(u), get[u].max)' /\ get'[u].max = Len(disk'[GetName(u)'])
    BY <1>3, <1>6, <2>2, <2>3 DEF IsOpen
  <2>5. s2n' = <<>> /\ n2s' = <<>> /\ s2c'[u] = <<>> /\ Messages(<<>>) = {}
    <3>1. s2c[u] \in Seq(AnswerType) /\ Len(s2c[u]) = 1
      BY DEF IsAnswered, Types, LinkTypes
    <3>2. s2c'[u] = <<>>
      BY <2>2, <3>1, OneTaken DEF Types, LinkTypes
    <3> QED
      BY <2>2, <3>2 DEF IsAnswered, ServerRests, Messages
  <2>6. AllWhole' /\ Settled'
    BY <1>2, <2>2, WholeKept, SettledKept DEF IsAnswered
  <2>7. GetName(u)' \in files'
    <3>1. disk[GetName(u)] # <<>>
      BY <1>3, <1>4, <1>10
    <3>2. GetName(u) \in files
      BY <1>4, <3>1 DEF Settled
    <3> QED
      BY <2>2, <2>3, <3>2
  <2>8. local'[u][get'[u].path] = SubSeq(disk'[GetName(u)'], 1, 0)
    <3>1. SubSeq(disk[GetName(u)], 1, 0) = <<>>
      BY <1>4
    <3> QED
      BY <1>2, <1>3, <1>6, <2>2, <2>3, <3>1 DEF Fresh
  <2>9. GetFlow(u, s, t, 0, 0, 0, 0)'
    BY <1>6, <2>1, <2>3, <2>4, <2>5, <2>6, <2>7, <2>8 DEF GetFlow
  <2>10. Gets(u)'
    BY <1>5, <2>1, <2>9 DEF Gets
  <2> QED
    BY <2>6, <2>10 DEF Orderly, Serves
<1> QED
  BY <1>5, <1>9, <1>10

LEMMA AnsweredClient ==
    ASSUME Types, Counted, Settled, NEW u \in Users, IsAnswered(u), Client(u)
    PROVE  Orderly'
<1>1. ~PutRequest(u)
  BY DEF PutRequest, IsAnswered
<1>2. ~ReadPut(u) /\ ~ReadGet(u)
  BY DEF ReadPut, ReadGet, IsAnswered, AnswerOf
<1>3. CASE ReadError(u)
  <2>1. Complete
    BY <1>3 DEF ReadError, IsAnswered, AnswerOf
  <2>2. Answered(u, <<>>) /\ UNCHANGED <<put, local, meta, finished>>
    BY <1>3 DEF ReadError, clientVars
  <2>3. <<>> \in Seq(RequestType) /\ Len(<<>>) = 0
    OBVIOUS
  <2> QED
    BY <2>1, <2>2, <2>3, AnsweredRests
<1> QED
  BY <1>1, <1>2, <1>3, PutBegins, GetBegins DEF Client

-----------------------------------------------------------------------------
(* What is undisturbed: the fragments of a file, one step further *)

LEMMA FlowRead ==
    ASSUME Types, Counted, NEW u \in Users, NEW kind, NEW s, NEW max \in Nat, NEW t \in Nat,
           NEW h \in Nat, NEW i \in Nat, NEW j \in Nat, NEW f \in Nat,
           Flow(u, kind, s, max, t, h, i, j, f), Answered(u, <<>>), UNCHANGED put
    PROVE  /\ h < i /\ Head(s2c[u]).index = h /\ Head(s2c[u]).ok /\ Head(s2c[u]).kind = kind
           /\ Head(s2c[u]) \in Messages(s2c[u]) /\ Messages(s2c'[u]) \subseteq Messages(s2c[u])
           /\ UNCHANGED <<c2s, s2n, n2s>> /\ unanswered'[u] + h + 1 = max
           /\ h + 1 < max => Flow(u, kind, s, max, t, h + 1, i, j, f)'
           /\ h + 1 >= max => /\ i = max /\ j = max /\ f = max
                              /\ Rests(u)' /\ Only(u)' /\ ServerRests'
<1>1. /\ s2c[u] \in Seq(AnswerType) /\ s2c[u] # <<>>
      /\ c2s[u] \in Seq(RequestType) /\ s2n \in Seq(OrderType) /\ n2s \in Seq(ResultType)
  BY DEF Types, LinkTypes, NodeTypes, Answered
<1>2. Carries(s2c[u], h, i) /\ Carries(n2s, i, j) /\ Carries(s2n, j, f) /\ Carries(c2s[u], f, max)
  BY DEF Flow
<1>3. h < i /\ Head(s2c[u]).index = h /\ Carries(Tail(s2c[u]), h + 1, i)
  BY <1>1, <1>2, CarriesHead
<1>4. Head(s2c[u]) \in Messages(s2c[u]) /\ Messages(Tail(s2c[u])) \subseteq Messages(s2c[u])
      /\ Tail(s2c[u]) \in Seq(AnswerType)
  BY <1>1, HeadTaken
<1>5. Head(s2c[u]).ok /\ Head(s2c[u]).kind = kind
  BY <1>4 DEF Flow
<1>6. /\ UNCHANGED <<s2n, n2s, waits, nextTrans, put>>
      /\ s2c'[u] = Tail(s2c[u]) /\ c2s' = c2s
      /\ \A v \in Users \ {u} : s2c'[v] = s2c[v]
  <2>1. UNCHANGED <<s2n, n2s, waits, nextTrans, put>>
    BY DEF Answered, serverVars, links
  <2>2. s2c'[u] = Tail(s2c[u]) /\ \A v \in Users \ {u} : s2c'[v] = s2c[v]
    BY DEF Answered, Types, LinkTypes
  <2>3. c2s' = [c2s EXCEPT ![u] = @ \o <<>>] /\ c2s \in [Users -> Seq(RequestType)]
    BY DEF Answered, Types, LinkTypes
  <2>4. c2s[u] \o <<>> = c2s[u]
    BY <1>1
  <2>5. c2s' = c2s
    BY <2>3, <2>4
  <2> QED
    BY <2>1, <2>2, <2>5
<1>7. /\ \A v \in Users \ {u} : unanswered'[v] = unanswered[v]
      /\ unanswered'[u] = unanswered[u] - 1 /\ unanswered[u] \in Nat
  <2>1. unanswered' = [unanswered EXCEPT ![u] = @ + 0 - 1] /\ unanswered \in [Users -> Nat]
    BY DEF Answered, Counted
  <2> QED
    BY <2>1
<1>8. Only(u)'
  BY <1>6, <1>7, OnlyKept DEF OthersSame, Flow
<1>9. unanswered'[u] + h + 1 = max
  BY <1>7 DEF Flow
<1>10. i <= j /\ j <= f /\ f <= max /\ nextTrans = t + f /\ ~put[u].typed
  BY DEF Flow
<1>11. ASSUME h + 1 < max
       PROVE  Flow(u, kind, s, max, t, h + 1, i, j, f)'
  <2>1. h + 1 <= i /\ unanswered'[u] + (h + 1) = max
    BY <1>3, <1>7, <1>9
  <2>2. \A m \in Messages(s2c'[u]) : m.kind = kind /\ m.ok
    BY <1>4, <1>6 DEF Flow
  <2>3. Carries(s2c'[u], h + 1, i)
    BY <1>3, <1>6
  <2> QED
    BY <1>2, <1>6, <1>8, <1>10, <1>11, <2>1, <2>2, <2>3 DEF Flow
<1>12. ASSUME h + 1 >= max
       PROVE  i = max /\ j = max /\ f = max /\ Rests(u)' /\ Only(u)' /\ ServerRests'
  <2>1. i = max /\ j = max /\ f = max /\ h + 1 = i
    BY <1>3, <1>10, <1>12
  <2>2. Tail(s2c[u]) = <<>> /\ n2s = <<>> /\ s2n = <<>> /\ c2s[u] = <<>>
    <3>1. Tail(s2c[u]) = <<>>
      BY <1>3, <1>4, <2>1, CarriesEnds
    <3>2. n2s = <<>>
      BY <1>1, <1>2, <2>1, CarriesEnds
    <3>3. s2n = <<>>
      BY <1>1, <1>2, <2>1, CarriesEnds
    <3>4. c2s[u] = <<>>
      BY <1>1, <1>2, <2>1, CarriesEnds
    <3> QED
      BY <3>1, <3>2, <3>3, <3>4
  <2>3. waits = {}
    <3> SUFFICES ASSUME NEW w \in waits PROVE FALSE
      OBVIOUS
    <3>1. w.id \in Nat /\ w.id < nextTrans
      BY WaitFields DEF Types
    <3>2. w.id >= t + i
      BY DEF Flow
    <3> QED
      BY <1>10, <2>1, <3>1, <3>2
  <2>4. unanswered'[u] = 0
    BY <1>7, <1>9, <1>3, <1>10, <2>1
  <2> QED
    BY <1>6, <1>8, <1>10, <2>1, <2>2, <2>3, <2>4 DEF Rests, ServerRests
<1> QED
  BY <1>3, <1>4, <1>5, <1>6, <1>9, <1>11, <1>12

\* The last answer.
LEMMA FlowReadLast ==
    ASSUME Types, Counted, NEW u \in Users, NEW kind, NEW s, NEW max \in Nat, NEW t \in Nat,
           NEW h \in Nat, NEW i \in Nat, NEW j \in Nat, NEW f \in Nat,
           Flow(u, kind, s, max, t, h, i, j, f), Answered(u, <<>>), UNCHANGED put, h + 1 >= max
    PROVE  j = max /\ f = max /\ Rests(u)' /\ Only(u)' /\ ServerRests'
<1>1. h < i
  BY FlowRead
<1>2. j = max /\ f = max
  BY <1>1 DEF Flow
<1>3. Rests(u)' /\ Only(u)' /\ ServerRests'
  BY FlowRead
<1> QED
  BY <1>1, <1>2, <1>3

LEMMA FlowRequest ==
    ASSUME Types, NEW u \in Users, NEW kind, NEW s, NEW max \in Nat, NEW t \in Nat,
           NEW h \in Nat, NEW i \in Nat, NEW j \in Nat, NEW f \in Nat,
           Flow(u, kind, s, max, t, h, i, j, f), NEW p,
           NEW order \in OrderType, order.kind = kind, order.trans = nextTrans,
           order.index = Head(c2s[u]).index,
           Received(u, kind), Wait(u, kind, s, p, order)
    PROVE  /\ f < max /\ Flow(u, kind, s, max, t, h, i, j, f + 1)'
           /\ Messages(c2s'[u]) \subseteq Messages(c2s[u])
           /\ Messages(s2n') = Messages(s2n) \cup {order} /\ UNCHANGED s2c
<1>1. /\ c2s[u] \in Seq(RequestType) /\ c2s[u] # <<>>
      /\ s2c[u] \in Seq(AnswerType) /\ s2n \in Seq(OrderType) /\ n2s \in Seq(ResultType)
  BY DEF Types, LinkTypes, NodeTypes, Received
<1>2. Carries(s2c[u], h, i) /\ Carries(n2s, i, j) /\ Carries(s2n, j, f) /\ Carries(c2s[u], f, max)
  BY DEF Flow
<1>3. f < max /\ Head(c2s[u]).index = f /\ Carries(Tail(c2s[u]), f + 1, max)
  BY <1>1, <1>2, CarriesHead
<1>4. Messages(Tail(c2s[u])) \subseteq Messages(c2s[u])
  BY <1>1, HeadTaken
<1>5. /\ c2s'[u] = Tail(c2s[u]) /\ \A v \in Users \ {u} : c2s'[v] = c2s[v]
      /\ UNCHANGED <<put, n2s, unanswered>>
  BY ReceivedSame
<1>6. /\ waits' = waits \cup {[id |-> nextTrans, kind |-> kind, user |-> u, session |-> s, path |-> p]}
      /\ nextTrans' = nextTrans + 1 /\ s2n' = Append(s2n, order) /\ UNCHANGED s2c
  BY DEF Wait
<1>7. Messages(s2n') = Messages(s2n) \cup {order} /\ Carries(s2n', j, f + 1)
  BY <1>1, <1>2, <1>3, <1>6, Appended, CarriesMore
<1>8. Only(u)'
  BY <1>5, <1>6, OnlyKept DEF OthersSame, Flow
<1>9. h <= i /\ i <= j /\ j <= f /\ nextTrans = t + f /\ ~put[u].typed
  BY DEF Flow
<1>10. PICK w : w = [id |-> nextTrans, kind |-> kind, user |-> u, session |-> s, path |-> p]
  OBVIOUS
<1>11. /\ waits' = waits \cup {w} /\ w.id = t + f /\ w.kind = kind /\ w.user = u
  BY <1>6, <1>9, <1>10
<1>12. \A x \in waits' : x.user = u /\ x.kind = kind /\ x.id >= t + i
  <2>1. t + f >= t + i
    BY <1>9
  <2> QED
    BY <1>11, <2>1 DEF Flow
<1>13. \A x \in i .. (f + 1) - 1 : \E y \in waits' : y.id = t + x
  <2> TAKE x \in i .. (f + 1) - 1
  <2>1. CASE x = f
    BY <1>11, <2>1
  <2>2. CASE x # f
    <3>1. x \in i .. f - 1
      BY <2>2
    <3> QED
      BY <1>11, <3>1 DEF Flow
  <2> QED
    BY <2>1, <2>2
<1>14. \A m \in Messages(s2n') : m.kind = kind /\ m.trans = t + m.index
  BY <1>3, <1>7, <1>9 DEF Flow
<1>15. /\ nextTrans' = t + (f + 1) /\ j <= f + 1 /\ f + 1 <= max
  BY <1>3, <1>6, <1>9
<1>16. Flow(u, kind, s, max, t, h, i, j, f + 1)'
  BY <1>2, <1>3, <1>4, <1>5, <1>6, <1>7, <1>8, <1>9, <1>12, <1>13, <1>14, <1>15 DEF Flow
<1> QED
  BY <1>3, <1>4, <1>5, <1>6, <1>7, <1>16

LEMMA FlowNode ==
    ASSUME Types, NEW u \in Users, NEW kind, NEW s, NEW max \in Nat, NEW t \in Nat,
           NEW h \in Nat, NEW i \in Nat, NEW j \in Nat, NEW f \in Nat,
           Flow(u, kind, s, max, t, h, i, j, f),
           NEW result \in ResultType, result.ok, result.trans = Head(s2n).trans,
           result.index = Head(s2n).index,
           NEW type, NodeReceived(type), NodeReply(result)
    PROVE  /\ j < f /\ Flow(u, kind, s, max, t, h, i, j + 1, f)'
           /\ Messages(s2n') \subseteq Messages(s2n)
           /\ Messages(n2s') = Messages(n2s) \cup {result}
<1>1. /\ s2n \in Seq(OrderType) /\ n2s \in Seq(ResultType) /\ s2n # <<>>
      /\ s2n' = Tail(s2n) /\ n2s' = Append(n2s, result)
  BY DEF Types, NodeTypes, NodeReceived, NodeReply
<1>2. Carries(n2s, i, j) /\ Carries(s2n, j, f)
  BY DEF Flow
<1>3. j < f /\ Head(s2n).index = j /\ Carries(Tail(s2n), j + 1, f)
  BY <1>1, <1>2, CarriesHead
<1>4. Messages(s2n') \subseteq Messages(s2n) /\ Head(s2n) \in Messages(s2n)
  BY <1>1, HeadTaken
<1>5. Messages(n2s') = Messages(n2s) \cup {result} /\ Carries(n2s', i, j + 1)
  BY <1>1, <1>2, <1>3, Appended, CarriesMore
<1>6. result.trans = t + result.index
  BY <1>4 DEF Flow
<1>7. \A m \in Messages(n2s') : m.ok /\ m.trans = t + m.index
  BY <1>5, <1>6 DEF Flow
<1>8. UNCHANGED <<put, c2s, s2c, waits, nextTrans, unanswered>>
  BY NodeReceivedSame
<1>9. Only(u)'
  BY <1>8, OnlyKept DEF OthersSame, Flow
<1>10. i <= j + 1 /\ j + 1 <= f
  BY <1>3 DEF Flow
<1>11. Flow(u, kind, s, max, t, h, i, j + 1, f)'
  BY <1>1, <1>3, <1>4, <1>5, <1>7, <1>8, <1>9, <1>10 DEF Flow
<1> QED
  BY <1>3, <1>4, <1>5, <1>11

LEMMA FlowAnswer ==
    ASSUME Types, NEW u \in Users, NEW kind, NEW s, NEW max \in Nat, NEW t \in Nat,
           NEW h \in Nat, NEW i \in Nat, NEW j \in Nat, NEW f \in Nat,
           Flow(u, kind, s, max, t, h, i, j, f),
           NEW w \in waits, NEW answer \in AnswerType, answer.ok, answer.kind = kind,
           answer.index = Head(n2s).index,
           NEW type, Activated(w, type), Reply(w, answer)
    PROVE  /\ i < j /\ Flow(u, kind, s, max, t, h, i + 1, j, f)'
           /\ Messages(n2s') \subseteq Messages(n2s)
<1>1. /\ n2s \in Seq(ResultType) /\ n2s # <<>> /\ Head(n2s).trans = w.id
      /\ s2c[u] \in Seq(AnswerType)
  BY DEF Types, NodeTypes, LinkTypes, Activated
<1>2. Carries(n2s, i, j) /\ Carries(s2c[u], h, i) /\ w.user = u
  BY DEF Flow
<1>3. i < j /\ Head(n2s).index = i /\ Carries(Tail(n2s), i + 1, j)
  BY <1>1, <1>2, CarriesHead
<1>4. Messages(Tail(n2s)) \subseteq Messages(n2s) /\ Head(n2s) \in Messages(n2s)
  BY <1>1, HeadTaken
<1>5. /\ waits' = waits \ {w} /\ n2s' = Tail(n2s)
      /\ UNCHANGED <<put, c2s, s2n, nextTrans, unanswered>>
  BY ActivatedSame
<1>6. s2c'[u] = Append(s2c[u], answer) /\ \A v \in Users \ {u} : s2c'[v] = s2c[v]
  BY <1>2, ReplySame
<1>7. Messages(s2c'[u]) = Messages(s2c[u]) \cup {answer} /\ Carries(s2c'[u], h, i + 1)
  BY <1>1, <1>2, <1>3, <1>6, Appended, CarriesMore
<1>8. Only(u)'
  BY <1>5, <1>6, OnlyKept DEF OthersSame, Flow
<1>9. w.id = t + i
  BY <1>1, <1>3, <1>4 DEF Flow
<1>10. \A x \in waits' : x.user = u /\ x.kind = kind /\ x.id >= t + (i + 1)
  <2> TAKE x \in waits'
  <2>1. x \in waits /\ x # w
    BY <1>5
  <2>2. x.id # w.id /\ x.id \in Nat
    BY <2>1, WaitFields DEF Types, Matched
  <2>3. x.user = u /\ x.kind = kind /\ x.id >= t + i
    BY <2>1 DEF Flow
  <2> QED
    BY <1>9, <2>2, <2>3
<1>11. \A x \in i + 1 .. f - 1 : \E y \in waits' : y.id = t + x
  <2> TAKE x \in i + 1 .. f - 1
  <2>1. x \in i .. f - 1 /\ t + x # t + i
    OBVIOUS
  <2>2. PICK y \in waits : y.id = t + x
    BY <2>1 DEF Flow
  <2> QED
    BY <1>5, <1>9, <2>1, <2>2
<1>12. \A m \in Messages(s2c'[u]) : m.kind = kind /\ m.ok
  BY <1>7 DEF Flow
<1>13. h <= i + 1 /\ i + 1 <= j
  BY <1>3 DEF Flow
<1>14. Flow(u, kind, s, max, t, h, i + 1, j, f)'
  BY <1>3, <1>4, <1>5, <1>7, <1>8, <1>10, <1>11, <1>12, <1>13 DEF Flow
<1> QED
  BY <1>3, <1>4, <1>5, <1>7, <1>14

\* Somebody waits for what the node answers.
LEMMA FlowAwaited ==
    ASSUME Types, NEW u \in Users, NEW kind, NEW s, NEW max \in Nat, NEW t \in Nat,
           NEW h \in Nat, NEW i \in Nat, NEW j \in Nat, NEW f \in Nat,
           Flow(u, kind, s, max, t, h, i, j, f), Answer
    PROVE  \E w \in waits : /\ w.kind = kind
                            /\ PutSessionOnActive(w) \/ PutOnActive(w)
                               \/ GetSessionOnActive(w) \/ GetOnActive(w)
<1>1. n2s \in Seq(ResultType) /\ n2s # <<>>
  BY AnswerNeeds DEF Types, NodeTypes
<1>2. i < j /\ Head(n2s).index = i /\ Head(n2s) \in Messages(n2s)
  BY <1>1, CarriesHead, HeadTaken DEF Flow
<1>3. Head(n2s).trans = t + i
  BY <1>2 DEF Flow
<1>4. i \in i .. f - 1
  BY <1>2 DEF Flow
<1>5. \E w \in waits : w.id = Head(n2s).trans
  BY <1>3, <1>4 DEF Flow
<1> QED
  BY <1>5, AnswerNeeds DEF Flow
-----------------------------------------------------------------------------
(* What is undisturbed: the fragments of a put *)

LEMMA PutFields ==
    ASSUME Types, NEW u \in Users, NEW s, IsPut(u, s)
    PROVE  /\ PutName(u) \in Names /\ put[u].file \in Files /\ put[u].max \in Nat
           /\ put[u].max = Size[put[u].file]
           /\ s \in DOMAIN sessions /\ sessions[s] \in SessionType /\ sessions[s].next \in Nat
           /\ sessions[s].node \in Nat /\ sessions[s].path \in Paths
<1>1. Chosen(u) /\ s \in DOMAIN sessions /\ sessions[s].type = "put"
  BY DEF IsPut
<1>2. sessions[s] \in SessionType
  BY <1>1 DEF Types, ServerTypes
<1> QED
  BY <1>1, <1>2, SessionFields, ClientFields, TransferAssumption DEF Chosen, PutName, Types

\* The last answer is read: the put is whole.
LEMMA PutsRead ==
    ASSUME Types, Counted, Settled, NEW u \in Users, NEW s \in Nat, NEW t \in Nat,
           NEW h \in Nat, NEW i \in Nat, NEW j \in Nat, NEW f \in Nat,
           PutFlow(u, s, t, h, i, j, f), ReadPut(u)
    PROVE  Orderly'
<1>1. PICK max, name, file : max = put[u].max /\ name = PutName(u) /\ file = put[u].file
  OBVIOUS
<1>2. /\ Answered(u, <<>>) /\ UNCHANGED clientVars
      /\ finished' = IF Head(s2c[u]).index + 1 >= max
                     THEN [finished EXCEPT ![name] = file] ELSE finished
  BY <1>1 DEF ReadPut, PutName
<1>3. /\ Flow(u, "put", s, max, t, h, i, j, f) /\ IsPut(u, s) /\ sessions[s].next = f
      /\ j < max => IsOpen(sessions[s].node, name, max)
      /\ \A m \in Messages(c2s[u]) : m.data = Fragment(file, m.index)
      /\ \A m \in Messages(s2n) : m.data = Fragment(file, m.index) /\ m.node = sessions[s].node
      /\ Holds(name, file, j)
      /\ \A n \in Names \ {name} : Whole(n)
  BY <1>1 DEF PutFlow
<1>4. /\ name \in Names /\ file \in Files /\ max \in Nat /\ max = Size[file]
  BY <1>1, <1>3, PutFields
<1>5. UNCHANGED <<put, get, local, meta, sessions, nodeSessions, opened, files, disk, online,
                  crashed, tree>>
  BY <1>2 DEF Answered, clientVars, serverVars, sessionVars, nodeVars
<1>6. /\ Head(s2c[u]).index = h /\ UNCHANGED <<c2s, s2n>>
      /\ h + 1 < max => Flow(u, "put", s, max, t, h + 1, i, j, f)'
      /\ h + 1 >= max => /\ j = max /\ f = max /\ Rests(u)' /\ Only(u)' /\ ServerRests'
  <2>1. Answered(u, <<>>) /\ UNCHANGED put /\ Flow(u, "put", s, max, t, h, i, j, f)
    BY <1>2, <1>3, <1>5
  <2>2. Head(s2c[u]).index = h /\ UNCHANGED <<c2s, s2n>>
    BY <1>4, <2>1, FlowRead
  <2>3. h + 1 < max => Flow(u, "put", s, max, t, h + 1, i, j, f)'
    BY <1>4, <2>1, FlowRead
  <2>4. ASSUME h + 1 >= max
        PROVE  j = max /\ f = max /\ Rests(u)' /\ Only(u)' /\ ServerRests'
    BY <1>4, <2>1, <2>4, FlowReadLast
  <2> QED
    BY <2>2, <2>3, <2>4
<1>7. CASE h + 1 < max
  <2>1. UNCHANGED finished
    BY <1>2, <1>4, <1>6, <1>7
  <2>2. Settled'
    BY <1>5, <2>1, SettledKept
  <2>3. /\ IsPut(u, s)' /\ PutName(u)' = name /\ put'[u].max = max /\ put'[u].file = file
    BY <1>1, <1>3, <1>5, SessionsSame, <1>2 DEF PutName, IsPut, Chosen, CompleteBut
  <2>4. /\ IsOpen(sessions[s].node, name, max)' <=> IsOpen(sessions[s].node, name, max)
        /\ Holds(name, file, j)' <=> Holds(name, file, j)
        /\ \A n \in Names \ {name} : Whole(n)'
    BY <1>3, <1>5, <2>1 DEF IsOpen, Holds, Whole
  <2>5. PutFlow(u, s, t, h + 1, i, j, f)'
    BY <1>3, <1>5, <1>6, <1>7, <2>3, <2>4 DEF PutFlow
  <2>6. Puts(u)'
    BY <2>5 DEF Puts
  <2> QED
    BY <2>2, <2>6 DEF Orderly, Serves
<1>8. CASE h + 1 >= max
  <2>1. finished' = [finished EXCEPT ![name] = file]
    BY <1>2, <1>6, <1>8
  <2>2. /\ finished' \in [Names -> Files \cup {""}] /\ finished'[name] = file
        /\ \A n \in Names \ {name} : finished'[n] = finished[n]
    BY <1>4, <2>1 DEF Settled
  <2>3. Settled'
    BY <1>5, <2>2 DEF Settled
  <2>4. Complete'
    BY <1>1, <1>3, <1>5, <1>6, <1>8 DEF Complete, IsPut, CompleteBut
  <2>5. AllWhole'
    <3>1. Whole(name)'
      BY <1>3, <1>4, <1>5, <1>6, <1>8, <2>2 DEF Whole, Holds
    <3>2. \A n \in Names \ {name} : Whole(n)'
      BY <1>3, <1>5, <2>2 DEF Whole, Holds
    <3> QED
      BY <3>1, <3>2 DEF AllWhole
  <2>6. Resting'
    BY <1>6, <1>8, <2>4, <2>5, OnlyRests DEF Resting, Only
  <2> QED
    BY <2>3, <2>6 DEF Orderly
<1> QED
  BY <1>4, <1>7, <1>8

LEMMA PutsRequest ==
    ASSUME Types, Counted, Settled, NEW u \in Users, NEW s \in Nat, NEW t \in Nat,
           NEW h \in Nat, NEW i \in Nat, NEW j \in Nat, NEW f \in Nat,
           PutFlow(u, s, t, h, i, j, f), PutOnInit(u)
    PROVE  Orderly'
<1> DEFINE m == Head(c2s[u])
<1>1. PICK max, name, file, node : /\ max = put[u].max /\ name = PutName(u) /\ file = put[u].file
                                   /\ node = sessions[s].node
  OBVIOUS
<1>2. /\ Flow(u, "put", s, max, t, h, i, j, f) /\ IsPut(u, s) /\ sessions[s].next = f
      /\ j < max => IsOpen(node, name, max)
      /\ \A x \in Messages(c2s[u]) : x.data = Fragment(file, x.index)
      /\ \A x \in Messages(s2n) : x.data = Fragment(file, x.index) /\ x.node = node
      /\ Holds(name, file, j)
      /\ \A n \in Names \ {name} : Whole(n)
  BY <1>1 DEF PutFlow
<1>3. /\ name \in Names /\ file \in Files /\ max \in Nat
      /\ s \in DOMAIN sessions /\ sessions[s] \in SessionType /\ node \in Nat
      /\ sessions[s].type = "put" /\ sessions[s].user = u
  BY <1>1, <1>2, PutFields DEF IsPut
<1>4. Received(u, "put") /\ c2s[u] # <<>>
  BY DEF PutOnInit, Received
<1>5. c2s[u] \in Seq(RequestType) /\ m \in Messages(c2s[u]) /\ m \in RequestType
  <2>1. c2s[u] \in Seq(RequestType)
    BY DEF Types, LinkTypes
  <2> QED
    BY <1>4, <2>1, HeadTaken
<1>6. m.session = s /\ m.kind = "put" /\ m.data = Fragment(file, m.index)
  BY <1>2, <1>5 DEF Flow
<1>7. m.index = f /\ m.index \in Nat /\ m.data \in Files \X Nat
  <2>1. Carries(c2s[u], f, max)
    BY <1>2 DEF Flow
  <2> QED
    BY <1>3, <1>4, <1>5, <1>6, <2>1, CarriesHead, RequestFields
<1>8. IsNext(u, m)
  BY <1>2, <1>3, <1>6, <1>7 DEF IsNext, IsOwn, Settled
<1>9. PICK order : order = [kind |-> "put", trans |-> nextTrans, node |-> node,
                            index |-> m.index, data |-> m.data, of |-> s]
  OBVIOUS
<1>10. /\ order \in OrderType /\ order.kind = "put" /\ order.trans = nextTrans
       /\ order.index = m.index /\ order.data = m.data /\ order.node = node
  <2> DEFINE k == m.index
             data == m.data
  <2> HIDE DEF k, data
  <2>1. [kind |-> "put", trans |-> nextTrans, node |-> node,
         index |-> k, data |-> data, of |-> s] \in OrderType
    BY <1>3, <1>7 DEF OrderType, Types, ServerTypes, k, data
  <2> QED
    BY <1>9, <2>1 DEF k, data
<1>11. /\ sessions' = [sessions EXCEPT ![s].next = @ + 1]
       /\ Wait(u, "put", s, sessions[s].path, order) /\ UNCHANGED tree
  <2>1. \/ ~IsNext(u, m)
        \/ /\ sessions' = [sessions EXCEPT ![m.session].next = @ + 1]
           /\ Wait(u, "put", m.session, sessions[m.session].path,
                   [kind |-> "put", trans |-> nextTrans, node |-> sessions[m.session].node,
                    index |-> m.index, data |-> m.data, of |-> m.session])
           /\ UNCHANGED tree
    BY DEF PutOnInit
  <2> HIDE DEF m
  <2> QED
    BY <1>1, <1>6, <1>8, <1>9, <2>1
<1>12. /\ f < max /\ Flow(u, "put", s, max, t, h, i, j, f + 1)'
       /\ Messages(c2s'[u]) \subseteq Messages(c2s[u])
       /\ Messages(s2n') = Messages(s2n) \cup {order}
  <2>1. PICK path : path = sessions[s].path
    OBVIOUS
  <2>2. Received(u, "put") /\ Wait(u, "put", s, path, order)
    BY <1>4, <1>11, <2>1
  <2>3. Flow(u, "put", s, max, t, h, i, j, f) /\ max \in Nat
    BY <1>2, <1>3
  <2>4. /\ order \in OrderType /\ order.kind = "put" /\ order.trans = nextTrans
        /\ order.index = Head(c2s[u]).index
    BY <1>10
  <2> QED
    BY <2>2, <2>3, <2>4, FlowRequest
<1>13. /\ DOMAIN sessions' = DOMAIN sessions
       /\ sessions'[s].type = "put" /\ sessions'[s].user = u
       /\ sessions'[s].path = sessions[s].path /\ sessions'[s].max = sessions[s].max
       /\ sessions'[s].next = f + 1 /\ sessions'[s].node = node
       /\ \A x \in DOMAIN sessions \ {s} : sessions'[x] = sessions[x]
  <2> DEFINE new == [sessions[s] EXCEPT !.next = @ + 1]
  <2>1. /\ new \in SessionType /\ new.type = "put" /\ new.next = sessions[s].next + 1
        /\ new.path = sessions[s].path /\ new.node = sessions[s].node
        /\ new.user = sessions[s].user /\ new.max = sessions[s].max
    BY <1>3, Advanced
  <2>2. sessions' = [sessions EXCEPT ![s] = new]
    BY <1>3, <1>11
  <2> HIDE DEF new
  <2>3. /\ DOMAIN sessions' = DOMAIN sessions /\ sessions'[s] = new
        /\ \A x \in DOMAIN sessions \ {s} : sessions'[x] = sessions[x]
    BY <1>3, <2>1, <2>2, SessionChanged DEF Types
  <2> QED
    BY <1>1, <1>2, <1>3, <2>1, <2>3
<1>14. UNCHANGED <<put, nodeSessions, disk, finished>>
  BY <1>4, ReceivedSame
<1>15. IsPut(u, s)' /\ PutName(u)' = name /\ put'[u].max = max /\ put'[u].file = file
  BY <1>1, <1>2, <1>13, <1>14 DEF IsPut, Chosen, CompleteBut, PutName
<1>16. /\ j < max => IsOpen(sessions[s].node, name, max)'
       /\ Holds(name, file, j)' /\ \A n \in Names \ {name} : Whole(n)'
  BY <1>2, <1>13, <1>14 DEF IsOpen, Holds, Whole
<1>17. /\ \A x \in Messages(c2s'[u]) : x.data = Fragment(file, x.index)
       /\ \A x \in Messages(s2n') : x.data = Fragment(file, x.index) /\ x.node = node
  BY <1>2, <1>6, <1>10, <1>12
<1>18. PutFlow(u, s, t, h, i, j, f + 1)'
  BY <1>12, <1>13, <1>15, <1>16, <1>17 DEF PutFlow
<1>19. Puts(u)'
  BY <1>18 DEF Puts
<1>20. Settled'
  BY <1>4, ReceivedSettled
<1> QED
  BY <1>19, <1>20 DEF Orderly, Serves

LEMMA PutsAnswer ==
    ASSUME Types, Counted, Settled, NEW u \in Users, NEW s \in Nat, NEW t \in Nat,
           NEW h \in Nat, NEW i \in Nat, NEW j \in Nat, NEW f \in Nat,
           PutFlow(u, s, t, h, i, j, f), NEW w \in waits, PutOnActive(w)
    PROVE  Orderly'
<1> DEFINE m == Head(n2s)
<1>1. PICK max : max = put[u].max
  OBVIOUS
<1>2. Flow(u, "put", s, max, t, h, i, j, f) /\ max \in Nat
  BY <1>1, PutFields DEF PutFlow
<1>3. Activated(w, "put") /\ UNCHANGED <<sessions, index, crashed>>
  BY DEF PutOnActive, sessionVars
<1>4. m \in Messages(n2s) /\ w.kind = "put" /\ ResultFor(w, m)
  BY <1>3, ActivatedTypes
<1>5. m.ok /\ w.user \in online /\ m.index \in Nat
  <2>1. m.ok
    BY <1>2, <1>4 DEF Flow
  <2>2. w.user \in online
    BY WaitFields DEF Settled, Types
  <2> QED
    BY <1>4, <2>1, <2>2, ResultForFields
<1>6. PICK answer : answer = [kind |-> "put", ok |-> TRUE, index |-> m.index]
  OBVIOUS
<1>7. answer \in AnswerType /\ answer.ok /\ answer.kind = "put" /\ answer.index = m.index
  BY <1>5, <1>6 DEF AnswerType
<1>8. Reply(w, answer)
  BY <1>5, <1>6 DEF PutOnActive
<1>9. Flow(u, "put", s, max, t, h, i + 1, j, f)'
  BY <1>2, <1>3, <1>7, <1>8, FlowAnswer
<1>10. UNCHANGED <<put, get, local, meta, c2s, s2n, sessions, tree, online, crashed, nodeSessions,
                   opened, files, disk, finished>>
  BY <1>3, ActivatedSame
<1>11. Settled'
  BY <1>10, SettledKept
<1>12. PutFlow(u, s, t, h, i + 1, j, f)'
  <2>1. IsPut(u, s)' /\ PutName(u)' = PutName(u)
    BY <1>10, SessionsSame DEF PutFlow
  <2> QED
    BY <1>1, <1>9, <1>10, <2>1 DEF PutFlow, IsOpen, Holds, Whole
<1>13. Puts(u)'
  BY <1>12 DEF Puts
<1> QED
  BY <1>11, <1>13 DEF Orderly, Serves

\* The fragment is written behind those that are there.
LEMMA PutsNode ==
    ASSUME Types, Counted, Settled, NEW u \in Users, NEW s \in Nat, NEW t \in Nat,
           NEW h \in Nat, NEW i \in Nat, NEW j \in Nat, NEW f \in Nat,
           PutFlow(u, s, t, h, i, j, f), NodePut
    PROVE  Orderly'
<1> DEFINE m == Head(s2n)
<1>1. PICK max, name, file, n : /\ max = put[u].max /\ name = PutName(u) /\ file = put[u].file
                                /\ n = sessions[s].node
  OBVIOUS
<1>2. /\ Flow(u, "put", s, max, t, h, i, j, f) /\ IsPut(u, s) /\ sessions[s].next = f
      /\ j < max => IsOpen(n, name, max)
      /\ \A x \in Messages(c2s[u]) : x.data = Fragment(file, x.index)
      /\ \A x \in Messages(s2n) : x.data = Fragment(file, x.index) /\ x.node = n
      /\ Holds(name, file, j)
      /\ \A x \in Names \ {name} : Whole(x)
  BY <1>1 DEF PutFlow
<1>3. name \in Names /\ file \in Files /\ max \in Nat
  BY <1>1, <1>2, PutFields
<1>4. NodeReceived("put") /\ s2n # <<>>
  BY DEF NodePut, NodeReceived
<1>5. m \in OrderType /\ m \in Messages(s2n) /\ m.trans \in Nat
  BY <1>4, OrderTaken
<1>6. m.index = j /\ j < f /\ f <= max
  <2>1. s2n \in Seq(OrderType)
    BY DEF Types, NodeTypes
  <2>2. Carries(s2n, j, f) /\ f <= max
    BY <1>2 DEF Flow
  <2> QED
    BY <1>4, <2>1, <2>2, CarriesHead
<1>7. m.node = n /\ m.data = Fragment(file, j) /\ IsOpen(n, name, max)
  BY <1>2, <1>3, <1>5, <1>6
<1>8. IsNodeSession(n, j) /\ nodeSessions[n].name = name /\ nodeSessions[n].max = max
  BY <1>3, <1>6, <1>7 DEF IsOpen, IsNodeSession
<1>9. PICK data : data = Fragment(file, j)
  OBVIOUS
<1>10. data \in Data
  BY <1>3, <1>9 DEF Data, Fragment
<1>11. PICK contents, more, done :
          /\ contents = disk[name] /\ more = WriteAt(contents, j, data)
          /\ done = [trans |-> m.trans, ok |-> TRUE, index |-> j]
  OBVIOUS
<1>12. contents \in Seq(Data) /\ Opened(name) = contents
  BY <1>3, <1>11 DEF Types, NodeTypes, Settled, Opened
<1>13. /\ disk' = [disk EXCEPT ![name] = more]
       /\ opened' = opened \cup {name} /\ files' = files \cup {name}
       /\ EndAtLast(n, j) /\ NodeReply(done)
  <2>1. \/ ~IsNodeSession(m.node, m.index)
        \/ /\ disk' = [disk EXCEPT ![nodeSessions[m.node].name] =
                         WriteAt(Opened(nodeSessions[m.node].name), m.index, m.data)]
           /\ opened' = opened \cup {nodeSessions[m.node].name}
           /\ files' = files \cup {nodeSessions[m.node].name}
           /\ EndAtLast(m.node, m.index)
           /\ NodeReply([trans |-> m.trans, ok |-> TRUE, index |-> m.index])
    BY DEF NodePut
  <2> HIDE DEF m
  <2> QED
    BY <1>6, <1>7, <1>8, <1>9, <1>11, <1>12, <2>1
<1>14. done \in ResultType /\ done.ok /\ done.trans = m.trans /\ done.index = m.index
  BY <1>5, <1>6, <1>11 DEF ResultType
<1>15. /\ Flow(u, "put", s, max, t, h, i, j + 1, f)'
       /\ Messages(s2n') \subseteq Messages(s2n)
  BY <1>2, <1>3, <1>4, <1>13, <1>14, FlowNode
<1>16. /\ disk'[name] = more /\ \A x \in Names \ {name} : disk'[x] = disk[x]
  BY <1>3, <1>13 DEF Types, NodeTypes
<1>17. /\ Len(contents) \in Nat
       /\ Len(more) = IF j + 1 > Len(contents) THEN j + 1 ELSE Len(contents)
       /\ more[j + 1] = data
       /\ \A k \in 1 .. Len(contents) : k # j + 1 => more[k] = contents[k]
  <2> HIDE DEF m
  <2>1. contents \in Seq(Data) /\ j \in Nat /\ data \in Data
    BY <1>10, <1>12
  <2>2. /\ Len(contents) \in Nat
        /\ Len(WriteAt(contents, j, data)) = IF j + 1 > Len(contents) THEN j + 1 ELSE Len(contents)
        /\ WriteAt(contents, j, data)[j + 1] = data
        /\ \A k \in 1 .. Len(contents) :
              k # j + 1 => WriteAt(contents, j, data)[k] = contents[k]
    BY ONLY <2>1, WriteAtFacts
  <2> QED
    BY <1>11, <2>2
<1>18. Holds(name, file, j + 1)'
  <2> SUFFICES ASSUME NEW k \in 1 .. j + 1
               PROVE  k <= Len(more) /\ more[k] = Fragment(file, k - 1)
    BY <1>16 DEF Holds
  <2>1. CASE k = j + 1
    <3>1. k - 1 = j /\ k <= Len(more)
      BY <1>17, <2>1
    <3> QED
      BY <1>9, <1>17, <2>1, <3>1
  <2>2. CASE k # j + 1
    <3>1. k \in 1 .. j
      BY <2>2
    <3>2. k <= Len(contents) /\ contents[k] = Fragment(file, k - 1)
      BY <1>2, <1>11, <3>1 DEF Holds
    <3>3. k \in 1 .. Len(contents) /\ k <= Len(more)
      BY <1>17, <3>1, <3>2
    <3> QED
      BY <1>17, <2>2, <3>2, <3>3
  <2> QED
    BY <2>1, <2>2
<1>19. UNCHANGED <<put, get, local, meta, c2s, sessions, tree, online, crashed, finished>>
  BY <1>4, NodeReceivedSame
<1>20. Settled'
  <2>1. opened' = files'
    BY <1>13 DEF Settled
  <2>2. \A x \in Names \ files' : disk'[x] = <<>>
    BY <1>13, <1>16 DEF Settled
  <2> QED
    BY <1>19, <2>1, <2>2 DEF Settled
<1>21. j + 1 < max => UNCHANGED nodeSessions
  BY <1>3, <1>8, <1>13 DEF EndAtLast
<1>22. j + 1 < max => IsOpen(sessions[s].node, name, max)'
  BY <1>1, <1>7, <1>19, <1>21 DEF IsOpen
<1>23. IsPut(u, s)' /\ PutName(u)' = name /\ put'[u].max = max /\ put'[u].file = file
       /\ sessions'[s].next = f /\ sessions'[s].node = n
  BY <1>1, <1>2, <1>19, SessionsSame
<1>24. \A x \in Names \ {name} : Whole(x)'
  BY <1>2, <1>16, <1>19 DEF Whole, Holds
<1>25. PutFlow(u, s, t, h, i, j + 1, f)'
  BY <1>2, <1>15, <1>18, <1>19, <1>22, <1>23, <1>24 DEF PutFlow
<1>26. Puts(u)'
  BY <1>25 DEF Puts
<1> QED
  BY <1>20, <1>26 DEF Orderly, Serves
-----------------------------------------------------------------------------
(* What is undisturbed: the fragments of a get *)

LEMMA OneMore ==
    ASSUME NEW S, NEW list \in Seq(S), NEW n \in Nat, n < Len(list)
    PROVE  SubSeq(list, 1, n) \o <<list[n + 1]>> = SubSeq(list, 1, n + 1)
<1>1. PICK x : x = list[n + 1]
  OBVIOUS
<1>2. n + 1 \in 1 .. Len(list) /\ x \in S
  BY <1>1
<1> DEFINE a == SubSeq(list, 1, n)
           b == SubSeq(list, 1, n + 1)
<1>3. a \in Seq(S) /\ Len(a) = n /\ \A k \in 1 .. n : a[k] = list[k]
  BY <1>2
<1>4. b \in Seq(S) /\ Len(b) = n + 1 /\ \A k \in 1 .. n + 1 : b[k] = list[k]
  BY <1>2
<1> HIDE DEF a, b
<1>5. a \o <<x>> = Append(a, x)
  BY <1>2, <1>3
<1>6. /\ Append(a, x) \in Seq(S) /\ Len(Append(a, x)) = n + 1
      /\ \A k \in 1 .. n : Append(a, x)[k] = a[k]
      /\ Append(a, x)[n + 1] = x
  BY <1>2, <1>3, AppendProperties
<1>7. \A k \in 1 .. n + 1 : Append(a, x)[k] = b[k]
  <2> TAKE k \in 1 .. n + 1
  <2>1. CASE k = n + 1
    BY <1>1, <1>2, <1>4, <1>6, <2>1
  <2>2. CASE k # n + 1
    <3>1. k \in 1 .. n
      BY <2>2
    <3> QED
      BY <1>3, <1>4, <1>6, <3>1
  <2> QED
    BY <2>1, <2>2
<1>8. Append(a, x) = b
  BY <1>4, <1>6, <1>7, SeqEqual
<1> QED
  BY <1>1, <1>5, <1>8 DEF a, b

LEMMA GetFields ==
    ASSUME Types, NEW u \in Users, NEW s, IsGet(u, s)
    PROVE  /\ GetName(u) \in Names /\ get[u].path \in Paths /\ get[u].max \in Nat
           /\ s \in DOMAIN sessions /\ sessions[s].type = "get" /\ sessions[s].user = u
           /\ sessions[s].path = get[u].path /\ get[u].path \in tree /\ sessions[s].node \in Nat
           /\ disk[GetName(u)] \in Seq(Data) /\ Complete
<1>1. /\ get[u].path \in Paths /\ s \in DOMAIN sessions /\ sessions[s].type = "get"
      /\ sessions[s].user = u /\ sessions[s].path = get[u].path /\ get[u].path \in tree /\ Complete
  BY DEF IsGet
<1>2. sessions[s] \in SessionType
  BY <1>1 DEF Types, ServerTypes
<1>3. sessions[s].node \in Nat
  BY <1>1, <1>2, SessionFields
<1>4. GetName(u) \in Names /\ get[u].max \in Nat
  BY <1>1, TransferAssumption DEF GetName, Types, ClientTypes
<1> QED
  BY <1>1, <1>3, <1>4 DEF Types, NodeTypes

\* The parts of a get, with its size, the name and the session of its file.
GetParts(u, s, max, name, n, t, h, i, j, f) ==
    /\ Flow(u, "get", s, max, t, h, i, j, f) /\ IsGet(u, s) /\ AllWhole
    /\ name \in Names /\ name \in files /\ max \in Nat /\ max = Len(disk[name])
    /\ j < max => IsOpen(n, name, max)
    /\ \A m \in Messages(s2n) : m.node = n
    /\ \A m \in Messages(n2s) : m.data = <<disk[name][m.index + 1]>>
    /\ \A m \in Messages(s2c[u]) : m.data = <<disk[name][m.index + 1]>>
    /\ local[u][get[u].path] = SubSeq(disk[name], 1, h)

LEMMA GetFlowParts ==
    ASSUME Types, NEW u \in Users, NEW s \in Nat, NEW t \in Nat,
           NEW h \in Nat, NEW i \in Nat, NEW j \in Nat, NEW f \in Nat,
           GetFlow(u, s, t, h, i, j, f), NEW max, max = get[u].max, NEW name, name = GetName(u),
           NEW n, n = sessions[s].node
    PROVE  GetParts(u, s, max, name, n, t, h, i, j, f)
BY GetFields DEF GetFlow, Copied, GetParts

LEMMA GetGoesOn ==
    ASSUME NEW u \in Users, NEW s \in Nat, NEW t \in Nat,
           NEW h \in Nat, NEW i \in Nat, NEW j \in Nat, NEW f \in Nat,
           NEW max, NEW name, NEW n, max = get[u].max, name = GetName(u), n = sessions[s].node,
           UNCHANGED <<get, sessions>>, GetParts(u, s, max, name, n, t, h, i, j, f)', Settled'
    PROVE  Orderly'
<1>1. GetName(u)' = name /\ get'[u].max = max /\ sessions'[s].node = n
  BY DEF GetName
<1>2. GetFlow(u, s, t, h, i, j, f)'
  BY <1>1 DEF GetFlow, GetParts, Copied
<1>3. Gets(u)'
  BY <1>2 DEF Gets
<1> QED
  BY <1>3 DEF Orderly, Serves

\* Nothing but the messages and the progress of a get changes.
LEMMA GetSame ==
    ASSUME NEW u \in Users, NEW s, IsGet(u, s), AllWhole,
           UNCHANGED <<get, sessions, tree, disk, finished>>
    PROVE  IsGet(u, s)' /\ AllWhole'
BY WholeKept DEF IsGet, Complete

\* The data is appended to the local file.
Appends(u, h) ==
    /\ h < Len(disk[GetName(u)])
    /\ local'[u][get[u].path] = SubSeq(disk[GetName(u)], 1, h + 1)
    /\ \A v \in Users \ {u} : local'[v] = local[v]

LEMMA GetsReadDoes ==
    ASSUME Types, Counted, Settled, NEW u \in Users, NEW s \in Nat, NEW t \in Nat,
           NEW h \in Nat, NEW i \in Nat, NEW j \in Nat, NEW f \in Nat,
           GetFlow(u, s, t, h, i, j, f), ReadGet(u)
    PROVE  /\ Appends(u, h)
           /\ Settled' /\ UNCHANGED <<put, get, finished, disk>> /\ Answered(u, <<>>)
           /\ unanswered'[u] + h + 1 = get[u].max
<1> DEFINE m == Head(s2c[u])
<1>1. PICK max, name, n, p :
          max = get[u].max /\ name = GetName(u) /\ n = sessions[s].node /\ p = get[u].path
  OBVIOUS
<1>2. /\ Flow(u, "get", s, max, t, h, i, j, f) /\ IsGet(u, s)
      /\ name \in Names /\ max \in Nat /\ max = Len(disk[name])
      /\ \A x \in Messages(s2c[u]) : x.data = <<disk[name][x.index + 1]>>
      /\ local[u][p] = SubSeq(disk[name], 1, h)
  <2>1. GetParts(u, s, max, name, n, t, h, i, j, f)
    BY <1>1, GetFlowParts
  <2> QED
    BY <1>1, <2>1 DEF GetParts
<1>3. p \in Paths /\ disk[name] \in Seq(Data)
  BY <1>1, <1>2, GetFields
<1>4. /\ Answered(u, <<>>) /\ UNCHANGED <<put, get, finished>>
      /\ local' = [local EXCEPT ![u][p] = @ \o m.data]
      /\ meta' \in {[meta EXCEPT ![u][p] = m.index + 1], meta}
  BY <1>1 DEF ReadGet
<1>5. /\ h < i /\ m.index = h /\ m \in Messages(s2c[u])
  BY <1>2, <1>4, FlowRead
<1>6. h < max
  BY <1>2, <1>5 DEF Flow
<1>7. m.data = <<disk[name][h + 1]>>
  BY <1>2, <1>5
<1>8. local[u][p] \o m.data = SubSeq(disk[name], 1, h + 1)
  BY <1>2, <1>3, <1>6, <1>7, OneMore
<1>9. PICK more : more = SubSeq(disk[name], 1, h + 1)
  OBVIOUS
<1>10. /\ local'[u][p] = more /\ \A v \in Users \ {u} : local'[v] = local[v]
       /\ \A x \in Paths \ {p} : local'[u][x] = local[u][x]
  BY <1>3, <1>4, <1>8, <1>9 DEF Types, ClientTypes
<1>11. more # <<>>
  <2>1. Len(more) = h + 1
    BY <1>2, <1>3, <1>6, <1>9
  <2> QED
    BY <2>1
<1>12. /\ \A v \in Users \ {u} : meta'[v] = meta[v]
       /\ \A x \in Paths \ {p} : meta'[u][x] = meta[u][x]
  <2>1. PICK next : meta' \in {[meta EXCEPT ![u][p] = next], meta}
    BY <1>4
  <2>2. meta \in [Users -> [Paths -> Nat]]
    BY DEF Types, ClientTypes
  <2>3. CASE meta' = [meta EXCEPT ![u][p] = next]
    BY <1>3, <2>2, <2>3
  <2> QED
    BY <2>1, <2>3
<1>13. UNCHANGED <<online, crashed, opened, files, disk>>
  BY <1>4 DEF Answered, serverVars, nodeVars
<1>14. \A v \in Users, x \in Paths : local'[v][x] = <<>> => meta'[v][x] = 0
  <2> TAKE v \in Users, x \in Paths
  <2>1. local[v][x] = <<>> => meta[v][x] = 0
    BY DEF Settled
  <2>2. CASE v # u
    <3>1. local'[v] = local[v] /\ meta'[v] = meta[v]
      BY <1>10, <1>12, <2>2
    <3> QED
      BY <2>1, <3>1
  <2>3. CASE v = u /\ x # p
    <3>1. local'[v][x] = local[v][x] /\ meta'[v][x] = meta[v][x]
      BY <1>10, <1>12, <2>3
    <3> QED
      BY <2>1, <3>1
  <2>4. CASE v = u /\ x = p
    BY <1>10, <1>11, <2>4
  <2> QED
    BY <2>2, <2>3, <2>4
<1>15. Settled'
  BY <1>4, <1>13, <1>14 DEF Settled
<1>16. unanswered'[u] + h + 1 = max
  BY <1>2, <1>4, FlowRead
<1>17. Appends(u, h)
  BY <1>1, <1>2, <1>6, <1>9, <1>10 DEF Appends
<1> QED
  BY <1>1, <1>4, <1>13, <1>15, <1>16, <1>17

LEMMA GetsRead ==
    ASSUME Types, Counted, Settled, NEW u \in Users, NEW s \in Nat, NEW t \in Nat,
           NEW h \in Nat, NEW i \in Nat, NEW j \in Nat, NEW f \in Nat,
           GetFlow(u, s, t, h, i, j, f), ReadGet(u)
    PROVE  Orderly'
<1>1. PICK max, name, n : max = get[u].max /\ name = GetName(u) /\ n = sessions[s].node
  OBVIOUS
<1>2. /\ Flow(u, "get", s, max, t, h, i, j, f) /\ IsGet(u, s) /\ AllWhole
      /\ name \in Names /\ name \in files /\ max \in Nat /\ max = Len(disk[name])
      /\ j < max => IsOpen(n, name, max)
      /\ \A m \in Messages(s2n) : m.node = n
      /\ \A m \in Messages(n2s) : m.data = <<disk[name][m.index + 1]>>
      /\ \A m \in Messages(s2c[u]) : m.data = <<disk[name][m.index + 1]>>
  <2>1. GetParts(u, s, max, name, n, t, h, i, j, f)
    BY <1>1, GetFlowParts
  <2> QED
    BY <2>1 DEF GetParts
<1>3. /\ Answered(u, <<>>) /\ UNCHANGED <<put, get, finished>> /\ Settled'
      /\ local'[u][get[u].path] = SubSeq(disk[name], 1, h + 1)
  <2>1. local'[u][get[u].path] = SubSeq(disk[GetName(u)], 1, h + 1)
    <3>1. Appends(u, h)
      BY GetsReadDoes
    <3> QED
      BY <3>1 DEF Appends
  <2>2. Answered(u, <<>>) /\ UNCHANGED <<put, get, finished, disk>> /\ Settled'
    BY GetsReadDoes
  <2> QED
    BY <1>1, <2>1, <2>2
<1>4. UNCHANGED <<sessions, tree, nodeSessions, s2n, n2s, files, disk>>
  BY <1>3 DEF Answered, serverVars, sessionVars, nodeVars, links
<1>5. UNCHANGED put
  BY <1>3
<1>6. CASE h + 1 < max
  <2>1. Flow(u, "get", s, max, t, h + 1, i, j, f)'
    BY <1>2, <1>3, <1>5, <1>6, FlowRead
  <2>2. Messages(s2c'[u]) \subseteq Messages(s2c[u])
    BY <1>2, <1>3, <1>5, FlowRead
  <2>3. \A m \in Messages(s2c'[u]) : m.data = <<disk[name][m.index + 1]>>
    BY <1>2, <2>2
  <2>4. j < max => IsOpen(n, name, max)'
    BY <1>2, <1>4 DEF IsOpen
  <2>5. h + 1 \in Nat
    OBVIOUS
  <2>6. /\ \A m \in Messages(s2n') : m.node = n
        /\ \A m \in Messages(n2s') : m.data = <<disk[name][m.index + 1]>>
    BY <1>2, <1>4
  <2>7. UNCHANGED <<get, sessions, tree, files, disk, finished>>
    BY <1>3, <1>4
  <2>8. IsGet(u, s)' /\ AllWhole'
    BY <1>2, <2>7, GetSame
  <2>9. GetParts(u, s, max, name, n, t, h + 1, i, j, f)'
    BY <1>2, <1>3, <2>1, <2>3, <2>4, <2>6, <2>7, <2>8 DEF GetParts
  <2> QED
    BY <1>1, <1>3, <2>5, <2>7, <2>9, GetGoesOn
<1>7. CASE h + 1 >= max
  <2>1. Rests(u)' /\ Only(u)' /\ ServerRests'
    BY <1>2, <1>3, <1>5, <1>7, FlowReadLast
  <2>2. Complete'
    BY <1>2, <1>4, CompleteKept DEF IsGet
  <2>3. AllWhole'
    BY <1>2, <1>3, <1>4, WholeKept
  <2>4. Resting'
    BY <2>1, <2>2, <2>3, OnlyRests DEF Resting, Only
  <2> QED
    BY <1>3, <2>4 DEF Orderly
<1> QED
  BY <1>2, <1>6, <1>7

LEMMA GetsRequest ==
    ASSUME Types, Counted, Settled, NEW u \in Users, NEW s \in Nat, NEW t \in Nat,
           NEW h \in Nat, NEW i \in Nat, NEW j \in Nat, NEW f \in Nat,
           GetFlow(u, s, t, h, i, j, f), GetOnInit(u)
    PROVE  Orderly'
<1> DEFINE m == Head(c2s[u])
<1>1. PICK max, name, n : max = get[u].max /\ name = GetName(u) /\ n = sessions[s].node
  OBVIOUS
<1>2. /\ Flow(u, "get", s, max, t, h, i, j, f) /\ IsGet(u, s) /\ AllWhole
      /\ name \in Names /\ name \in files /\ max \in Nat /\ max = Len(disk[name])
      /\ j < max => IsOpen(n, name, max)
      /\ \A x \in Messages(s2n) : x.node = n
      /\ \A x \in Messages(n2s) : x.data = <<disk[name][x.index + 1]>>
      /\ \A x \in Messages(s2c[u]) : x.data = <<disk[name][x.index + 1]>>
      /\ local[u][get[u].path] = SubSeq(disk[name], 1, h)
  <2>1. GetParts(u, s, max, name, n, t, h, i, j, f)
    BY <1>1, GetFlowParts
  <2> QED
    BY <2>1 DEF GetParts
<1>3. /\ s \in DOMAIN sessions /\ sessions[s].type = "get" /\ sessions[s].user = u
      /\ sessions[s].path \in tree /\ n \in Nat
  BY <1>1, <1>2, GetFields
<1>4. Received(u, "get") /\ c2s[u] # <<>>
  BY DEF GetOnInit, Received
<1>5. c2s[u] \in Seq(RequestType) /\ m \in Messages(c2s[u]) /\ m \in RequestType
  <2>1. c2s[u] \in Seq(RequestType)
    BY DEF Types, LinkTypes
  <2> QED
    BY <1>4, <2>1, HeadTaken
<1>6. m.session = s /\ m.kind = "get"
  BY <1>2, <1>5 DEF Flow
<1>7. m.index \in Nat
  BY <1>5, <1>6, RequestFields
<1>8. PICK order : order = [kind |-> "get", trans |-> nextTrans, node |-> n, index |-> m.index]
  OBVIOUS
<1>9. /\ order \in OrderType /\ order.kind = "get" /\ order.trans = nextTrans
      /\ order.index = m.index /\ order.node = n
  <2> DEFINE k == m.index
  <2> HIDE DEF k
  <2>1. [kind |-> "get", trans |-> nextTrans, node |-> n, index |-> k] \in OrderType
    BY <1>3, <1>7 DEF OrderType, Types, ServerTypes, k
  <2> QED
    BY <1>8, <2>1 DEF k
<1>10. /\ Wait(u, "get", s, sessions[s].path, order)
       /\ UNCHANGED <<tree, sessions>>
  <2>1. \/ ~(u \in online /\ IsOwn("get", u, m.session) /\ sessions[m.session].path \in tree)
        \/ /\ Wait(u, "get", m.session, sessions[m.session].path,
                   [kind |-> "get", trans |-> nextTrans, node |-> sessions[m.session].node,
                    index |-> m.index])
           /\ UNCHANGED <<tree, sessions>>
    BY DEF GetOnInit, sessionVars
  <2> HIDE DEF m
  <2>2. u \in online /\ IsOwn("get", u, m.session) /\ sessions[m.session].path \in tree
    BY <1>3, <1>6 DEF IsOwn, Settled
  <2> QED
    BY <1>1, <1>6, <1>8, <2>1, <2>2
<1>11. /\ Flow(u, "get", s, max, t, h, i, j, f + 1)'
       /\ Messages(s2n') = Messages(s2n) \cup {order} /\ UNCHANGED s2c
  BY <1>2, <1>4, <1>9, <1>10, FlowRequest
<1>12. UNCHANGED <<get, local, n2s, nodeSessions, files, disk, finished>>
  BY <1>4, ReceivedSame
<1>13. Settled'
  BY <1>4, ReceivedSettled
<1>14. j < max => IsOpen(n, name, max)'
  BY <1>2, <1>12 DEF IsOpen
<1>15. /\ \A x \in Messages(s2n') : x.node = n
       /\ \A x \in Messages(n2s') : x.data = <<disk[name][x.index + 1]>>
       /\ \A x \in Messages(s2c'[u]) : x.data = <<disk[name][x.index + 1]>>
       /\ local'[u][get[u].path] = SubSeq(disk[name], 1, h)
  BY <1>2, <1>9, <1>11, <1>12
<1>16. UNCHANGED <<get, sessions, tree, files, disk, finished>> /\ f + 1 \in Nat
  BY <1>10, <1>12
<1>17. IsGet(u, s)' /\ AllWhole'
  BY <1>2, <1>16, GetSame
<1>18. GetParts(u, s, max, name, n, t, h, i, j, f + 1)'
  BY <1>2, <1>11, <1>14, <1>15, <1>16, <1>17 DEF GetParts
<1> QED
  BY <1>1, <1>13, <1>16, <1>18, GetGoesOn

LEMMA GetsAnswer ==
    ASSUME Types, Counted, Settled, NEW u \in Users, NEW s \in Nat, NEW t \in Nat,
           NEW h \in Nat, NEW i \in Nat, NEW j \in Nat, NEW f \in Nat,
           GetFlow(u, s, t, h, i, j, f), NEW w \in waits, GetOnActive(w)
    PROVE  Orderly'
<1> DEFINE m == Head(n2s)
<1>1. PICK max, name, n : max = get[u].max /\ name = GetName(u) /\ n = sessions[s].node
  OBVIOUS
<1>2. /\ Flow(u, "get", s, max, t, h, i, j, f) /\ IsGet(u, s) /\ AllWhole
      /\ name \in Names /\ name \in files /\ max \in Nat /\ max = Len(disk[name])
      /\ j < max => IsOpen(n, name, max)
      /\ \A x \in Messages(s2n) : x.node = n
      /\ \A x \in Messages(n2s) : x.data = <<disk[name][x.index + 1]>>
      /\ \A x \in Messages(s2c[u]) : x.data = <<disk[name][x.index + 1]>>
      /\ local[u][get[u].path] = SubSeq(disk[name], 1, h)
  <2>1. GetParts(u, s, max, name, n, t, h, i, j, f)
    BY <1>1, GetFlowParts
  <2> QED
    BY <2>1 DEF GetParts
<1>3. Activated(w, "get") /\ UNCHANGED <<sessions, index, crashed>>
  BY DEF GetOnActive, sessionVars
<1>4. m \in Messages(n2s) /\ w.kind = "get" /\ ResultFor(w, m)
  BY <1>3, ActivatedTypes
<1>5. m.ok /\ w.user \in online /\ m.index \in Nat /\ m.data \in Seq(Data)
  <2>1. m.ok
    BY <1>2, <1>4 DEF Flow
  <2>2. w.user \in online
    BY WaitFields DEF Settled, Types
  <2> QED
    BY <1>4, <2>1, <2>2, ResultForFields
<1>6. PICK answer : answer = [kind |-> "get", ok |-> TRUE, index |-> m.index, data |-> m.data]
  OBVIOUS
<1>7. /\ answer \in AnswerType /\ answer.ok /\ answer.kind = "get" /\ answer.index = m.index
      /\ answer.data = m.data
  BY <1>5, <1>6 DEF AnswerType
<1>8. Reply(w, answer)
  BY <1>5, <1>6 DEF GetOnActive
<1>9. /\ Flow(u, "get", s, max, t, h, i + 1, j, f)'
      /\ Messages(n2s') \subseteq Messages(n2s)
      /\ Messages(s2c'[u]) = Messages(s2c[u]) \cup {answer}
  <2>1. Activated(w, "get")
    BY <1>3
  <2> HIDE DEF m
  <2>2. Flow(u, "get", s, max, t, h, i, j, f) /\ max \in Nat /\ answer.index = Head(n2s).index
    BY <1>2, <1>7 DEF m
  <2>3. Flow(u, "get", s, max, t, h, i + 1, j, f)'
    BY <1>7, <1>8, <2>1, <2>2, FlowAnswer
  <2>4. Messages(n2s') \subseteq Messages(n2s)
    BY <1>7, <1>8, <2>1, <2>2, FlowAnswer
  <2>5. Messages(s2c'[u]) = Messages(s2c[u]) \cup {answer}
    <3>1. w.user = u
      BY <2>2 DEF Flow
    <3>2. s2c'[u] = Append(s2c[u], answer)
      BY <1>8, <3>1, ReplySame
    <3>3. s2c[u] \in Seq(AnswerType)
      BY DEF Types, LinkTypes
    <3> QED
      BY <1>7, <3>2, <3>3, Appended
  <2> QED
    BY <2>3, <2>4, <2>5
<1>10. UNCHANGED <<put, get, local, meta, s2n, sessions, tree, online, crashed, nodeSessions,
                   opened, files, disk, finished>>
  BY <1>3, ActivatedSame
<1>11. Settled'
  BY <1>10, SettledKept
<1>12. j < max => IsOpen(n, name, max)'
  BY <1>2, <1>10 DEF IsOpen
<1>13. answer.data = <<disk[name][answer.index + 1]>>
  BY <1>2, <1>4, <1>7
<1>14. /\ \A x \in Messages(s2n') : x.node = n
       /\ \A x \in Messages(n2s') : x.data = <<disk[name][x.index + 1]>>
       /\ \A x \in Messages(s2c'[u]) : x.data = <<disk[name][x.index + 1]>>
       /\ local'[u][get[u].path] = SubSeq(disk[name], 1, h)
  BY <1>2, <1>9, <1>10, <1>13
<1>15. UNCHANGED <<get, sessions, tree, files, disk, finished>> /\ i + 1 \in Nat
  BY <1>10
<1>16. IsGet(u, s)' /\ AllWhole'
  BY <1>2, <1>15, GetSame
<1>17. GetParts(u, s, max, name, n, t, h, i + 1, j, f)'
  BY <1>2, <1>9, <1>12, <1>14, <1>15, <1>16 DEF GetParts
<1> QED
  BY <1>1, <1>11, <1>15, <1>17, GetGoesOn

LEMMA GetsNode ==
    ASSUME Types, Counted, Settled, NEW u \in Users, NEW s \in Nat, NEW t \in Nat,
           NEW h \in Nat, NEW i \in Nat, NEW j \in Nat, NEW f \in Nat,
           GetFlow(u, s, t, h, i, j, f), NodeGet
    PROVE  Orderly'
<1> DEFINE m == Head(s2n)
<1>1. PICK max, name, n : max = get[u].max /\ name = GetName(u) /\ n = sessions[s].node
  OBVIOUS
<1>2. /\ Flow(u, "get", s, max, t, h, i, j, f) /\ IsGet(u, s) /\ AllWhole
      /\ name \in Names /\ name \in files /\ max \in Nat /\ max = Len(disk[name])
      /\ j < max => IsOpen(n, name, max)
      /\ \A x \in Messages(s2n) : x.node = n
      /\ \A x \in Messages(n2s) : x.data = <<disk[name][x.index + 1]>>
      /\ \A x \in Messages(s2c[u]) : x.data = <<disk[name][x.index + 1]>>
      /\ local[u][get[u].path] = SubSeq(disk[name], 1, h)
  <2>1. GetParts(u, s, max, name, n, t, h, i, j, f)
    BY <1>1, GetFlowParts
  <2> QED
    BY <2>1 DEF GetParts
<1>3. NodeReceived("get") /\ s2n # <<>>
  BY DEF NodeGet, NodeReceived
<1>4. m \in OrderType /\ m \in Messages(s2n) /\ m.trans \in Nat
  BY <1>3, OrderTaken
<1>5. m.index = j /\ j < f /\ f <= max
  <2>1. s2n \in Seq(OrderType)
    BY DEF Types, NodeTypes
  <2>2. Carries(s2n, j, f) /\ f <= max
    BY <1>2 DEF Flow
  <2> QED
    BY <1>3, <2>1, <2>2, CarriesHead
<1>6. m.node = n /\ IsOpen(n, name, max)
  BY <1>2, <1>4, <1>5
<1>7. IsNodeSession(n, j) /\ nodeSessions[n].name = name /\ nodeSessions[n].max = max
  BY <1>2, <1>5, <1>6 DEF IsOpen, IsNodeSession
<1>8. PICK contents, data, done :
          /\ contents = disk[name] /\ data = <<contents[j + 1]>>
          /\ done = [trans |-> m.trans, ok |-> TRUE, index |-> j, data |-> data]
  OBVIOUS
<1>9. contents \in Seq(Data) /\ Opened(name) = contents /\ j < Len(contents)
  <2>1. contents \in Seq(Data) /\ name \in Names /\ name \in files
    BY <1>2, <1>8 DEF Types, NodeTypes
  <2>2. Opened(name) = contents
    BY <1>8, <2>1 DEF Settled, Opened
  <2>3. max = Len(contents) /\ max \in Nat
    BY <1>2, <1>8
  <2> QED
    BY <1>5, <2>1, <2>2, <2>3
<1>10. ReadAt(contents, j) = data /\ data \in Seq(Data)
  <2>1. ReadAt(contents, j) = data
    BY <1>8, <1>9 DEF ReadAt
  <2> QED
    BY <1>9, <2>1, ReadAtTyped
<1>11. /\ disk' = [disk EXCEPT ![name] = contents] /\ opened' = opened \cup {name} /\ files' = files
       /\ EndAtLast(n, j) /\ NodeReply(done)
  <2>1. \/ ~(IsNodeSession(m.node, m.index) /\ nodeSessions[m.node].name \in files)
        \/ /\ disk' = [disk EXCEPT ![nodeSessions[m.node].name] =
                         Opened(nodeSessions[m.node].name)]
           /\ opened' = opened \cup {nodeSessions[m.node].name}
           /\ files' = files
           /\ EndAtLast(m.node, m.index)
           /\ NodeReply([trans |-> m.trans, ok |-> TRUE, index |-> m.index,
                         data |-> ReadAt(Opened(nodeSessions[m.node].name), m.index)])
    BY DEF NodeGet
  <2> HIDE DEF m
  <2> QED
    BY <1>2, <1>5, <1>6, <1>7, <1>8, <1>9, <1>10, <2>1
<1>12. UNCHANGED <<disk, opened, files>>
  BY <1>2, <1>8, <1>11 DEF Types, NodeTypes, Settled
<1>13. done \in ResultType /\ done.ok /\ done.trans = m.trans /\ done.index = m.index
       /\ done.data = data
  BY <1>4, <1>5, <1>8, <1>10 DEF ResultType
<1>14. /\ Flow(u, "get", s, max, t, h, i, j + 1, f)'
       /\ Messages(s2n') \subseteq Messages(s2n)
       /\ Messages(n2s') = Messages(n2s) \cup {done}
  BY <1>2, <1>3, <1>11, <1>13, FlowNode
<1>15. UNCHANGED <<put, get, local, meta, s2c, sessions, tree, online, crashed, finished>>
  BY <1>3, NodeReceivedSame
<1>16. Settled'
  BY <1>12, <1>15, SettledKept
<1>17. j + 1 < max => UNCHANGED nodeSessions
  BY <1>2, <1>7, <1>11 DEF EndAtLast
<1>18. j + 1 < max => IsOpen(n, name, max)'
  BY <1>6, <1>17 DEF IsOpen
<1>19. done.data = <<disk[name][done.index + 1]>>
  BY <1>5, <1>8, <1>13
<1>20. /\ \A x \in Messages(s2n') : x.node = n
       /\ \A x \in Messages(n2s') : x.data = <<disk[name][x.index + 1]>>
       /\ \A x \in Messages(s2c'[u]) : x.data = <<disk[name][x.index + 1]>>
       /\ local'[u][get[u].path] = SubSeq(disk[name], 1, h)
  BY <1>2, <1>14, <1>15, <1>19
<1>21. UNCHANGED <<get, sessions, tree, files, disk, finished>> /\ j + 1 \in Nat
  BY <1>12, <1>15
<1>22. IsGet(u, s)' /\ AllWhole'
  BY <1>2, <1>21, GetSame
<1>23. GetParts(u, s, max, name, n, t, h, i, j + 1, f)'
  BY <1>2, <1>14, <1>18, <1>20, <1>21, <1>22 DEF GetParts
<1> QED
  BY <1>1, <1>16, <1>21, <1>23, GetGoesOn
-----------------------------------------------------------------------------
(* What is undisturbed: every step *)

LEMMA OrderlySame ==
    Orderly /\ UNCHANGED vars => Orderly'
<1> SUFFICES ASSUME Orderly, UNCHANGED vars
             PROVE  Orderly'
  OBVIOUS
<1>1. UNCHANGED <<put, get, local, meta, c2s, s2c, online, tree, sessions, waits, nextTrans,
                  crashed, s2n, n2s, nodeSessions, opened, files, disk, unanswered, finished>>
  BY DEF vars, clientVars, serverVars, sessionVars, nodeVars, links, history
<1>2. Settled' /\ (AllWhole => AllWhole') /\ (Complete => Complete') /\ (ServerRests => ServerRests')
  BY <1>1, SettledKept, WholeKept, CompleteKept DEF Orderly, ServerRests
<1>3. ASSUME NEW u \in Users
      PROVE  (Rests(u) => Rests(u)') /\ (Only(u) => Only(u)')
  BY <1>1 DEF Rests, Only
<1>4. CASE Resting
  BY <1>1, <1>2, <1>3, <1>4 DEF Orderly, Resting
<1>5. ASSUME NEW u \in Users, Serves(u)
      PROVE  Serves(u)'
  <2>1. CASE Typed(u) \/ Removes(u)
    BY <1>1, <1>2, <1>3, <2>1 DEF Serves, Typed, Removes
  <2>2. CASE Asks(u)
    <3>1. RequestOf(u, Head(c2s[u]))'
      BY <1>1, <2>2 DEF Asks, RequestOf, Chosen, Fresh, SizeIsKnown
    <3> QED
      BY <1>1, <1>2, <1>3, <2>2, <3>1 DEF Serves, Asks
  <2>3. \A s : /\ IsPut(u, s) => IsPut(u, s)'
               /\ IsGet(u, s) => IsGet(u, s)'
               /\ Fresh(u) => Fresh(u)'
               /\ PutName(u)' = PutName(u) /\ GetName(u)' = GetName(u)
    BY <1>1, SessionsSame
  <2>4. CASE Ordered(u)
    <3>1. ASSUME NEW w \in waits, OrderOf(u, w, Head(s2n))
          PROVE  OrderOf(u, w, Head(s2n))'
      BY <1>1, <2>3, <3>1 DEF OrderOf, SizeIsKnown
    <3> QED
      BY <1>1, <1>2, <1>3, <2>4, <3>1 DEF Serves, Ordered
  <2>5. \A n, name, max : IsOpen(n, name, max) <=> IsOpen(n, name, max)'
    BY <1>1 DEF IsOpen
  <2>6. CASE Resulted(u)
    <3>1. ASSUME NEW w \in waits, ResultOf(u, w, Head(n2s))
          PROVE  ResultOf(u, w, Head(n2s))'
      BY <1>1, <2>3, <2>5, <3>1 DEF ResultOf
    <3> QED
      BY <1>1, <1>2, <1>3, <2>6, <3>1 DEF Serves, Resulted
  <2>7. CASE IsAnswered(u)
    <3>1. AnswerOf(u, Head(s2c[u]))'
      BY <1>1, <1>2, <2>3, <2>5, <2>7 DEF IsAnswered, AnswerOf
    <3> QED
      BY <1>1, <1>2, <1>3, <2>7, <3>1 DEF Serves, IsAnswered
  <2>8. ASSUME NEW kind, NEW s, NEW max, NEW t, NEW h, NEW i, NEW j, NEW f,
               Flow(u, kind, s, max, t, h, i, j, f)
        PROVE  Flow(u, kind, s, max, t, h, i, j, f)'
    BY <1>1, <1>3, <2>8 DEF Flow
  <2>9. CASE Puts(u)
    <3>1. PICK s \in Nat, t \in Nat, h \in Nat, i \in Nat, j \in Nat, f \in Nat :
              PutFlow(u, s, t, h, i, j, f)
      BY <2>9 DEF Puts
    <3>2. PutFlow(u, s, t, h, i, j, f)'
      BY <1>1, <2>3, <2>5, <2>8, <3>1 DEF PutFlow, Holds, Whole
    <3> QED
      BY <3>2 DEF Serves, Puts
  <2>10. CASE Gets(u)
    <3>1. PICK s \in Nat, t \in Nat, h \in Nat, i \in Nat, j \in Nat, f \in Nat :
              GetFlow(u, s, t, h, i, j, f)
      BY <2>10 DEF Gets
    <3>2. GetFlow(u, s, t, h, i, j, f)'
      BY <1>1, <1>2, <2>3, <2>5, <2>8, <3>1 DEF GetFlow, Copied
    <3> QED
      BY <3>2 DEF Serves, Gets
  <2> QED
    BY <1>5, <2>1, <2>2, <2>4, <2>6, <2>7, <2>9, <2>10 DEF Serves
<1> QED
  BY <1>2, <1>4, <1>5 DEF Orderly

LEMMA ServedOnly ==
    ASSUME NEW u \in Users, Serves(u)
    PROVE  Only(u)
BY DEF Serves, Typed, Removes, Asks, Ordered, Resulted, IsAnswered, Puts, Gets, PutFlow, GetFlow,
       Flow

LEMMA PutsStep ==
    ASSUME Types, Counted, Settled, NEW u \in Users, Puts(u),
           Client(u) \/ Request(u) \/ Answer \/ Node
    PROVE  Orderly'
<1>1. PICK s \in Nat, t \in Nat, h \in Nat, i \in Nat, j \in Nat, f \in Nat :
          PutFlow(u, s, t, h, i, j, f)
  BY DEF Puts
<1>2. PICK max : max = put[u].max
  OBVIOUS
<1>3. Flow(u, "put", s, max, t, h, i, j, f) /\ max \in Nat
  BY <1>1, <1>2, PutFields DEF PutFlow
<1>4. CASE Client(u)
  <2>1. ~PutRequest(u) /\ s2c[u] # <<>>
    BY <1>3, <1>4, ClientNeeds DEF Flow, PutRequest
  <2>2. Head(s2c[u]) \in Messages(s2c[u])
    BY <2>1, HeadTaken DEF Types, LinkTypes
  <2>3. Head(s2c[u]).ok /\ Head(s2c[u]).kind = "put"
    BY <1>3, <2>2 DEF Flow
  <2>4. ReadPut(u)
    BY <1>4, <2>1, <2>3 DEF Client, ReadError, ReadPutSession, ReadGetSession, ReadGet
  <2> QED
    BY <1>1, <2>4, PutsRead
<1>5. CASE Request(u)
  <2>1. Head(c2s[u]) \in Messages(c2s[u])
    BY <1>5, RequestNeeds, HeadTaken DEF Types, LinkTypes
  <2>2. Head(c2s[u]).kind = "put"
    BY <1>3, <2>1 DEF Flow
  <2>3. PutOnInit(u)
    BY <1>5, <2>2 DEF Request, PutSessionOnInit, GetSessionOnInit, GetOnInit, RemoveOnInit, Received
  <2> QED
    BY <1>1, <2>3, PutsRequest
<1>6. CASE Answer
  <2>1. PICK w \in waits : /\ w.kind = "put"
                           /\ PutSessionOnActive(w) \/ PutOnActive(w)
                              \/ GetSessionOnActive(w) \/ GetOnActive(w)
    BY <1>3, <1>6, FlowAwaited
  <2>2. PutOnActive(w)
    BY <2>1 DEF PutSessionOnActive, GetSessionOnActive, SessionOnActive, GetOnActive, Activated
  <2> QED
    BY <1>1, <2>2, PutsAnswer
<1>7. CASE Node
  <2>1. Head(s2n) \in Messages(s2n)
    BY <1>7, NodeNeeds, HeadTaken DEF Types, NodeTypes
  <2>2. Head(s2n).kind = "put"
    BY <1>3, <2>1 DEF Flow
  <2>3. NodePut
    BY <1>7, <2>2 DEF Node, NodePutSession, NodeGetSession, NodeGet, NodeReceived
  <2> QED
    BY <1>1, <2>3, PutsNode
<1> QED
  BY <1>4, <1>5, <1>6, <1>7

LEMMA GetsStep ==
    ASSUME Types, Counted, Settled, NEW u \in Users, Gets(u),
           Client(u) \/ Request(u) \/ Answer \/ Node
    PROVE  Orderly'
<1>1. PICK s \in Nat, t \in Nat, h \in Nat, i \in Nat, j \in Nat, f \in Nat :
          GetFlow(u, s, t, h, i, j, f)
  BY DEF Gets
<1>2. PICK max : max = get[u].max
  OBVIOUS
<1>3. Flow(u, "get", s, max, t, h, i, j, f) /\ max \in Nat
  BY <1>1, <1>2, GetFields DEF GetFlow
<1>4. CASE Client(u)
  <2>1. ~PutRequest(u) /\ s2c[u] # <<>>
    BY <1>3, <1>4, ClientNeeds DEF Flow, PutRequest
  <2>2. Head(s2c[u]) \in Messages(s2c[u])
    BY <2>1, HeadTaken DEF Types, LinkTypes
  <2>3. Head(s2c[u]).ok /\ Head(s2c[u]).kind = "get"
    BY <1>3, <2>2 DEF Flow
  <2>4. ReadGet(u)
    BY <1>4, <2>1, <2>3 DEF Client, ReadError, ReadPutSession, ReadGetSession, ReadPut
  <2> QED
    BY <1>1, <2>4, GetsRead
<1>5. CASE Request(u)
  <2>1. Head(c2s[u]) \in Messages(c2s[u])
    BY <1>5, RequestNeeds, HeadTaken DEF Types, LinkTypes
  <2>2. Head(c2s[u]).kind = "get"
    BY <1>3, <2>1 DEF Flow
  <2>3. GetOnInit(u)
    BY <1>5, <2>2 DEF Request, PutSessionOnInit, GetSessionOnInit, PutOnInit, RemoveOnInit, Received
  <2> QED
    BY <1>1, <2>3, GetsRequest
<1>6. CASE Answer
  <2>1. PICK w \in waits : /\ w.kind = "get"
                           /\ PutSessionOnActive(w) \/ PutOnActive(w)
                              \/ GetSessionOnActive(w) \/ GetOnActive(w)
    BY <1>3, <1>6, FlowAwaited
  <2>2. GetOnActive(w)
    BY <2>1 DEF PutSessionOnActive, GetSessionOnActive, SessionOnActive, PutOnActive, Activated
  <2> QED
    BY <1>1, <2>2, GetsAnswer
<1>7. CASE Node
  <2>1. Head(s2n) \in Messages(s2n)
    BY <1>7, NodeNeeds, HeadTaken DEF Types, NodeTypes
  <2>2. Head(s2n).kind = "get"
    BY <1>3, <2>1 DEF Flow
  <2>3. NodeGet
    BY <1>7, <2>2 DEF Node, NodePutSession, NodeGetSession, NodePut, NodeReceived
  <2> QED
    BY <1>1, <2>3, GetsNode
<1> QED
  BY <1>4, <1>5, <1>6, <1>7

\* The one step there is in each phase.
LEMMA ServesStep ==
    ASSUME Types, Counted, PathsFit, Settled, NEW u \in Users, Serves(u),
           Client(u) \/ Request(u) \/ Answer \/ Node
    PROVE  Orderly'
<1>1. CASE Typed(u)
  <2>1. ~Request(u) /\ ~Answer /\ ~Node
    BY <1>1, RequestNeeds, AnswerNeeds, NodeNeeds DEF Typed, ServerRests
  <2>2. PutRequest(u)
    BY <1>1, <2>1, ClientNeeds DEF Typed
  <2> QED
    BY <1>1, <2>2, TypedClient
<1>2. CASE Removes(u)
  <2>1. ~Client(u) /\ ~Answer /\ ~Node
    BY <1>2, ClientNeeds, AnswerNeeds, NodeNeeds DEF Removes, ServerRests
  <2> QED
    BY <1>2, <2>1, RemovesRequest
<1>3. CASE Asks(u)
  <2>1. ~Client(u) /\ ~Answer /\ ~Node
    BY <1>3, ClientNeeds, AnswerNeeds, NodeNeeds DEF Asks, ServerRests
  <2> QED
    BY <1>3, <2>1, AsksRequest
<1>4. CASE Ordered(u)
  <2>1. ~Client(u) /\ ~Request(u) /\ ~Answer
    BY <1>4, ClientNeeds, RequestNeeds, AnswerNeeds DEF Ordered
  <2> QED
    BY <1>4, <2>1, OrderedNode
<1>5. CASE Resulted(u)
  <2>1. ~Client(u) /\ ~Request(u) /\ ~Node
    BY <1>5, ClientNeeds, RequestNeeds, NodeNeeds DEF Resulted
  <2> QED
    BY <1>5, <2>1, ResultedAnswer
<1>6. CASE IsAnswered(u)
  <2>1. ~Request(u) /\ ~Answer /\ ~Node
    BY <1>6, RequestNeeds, AnswerNeeds, NodeNeeds DEF IsAnswered, ServerRests
  <2> QED
    BY <1>6, <2>1, AnsweredClient
<1> QED
  BY <1>1, <1>2, <1>3, <1>4, <1>5, <1>6, PutsStep, GetsStep DEF Serves

LEMMA UndisturbedNext ==
    ASSUME Types, Counted, PathsFit, Undisturbed, [Next]_vars
    PROVE  Undisturbed'
<1> SUFFICES ASSUME calm'
             PROVE  Orderly'
  BY DEF Undisturbed
<1>1. calm
  BY CalmStays
<1>2. Orderly /\ Settled
  BY <1>1 DEF Undisturbed, Orderly
<1>3. \/ UNCHANGED vars
      \/ \E u \in Users : Console(u) /\ Quiet
      \/ \E u \in Users : Client(u)
      \/ \E u \in Users : Request(u)
      \/ Answer
      \/ Node
  BY <1>2, CalmSteps
<1>4. CASE UNCHANGED vars
  BY <1>2, <1>4, OrderlySame
<1>5. CASE Resting
  <2>1. \A u \in Users : ~Client(u) /\ ~Request(u)
    BY <1>5, ClientNeeds, RequestNeeds DEF Resting, Rests
  <2>2. ~Answer /\ ~Node
    BY <1>5, AnswerNeeds, NodeNeeds DEF Resting, ServerRests
  <2> QED
    BY <1>2, <1>3, <1>4, <1>5, <2>1, <2>2, RestingConsole
<1>6. ASSUME NEW u \in Users, Serves(u)
      PROVE  Orderly'
  <2>1. \A v \in Users \ {u} : ~Client(v) /\ ~Request(v)
    BY <1>6, ServedOnly, ClientNeeds, RequestNeeds DEF Only, Rests
  <2>2. ~Quiet
    BY <1>6, QuietOnly
  <2> QED
    BY <1>2, <1>3, <1>4, <1>6, <2>1, <2>2, ServesStep
<1> QED
  BY <1>2, <1>5, <1>6 DEF Orderly

LEMMA UndisturbedInit ==
    Init => Undisturbed
<1> SUFFICES ASSUME Init
             PROVE  Settled /\ Resting
  BY DEF Undisturbed, Orderly
<1>1. /\ put = [u \in Users |-> [typed |-> FALSE, path |-> "", file |-> "", max |-> 0, session |-> 0]]
      /\ local = [u \in Users |-> [p \in Paths |-> <<>>]]
      /\ meta = [u \in Users |-> [p \in Paths |-> 0]]
      /\ c2s = [u \in Users |-> <<>>] /\ s2c = [u \in Users |-> <<>>]
      /\ unanswered = [u \in Users |-> 0]
      /\ online = Users /\ crashed = FALSE /\ opened = {} /\ files = {}
      /\ disk = [n \in Names |-> <<>>] /\ finished = [n \in Names |-> ""]
      /\ sessions = <<>> /\ waits = {} /\ s2n = <<>> /\ n2s = <<>>
  BY DEF Init
<1>2. Settled
  BY <1>1 DEF Settled
<1>3. \A u \in Users : Rests(u)
  BY <1>1 DEF Rests
<1>4. ServerRests
  BY <1>1 DEF ServerRests
<1>5. Complete
  <2>1. sessions = <<>> /\ sessions \in Seq(SessionType)
    BY <1>1, TypesInit DEF Types, ServerTypes
  <2>2. DOMAIN sessions = {}
    BY <2>1
  <2> QED
    BY <2>2 DEF Complete
<1>6. AllWhole
  <2>1. \A n \in Names : finished[n] = ""
    BY <1>1
  <2> QED
    BY <2>1 DEF AllWhole, Whole
<1> QED
  BY <1>2, <1>3, <1>4, <1>5, <1>6 DEF Resting

UndisturbedInv == Types /\ Counted /\ PathsFit /\ Undisturbed

LEMMA UndisturbedStays ==
    /\ Init => UndisturbedInv
    /\ UndisturbedInv /\ [Next]_vars => UndisturbedInv'
<1>1. ASSUME Init
      PROVE  PathsFit
  BY <1>1 DEF Init, PathsFit
<1>2. Init => UndisturbedInv
  BY <1>1, TypesInit, CountedInit, UndisturbedInit DEF UndisturbedInv
<1>3. UndisturbedInv /\ [Next]_vars => UndisturbedInv'
  BY TypesNext, CountedNext, PathsFitNext, UndisturbedNext DEF UndisturbedInv
<1> QED
  BY <1>2, <1>3

\* When users put one file after the other and nothing is lost or late, then the last put
\* that a client was told is finished is stored from its first fragment to its last, for
\* any number of users, paths, files and fragments: one client is served at a time, its
\* fragments are numbered without a gap on their way there and back, and those that have
\* passed the node are stored.
THEOREM FinishedAlwaysWhole ==
    Spec => []FinishedIsWhole
<1>1. UndisturbedInv => FinishedIsWhole
  <2> SUFFICES ASSUME UndisturbedInv, calm, Quiet
               PROVE  \A n \in Names : Whole(n)
    BY DEF FinishedIsWhole, Whole, Holds
  <2>1. Types /\ Counted /\ Orderly
    BY DEF UndisturbedInv, Undisturbed
  <2>2. Resting
    BY <2>1, QuietOnly DEF Orderly
  <2> QED
    BY <2>2 DEF Resting, AllWhole
<1> QED
  BY <1>1, UndisturbedStays, PTL DEF Spec

-----------------------------------------------------------------------------
(* A get ends with a copy *)

\* Only a fragment that is read changes a local file.
LEMMA LocalStays ==
    ASSUME [Next]_vars
    PROVE  UNCHANGED local \/ \E u \in Users : ReadGet(u)
<1>1. ASSUME NEW u \in Users, Client(u), ~ReadGet(u)
      PROVE  UNCHANGED local
  <2>1. CASE PutRequest(u)
    BY <2>1 DEF PutRequest
  <2>2. CASE ReadError(u)
    BY <2>2 DEF ReadError, clientVars
  <2>3. CASE ReadPutSession(u)
    BY <2>3 DEF ReadPutSession
  <2>4. CASE ReadPut(u)
    BY <2>4 DEF ReadPut, clientVars
  <2>5. CASE ReadGetSession(u)
    BY <2>5 DEF ReadGetSession
  <2> QED
    BY <1>1, <2>1, <2>2, <2>3, <2>4, <2>5 DEF Client
<1>2. ASSUME NEW u \in Users, Console(u)
      PROVE  UNCHANGED local
  <2>1. ASSUME NEW f \in Files, NEW p \in Paths, PutCommand(u, f, p)
        PROVE  UNCHANGED local
    BY <2>1 DEF PutCommand
  <2>2. ASSUME NEW p \in Paths, GetCommand(u, p)
        PROVE  UNCHANGED local
    BY <2>2 DEF GetCommand
  <2>3. ASSUME NEW p \in Paths, RemoveCommand(u, p)
        PROVE  UNCHANGED local
    BY <2>3 DEF RemoveCommand, clientVars
  <2> QED
    BY <1>2, <2>1, <2>2, <2>3 DEF Console
<1>3. ASSUME NEW u \in Users, Request(u)
      PROVE  UNCHANGED local
  <2>1. ASSUME NEW kind, Received(u, kind)
        PROVE  UNCHANGED local
    BY <2>1 DEF Received, clientVars
  <2> QED
    BY <1>3, <2>1 DEF Request, PutSessionOnInit, PutOnInit, GetSessionOnInit, GetOnInit,
                      RemoveOnInit
<1>4. ASSUME Fault
      PROVE  UNCHANGED local
  BY <1>4 DEF Fault, clientVars
<1>5. ASSUME NEW u \in Users, Login(u)
      PROVE  UNCHANGED local
  BY <1>5 DEF Login, clientVars
<1>6. ASSUME Answer
      PROVE  UNCHANGED local
  <2>1. ASSUME NEW w, NEW kind, Activated(w, kind)
        PROVE  UNCHANGED local
    BY <2>1 DEF Activated, clientVars
  <2>2. CASE LateAnswer
    BY <2>2 DEF LateAnswer, clientVars
  <2> QED
    BY <1>6, <2>1, <2>2 DEF Answer, PutSessionOnActive, PutOnActive, GetSessionOnActive,
                            GetOnActive, SessionOnActive
<1>7. ASSUME NEW w \in waits, Timeout(w)
      PROVE  UNCHANGED local
  BY <1>7 DEF Timeout, clientVars
<1>8. ASSUME Node
      PROVE  UNCHANGED local
  <2>1. ASSUME NEW kind, NodeReceived(kind)
        PROVE  UNCHANGED local
    BY <2>1 DEF NodeReceived, clientVars
  <2> QED
    BY <1>8, <2>1 DEF Node, NodePutSession, NodePut, NodeGetSession, NodeGet
<1>9. CASE UNCHANGED vars
  BY <1>9 DEF vars, clientVars
<1>10. (\E u \in Users : KickOut(u)) \/ LoseConnection \/ RestartNode => Fault
  BY DEF KickOut, LoseConnection, RestartNode
<1> QED
  BY <1>1, <1>2, <1>3, <1>4, <1>5, <1>6, <1>7, <1>8, <1>9, <1>10 DEF Next

LEMMA ReadsOwn ==
    ASSUME Types, Settled, Orderly, NEW u \in Users, ReadGet(u)
    PROVE  Gets(u)
<1>1. s2c[u] # <<>> /\ Head(s2c[u]).ok /\ Head(s2c[u]).kind = "get"
  BY DEF ReadGet
<1>2. Serves(u)
  <2>1. ~Rests(u)
    BY <1>1 DEF Rests
  <2> QED
    BY <2>1, ServedOnly DEF Orderly, Resting, Only
<1>3. ~Puts(u)
  <2>1. Head(s2c[u]) \in Messages(s2c[u])
    BY <1>1, HeadTaken DEF Types, LinkTypes
  <2> QED
    BY <1>1, <2>1 DEF Puts, PutFlow, Flow
<1> QED
  BY <1>1, <1>2, <1>3 DEF Serves, Typed, Removes, Asks, Ordered, Resulted, IsAnswered, AnswerOf

\* When nothing is lost, late or at the same time, a get into a new local file ends with
\* a copy of what is stored, for any number of users, paths and fragments.
THEOREM GotAlwaysWhole ==
    Spec => GotIsWhole
<1>1. ASSUME UndisturbedInv, [Next]_vars, NEW u \in Users,
             calm, local'[u] # local[u], unanswered'[u] = 0
      PROVE  local'[u][get[u].path] = disk[FileName[get[u].path]]
  <2>1. Types /\ Counted /\ Orderly /\ Settled
    BY <1>1 DEF UndisturbedInv, Undisturbed, Orderly
  <2>2. PICK v \in Users : ReadGet(v)
    BY <1>1, <2>1, LocalStays
  <2>3. Gets(v)
    BY <2>1, <2>2, ReadsOwn
  <2>4. PICK s \in Nat, t \in Nat, h \in Nat, i \in Nat, j \in Nat, f \in Nat :
            GetFlow(v, s, t, h, i, j, f)
    BY <2>3 DEF Gets
  <2>5. Appends(v, h)
    BY <2>1, <2>2, <2>4, GetsReadDoes
  <2>6. unanswered'[v] + h + 1 = get[v].max
    BY <2>1, <2>2, <2>4, GetsReadDoes
  <2>7. v = u
    BY <1>1, <2>5 DEF Appends
  <2>8. PICK all : all = disk[GetName(u)]
    OBVIOUS
  <2>9. IsGet(u, s) /\ get[u].max = Len(all)
    BY <2>4, <2>7, <2>8 DEF GetFlow
  <2>10. all \in Seq(Data)
    BY <2>1, <2>8, <2>9, GetFields
  <2>11. h + 1 = Len(all)
    BY <1>1, <2>6, <2>7, <2>9
  <2>12. local'[u][get[u].path] = SubSeq(all, 1, Len(all))
    BY <2>5, <2>7, <2>8, <2>11 DEF Appends
  <2>13. SubSeq(all, 1, Len(all)) = all
    BY <2>10
  <2> QED
    BY <2>8, <2>12, <2>13 DEF GetName
<1>2. UndisturbedInv /\ [Next]_vars =>
          [\A u \in Users : calm /\ local'[u] # local[u] /\ unanswered'[u] = 0 =>
               local'[u][get[u].path] = disk[FileName[get[u].path]]]_vars
  BY <1>1
<1> QED
  BY <1>2, UndisturbedStays, PTL DEF Spec, GotIsWhole

=============================================================================
