---------------------------- MODULE SharingProofs ----------------------------
(***************************************************************************)
(* What Sharing promises for any number of users, groups, nodes and        *)
(* connections: its type, that the owner keeps its roles, that no list     *)
(* holds anybody twice, that every group has a node, that newcomers        *)
(* inherit nothing, and that the two lists implement Roles.                *)
(***************************************************************************)
EXTENDS Sharing, TLAPS

\* Ids, and what hangs on them, exist only once they are given.
Issued ==
    /\ \A u \in users : u < nextUser
    /\ \A c \in Conns : logins[c] < nextUser
    /\ \A g \in GroupIds, u \in UserIds :
           u >= nextUser => managers[g][u] = 0 /\ members[g][u] = 0
    /\ nodes = 1 .. nextNode - 1

\* A group has an owner from the moment it exists, and nobody before.
Founded ==
    \A g \in GroupIds :
        /\ g < nextGroup => owner[g] \in UserIds
        /\ g >= nextGroup => owner[g] = NoUser
        /\ g >= nextGroup => \A u \in UserIds : managers[g][u] = 0 /\ members[g][u] = 0

IInv == TypeOK /\ Issued /\ Founded /\ OwnerListed /\ ListedOnce /\ GroupsHaveNodes

-----------------------------------------------------------------------------
(* Lists *)

Lists == [UserIds -> Nat]

LEMMA PushBackList ==
    ASSUME NEW list \in Lists, NEW u \in UserIds
    PROVE  /\ PushBack(list, u) \in Lists
           /\ \A v \in UserIds :
                  PushBack(list, u)[v] = IF v = u THEN list[v] + 1 ELSE list[v]
BY DEF Lists, PushBack

LEMMA EraseFirstList ==
    ASSUME NEW list \in Lists, NEW u \in UserIds
    PROVE  /\ EraseFirst(list, u) \in Lists
           /\ \A v \in UserIds :
                  EraseFirst(list, u)[v] =
                      IF v = u /\ list[v] > 0 THEN list[v] - 1 ELSE list[v]
BY DEF Lists, EraseFirst

LEMMA NoOneList == NoOne \in Lists /\ \A u \in UserIds : NoOne[u] = 0
BY DEF NoOne, Lists

\* Who is pushed is on the list, and nobody else is that was not.
LEMMA PushBackSet ==
    ASSUME NEW list \in Lists, NEW u \in UserIds
    PROVE  AsSet(PushBack(list, u)) = AsSet(list) \cup {u}
BY PushBackList DEF AsSet, Has, Lists

\* One erase takes away a user who is listed once.
LEMMA EraseFirstSet ==
    ASSUME NEW list \in Lists, NEW u \in UserIds, list[u] <= 1
    PROVE  AsSet(EraseFirst(list, u)) = AsSet(list) \ {u}
BY EraseFirstList DEF AsSet, Has, Lists

-----------------------------------------------------------------------------
(* The initial states *)

LEMMA InitIInv == Init => IInv
  <1> SUFFICES ASSUME Init PROVE IInv
    OBVIOUS
  <1> USE SharingAssumption
  <1>1. Root \in UserIds /\ Official \in GroupIds /\ 1 \in NodeIds
    BY DEF Root, Official, UserIds, GroupIds, NodeIds
  <1>2. PushBack(NoOne, Root) \in Lists
        /\ \A u \in UserIds : PushBack(NoOne, Root)[u] = IF u = Root THEN 1 ELSE 0
    BY <1>1, NoOneList, PushBackList
  <1>3. \A g \in GroupIds :
           /\ managers[g] = IF g = Official THEN PushBack(NoOne, Root) ELSE NoOne
           /\ members[g] = managers[g]
           /\ owner[g] = IF g = Official THEN Root ELSE NoUser
           /\ groupNode[g] = IF g = Official THEN 1 ELSE 0
    BY DEF Init
  <1>4. /\ managers \in [GroupIds -> Lists]
        /\ members \in [GroupIds -> Lists]
    BY <1>2, <1>3, NoOneList DEF Init
  <1>5. TypeOK
    BY <1>1, <1>4 DEF Init, TypeOK, Root, Official, UserIds, Lists, NodeIds, NoUser
  <1>6. Issued
    BY <1>1, <1>2, <1>3, NoOneList DEF Init, Issued, Root, Official, NoUser, Conns, UserIds, NodeIds
  <1>7. Founded
    BY <1>1, <1>3, NoOneList DEF Init, Founded, Official, GroupIds
  <1>8. OwnerListed /\ ListedOnce
    BY <1>1, <1>2, <1>3, NoOneList
       DEF Init, OwnerListed, ListedOnce, IsGroup, IsManager, IsMember, Has, Official, GroupIds
  <1>9. GroupsHaveNodes
    BY <1>1, <1>3 DEF Init, GroupsHaveNodes, IsGroup, Official, GroupIds, NodeIds
  <1>10. QED
    BY <1>5, <1>6, <1>7, <1>8, <1>9 DEF IInv

-----------------------------------------------------------------------------
(* The steps *)

IVars == <<users, nextUser, logins, groupVars, nodes, nextNode>>

\* Nothing in IInv but the types looks at the clock, the heartbeats, the use of
\* nodes or the list of root users.
LEMMA UntouchedIInv ==
    ASSUME IInv, TypeOK', UNCHANGED IVars
    PROVE  IInv'
  <1>1. Issued' /\ Founded'
    BY DEF IInv, IVars, groupVars, Issued, Founded
  <1>2. OwnerListed' /\ ListedOnce' /\ GroupsHaveNodes'
    BY DEF IInv, IVars, groupVars, OwnerListed, ListedOnce, GroupsHaveNodes,
           IsGroup, IsManager, IsMember
  <1>3. QED
    BY <1>1, <1>2 DEF IInv

LEMMA ClockIInv == IInv /\ Clock => IInv'
  <1> SUFFICES ASSUME IInv, Clock PROVE IInv'
    OBVIOUS
  <1>1. TypeOK'
    BY SharingAssumption DEF IInv, TypeOK, Clock, userVars, groupVars, nodeVars
  <1>2. QED
    BY <1>1, UntouchedIInv DEF Clock, IVars, userVars, groupVars, nodeVars

LEMMA PingIInv == ASSUME NEW c \in Conns, IInv, Ping(c) PROVE IInv'
  <1>1. now \in 0 .. MaxTime
    BY SharingAssumption DEF IInv, TypeOK
  <1>2. beat' \in [UserIds -> 0 .. MaxTime]
    BY <1>1 DEF IInv, TypeOK, Ping
  <1>3. TypeOK'
    BY <1>2 DEF IInv, TypeOK, Ping, groupVars, nodeVars
  <1>4. QED
    BY <1>3, UntouchedIInv DEF Ping, IVars, groupVars, nodeVars

\* The groups and the nodes are left alone.
LEMMA UsersIInv ==
    ASSUME IInv, TypeOK', UNCHANGED <<groupVars, nodeVars>>,
           nextUser' >= nextUser,
           \A u \in users' : u < nextUser',
           \A c \in Conns : logins'[c] < nextUser'
    PROVE  IInv'
  <1>1. Issued'
    BY DEF IInv, TypeOK, groupVars, nodeVars, Issued, UserIds
  <1>2. Founded' /\ OwnerListed' /\ ListedOnce' /\ GroupsHaveNodes'
    BY DEF IInv, groupVars, nodeVars, Founded, OwnerListed, ListedOnce, GroupsHaveNodes,
           IsGroup, IsManager, IsMember
  <1>3. QED
    BY <1>1, <1>2 DEF IInv

LEMMA RegisterUserIInv == IInv /\ RegisterUser => IInv'
  <1> SUFFICES ASSUME IInv, RegisterUser PROVE IInv'
    OBVIOUS
  <1>0. nextUser' \in 2 .. MaxUsers + 1 /\ users' \in SUBSET UserIds
    BY SharingAssumption DEF IInv, TypeOK, RegisterUser, UserIds
  <1>b. beat' \in [UserIds -> 0 .. MaxTime]
    BY SharingAssumption DEF IInv, TypeOK, RegisterUser
  <1>1. TypeOK'
    BY <1>0, <1>b DEF IInv, TypeOK, RegisterUser, groupVars, nodeVars
  <1>2. \A u \in users' : u < nextUser'
    BY DEF IInv, TypeOK, Issued, RegisterUser, UserIds
  <1>3. \A c \in Conns : logins'[c] < nextUser'
    BY DEF IInv, TypeOK, Issued, RegisterUser, UserIds, NoUser
  <1>4. QED
    BY <1>1, <1>2, <1>3, UsersIInv DEF IInv, TypeOK, RegisterUser, groupVars, nodeVars

LEMMA LoginIInv ==
    ASSUME NEW c \in Conns, NEW u \in UserIds, IInv, Login(c, u)
    PROVE  IInv'
  <1>1. TypeOK'
    BY DEF IInv, TypeOK, Login, groupVars, nodeVars
  <1>2. \A d \in Conns : logins'[d] < nextUser'
    BY DEF IInv, TypeOK, Issued, Login
  <1>3. UNCHANGED <<users, nextUser, groupVars, nodeVars>>
    BY DEF Login
  <1>4. nextUser' >= nextUser /\ \A v \in users' : v < nextUser'
    BY <1>3 DEF IInv, TypeOK, Issued
  <1>5. QED
    BY <1>1, <1>2, <1>3, <1>4, UsersIInv

LEMMA RemoveUserIInv ==
    ASSUME NEW c \in Conns, NEW u \in UserIds, IInv, RemoveUser(c, u)
    PROVE  IInv'
  <1>0. beat' \in [UserIds -> 0 .. MaxTime]
    BY SharingAssumption DEF IInv, TypeOK, RemoveUser
  <1>1. TypeOK'
    BY <1>0 DEF IInv, TypeOK, RemoveUser, groupVars, nodeVars
  <1>2. nextUser' = nextUser /\ nextUser \in Nat /\ users' \subseteq users /\ logins' = logins
    BY DEF IInv, TypeOK, RemoveUser
  <1>3. UNCHANGED <<groupVars, nodeVars>>
    BY DEF RemoveUser
  <1>4. nextUser' >= nextUser /\ (\A v \in users' : v < nextUser')
        /\ (\A d \in Conns : logins'[d] < nextUser')
    BY <1>2 DEF IInv, Issued
  <1>5. QED
    BY <1>1, <1>3, <1>4, UsersIInv

LEMMA KickOutOfflineIInv == IInv /\ KickOutOffline => IInv'
  <1> SUFFICES ASSUME IInv, KickOutOffline PROVE IInv'
    OBVIOUS
  <1>1. PICK first \in Conns, more \in SUBSET Conns :
           /\ logins' = KickedOut(first, more)
           /\ UNCHANGED <<now, users, nextUser, rootUsers, beat, groupVars, nodeVars>>
    BY DEF KickOutOffline
  <1>2. \A c \in Conns : logins'[c] = logins[c] \/ logins'[c] = NoUser
    BY <1>1 DEF KickedOut
  <1>3. TypeOK'
    BY <1>1 DEF IInv, TypeOK, KickedOut, groupVars, nodeVars
  <1>a. nextUser' = nextUser /\ nextUser \in Nat \ {0}
    BY <1>1 DEF IInv, TypeOK
  <1>4. \A c \in Conns : logins'[c] < nextUser'
    BY <1>2, <1>a DEF IInv, Issued, NoUser
  <1>5. nextUser' >= nextUser /\ \A v \in users' : v < nextUser'
    BY <1>1, <1>a DEF IInv, Issued
  <1>6. QED
    BY <1>1, <1>3, <1>4, <1>5, UsersIInv

LEMMA RegisterNodeIInv == IInv /\ RegisterNode => IInv'
  <1> SUFFICES ASSUME IInv, RegisterNode PROVE IInv'
    OBVIOUS
  <1>1. TypeOK'
    BY SharingAssumption DEF IInv, TypeOK, RegisterNode, NodeIds, userVars, groupVars
  <1>2. Issued'
    BY DEF IInv, TypeOK, Issued, RegisterNode, userVars, groupVars, NodeIds
  <1>3. Founded' /\ OwnerListed' /\ ListedOnce'
    BY DEF IInv, Founded, OwnerListed, ListedOnce, RegisterNode, groupVars,
           IsGroup, IsManager, IsMember
  <1>4. GroupsHaveNodes'
    BY DEF IInv, GroupsHaveNodes, RegisterNode, groupVars, IsGroup
  <1>5. QED
    BY <1>1, <1>2, <1>3, <1>4 DEF IInv

\* A step that sets the entries of one user in the lists of one group.
Lists1(g, u, ms, ns) ==
    /\ managers' = [managers EXCEPT ![g] = ms]
    /\ members' = [members EXCEPT ![g] = ns]
    /\ \A v \in UserIds : v # u => ms[v] = managers[g][v] /\ ns[v] = members[g][v]
    /\ UNCHANGED <<now, userVars, nextGroup, owner, groupNode, nodeVars>>

LEMMA ListsIInv ==
    ASSUME IInv, NEW g \in GroupIds, g < nextGroup,
           NEW u \in UserIds, u < nextUser, u # owner[g],
           NEW ms \in Lists, NEW ns \in Lists, Lists1(g, u, ms, ns),
           ms[u] <= 1, ns[u] <= 1
    PROVE  IInv'
  <1> USE DEF Lists1
  <1>1. TypeOK'
    BY DEF IInv, TypeOK, userVars, nodeVars, Lists
  <1>2. \A h \in GroupIds, v \in UserIds : h # g \/ v # u =>
           managers'[h][v] = managers[h][v] /\ members'[h][v] = members[h][v]
    BY DEF IInv, TypeOK
  <1>3. managers'[g][u] = ms[u] /\ members'[g][u] = ns[u]
    BY DEF IInv, TypeOK
  <1>4. Issued'
    BY <1>2 DEF IInv, Issued, TypeOK, UserIds, userVars, nodeVars
  <1>5. Founded'
    BY <1>2 DEF IInv, Founded, TypeOK, GroupIds
  <1>6. OwnerListed'
    BY <1>2 DEF IInv, Founded, OwnerListed, IsGroup, IsManager, IsMember, Has
  <1>7. ListedOnce'
    BY <1>2, <1>3 DEF IInv, ListedOnce
  <1>8. GroupsHaveNodes'
    BY DEF IInv, GroupsHaveNodes, IsGroup, nodeVars
  <1>9. QED
    BY <1>1, <1>4, <1>5, <1>6, <1>7, <1>8 DEF IInv

\* Who is logged in, or listed, has an id that was given.
LEMMA ActorIssued ==
    ASSUME IInv, NEW c \in Conns, LoggedIn(c)
    PROVE  LoginUser(c) \in users /\ LoginUser(c) \in UserIds /\ LoginUser(c) < nextUser
BY DEF IInv, TypeOK, Issued, LoggedIn, LoginUser

LEMMA ListedIssued ==
    ASSUME IInv, NEW g \in GroupIds, NEW u \in UserIds, IsManager(g, u) \/ IsMember(g, u)
    PROVE  u < nextUser /\ IsGroup(g)
BY DEF IInv, TypeOK, Issued, Founded, IsManager, IsMember, Has, IsGroup, UserIds, GroupIds

LEMMA JoinGroupIInv ==
    ASSUME NEW c \in Conns, NEW g \in GroupIds, IInv, JoinGroup(c, g)
    PROVE  IInv'
  <1> DEFINE u == LoginUser(c)
  <1> DEFINE ns == PushBack(members[g], u)
  <1>1. u \in UserIds /\ u < nextUser
    BY ActorIssued DEF JoinGroup
  <1>2. g < nextGroup
    BY DEF JoinGroup, IsGroup
  <1>3. u # owner[g]
    BY <1>2 DEF JoinGroup, IInv, OwnerListed, IsGroup
  <1>4. members[g] \in Lists /\ managers[g] \in Lists
    BY DEF IInv, TypeOK, Lists
  <1>5. members[g][u] = 0
    BY <1>1, <1>4 DEF JoinGroup, IsMember, Has, Lists
  <1>6. /\ ns \in Lists
        /\ \A v \in UserIds : ns[v] = IF v = u THEN members[g][v] + 1 ELSE members[g][v]
    BY <1>1, <1>4, PushBackList
  <1>7. Lists1(g, u, managers[g], ns)
    BY <1>6 DEF JoinGroup, Lists1, IInv, TypeOK
  <1>8. managers[g][u] <= 1 /\ ns[u] <= 1
    BY <1>1, <1>5, <1>6 DEF IInv, ListedOnce
  <1> HIDE DEF u, ns
  <1>9. QED
    BY <1>1, <1>2, <1>3, <1>4, <1>6, <1>7, <1>8, ListsIInv

LEMMA AssignAsManagerIInv ==
    ASSUME NEW c \in Conns, NEW g \in GroupIds, NEW u \in UserIds,
           IInv, AssignAsManager(c, g, u)
    PROVE  IInv'
  <1> DEFINE ms == PushBack(EraseFirst(managers[g], u), u)
  <1> DEFINE ns == EraseFirst(members[g], u)
  <1>1. u < nextUser /\ g < nextGroup /\ u # owner[g]
    BY ListedIssued DEF AssignAsManager, IsGroup
  <1>2. members[g] \in Lists /\ managers[g] \in Lists
    BY DEF IInv, TypeOK, Lists
  <1>3. /\ EraseFirst(managers[g], u) \in Lists
        /\ \A v \in UserIds : EraseFirst(managers[g], u)[v] =
               IF v = u /\ managers[g][v] > 0 THEN managers[g][v] - 1 ELSE managers[g][v]
    BY <1>2, EraseFirstList
  <1>4. /\ ms \in Lists
        /\ \A v \in UserIds : ms[v] = IF v = u THEN EraseFirst(managers[g], u)[v] + 1
                                      ELSE EraseFirst(managers[g], u)[v]
    BY <1>3, PushBackList
  <1>5. /\ ns \in Lists
        /\ \A v \in UserIds : ns[v] =
               IF v = u /\ members[g][v] > 0 THEN members[g][v] - 1 ELSE members[g][v]
    BY <1>2, EraseFirstList
  <1>6. ms[u] <= 1 /\ ns[u] <= 1
    BY <1>2, <1>3, <1>4, <1>5 DEF IInv, ListedOnce, Lists
  <1>7. Lists1(g, u, ms, ns)
    BY <1>3, <1>4, <1>5 DEF AssignAsManager, Lists1
  <1> HIDE DEF ms, ns
  <1>8. QED
    BY <1>1, <1>4, <1>5, <1>6, <1>7, ListsIInv

LEMMA AssignAsMemberIInv ==
    ASSUME NEW c \in Conns, NEW g \in GroupIds, NEW u \in UserIds,
           IInv, AssignAsMember(c, g, u)
    PROVE  IInv'
  <1> DEFINE ms == EraseFirst(managers[g], u)
  <1> DEFINE ns == PushBack(EraseFirst(members[g], u), u)
  <1>1. u < nextUser /\ g < nextGroup /\ u # owner[g]
    BY ListedIssued DEF AssignAsMember, IsGroup
  <1>2. members[g] \in Lists /\ managers[g] \in Lists
    BY DEF IInv, TypeOK, Lists
  <1>3. /\ EraseFirst(members[g], u) \in Lists
        /\ \A v \in UserIds : EraseFirst(members[g], u)[v] =
               IF v = u /\ members[g][v] > 0 THEN members[g][v] - 1 ELSE members[g][v]
    BY <1>2, EraseFirstList
  <1>4. /\ ns \in Lists
        /\ \A v \in UserIds : ns[v] = IF v = u THEN EraseFirst(members[g], u)[v] + 1
                                      ELSE EraseFirst(members[g], u)[v]
    BY <1>3, PushBackList
  <1>5. /\ ms \in Lists
        /\ \A v \in UserIds : ms[v] =
               IF v = u /\ managers[g][v] > 0 THEN managers[g][v] - 1 ELSE managers[g][v]
    BY <1>2, EraseFirstList
  <1>6. ms[u] <= 1 /\ ns[u] <= 1
    BY <1>2, <1>3, <1>4, <1>5 DEF IInv, ListedOnce, Lists
  <1>7. Lists1(g, u, ms, ns)
    BY <1>3, <1>4, <1>5 DEF AssignAsMember, Lists1
  <1> HIDE DEF ms, ns
  <1>8. QED
    BY <1>1, <1>4, <1>5, <1>6, <1>7, ListsIInv

LEMMA KickOutUserIInv ==
    ASSUME NEW c \in Conns, NEW g \in GroupIds, NEW u \in UserIds,
           IInv, KickOutUser(c, g, u)
    PROVE  IInv'
  <1> DEFINE ms == EraseFirst(managers[g], u)
  <1> DEFINE ns == EraseFirst(members[g], u)
  <1>1. u < nextUser /\ g < nextGroup /\ u # owner[g]
    BY ListedIssued DEF KickOutUser, IsGroup
  <1>2. members[g] \in Lists /\ managers[g] \in Lists
    BY DEF IInv, TypeOK, Lists
  <1>3. /\ ms \in Lists
        /\ \A v \in UserIds : ms[v] =
               IF v = u /\ managers[g][v] > 0 THEN managers[g][v] - 1 ELSE managers[g][v]
    BY <1>2, EraseFirstList
  <1>4. /\ ns \in Lists
        /\ \A v \in UserIds : ns[v] =
               IF v = u /\ members[g][v] > 0 THEN members[g][v] - 1 ELSE members[g][v]
    BY <1>2, EraseFirstList
  <1>5. ms[u] <= 1 /\ ns[u] <= 1
    BY <1>2, <1>3, <1>4 DEF IInv, ListedOnce, Lists
  <1>6. Lists1(g, u, ms, ns)
    BY <1>3, <1>4 DEF KickOutUser, Lists1
  <1> HIDE DEF ms, ns
  <1>7. QED
    BY <1>1, <1>3, <1>4, <1>5, <1>6, ListsIInv

LEMMA RegisterGroupIInv ==
    ASSUME NEW c \in Conns, IInv, RegisterGroup(c)
    PROVE  IInv'
  <1> DEFINE u == LoginUser(c)
  <1> DEFINE new == PushBack(NoOne, u)
  <1>1. u \in UserIds /\ u < nextUser
    BY ActorIssued DEF RegisterGroup
  <1>2. new \in Lists /\ \A v \in UserIds : new[v] = IF v = u THEN 1 ELSE 0
    BY <1>1, NoOneList, PushBackList
  <1>3. nextGroup \in GroupIds /\ nextGroup' = nextGroup + 1
    BY DEF RegisterGroup
  <1>4. /\ owner' = [owner EXCEPT ![nextGroup] = u]
        /\ managers' = [managers EXCEPT ![nextGroup] = new]
        /\ members' = [members EXCEPT ![nextGroup] = new]
        /\ UNCHANGED <<now, userVars, nodes, nextNode>>
    BY DEF RegisterGroup
  <1>5. PICK n \in NodeIds :
           /\ groupNode' = [groupNode EXCEPT ![nextGroup] = n]
           /\ n \in nodes \/ (nodes = {} /\ n = nextNode)
           /\ use' \in [NodeIds -> Nat]
    <2>1. CASE nodes = {} /\ groupNode' = [groupNode EXCEPT ![nextGroup] = nextNode]
                 /\ UNCHANGED use
      <3>1. nextNode = 1
        <4>1. nextNode \in 1 .. MaxNodes + 1 /\ nodes = 1 .. nextNode - 1
          BY DEF IInv, TypeOK, Issued
        <4>2. nextNode # 1 => 1 \in 1 .. nextNode - 1
          BY <4>1
        <4>3. QED
          BY <2>1, <4>1, <4>2
      <3>2. 1 \in NodeIds
        BY SharingAssumption DEF NodeIds
      <3>3. QED
        BY <2>1, <3>1, <3>2 DEF IInv, TypeOK
    <2>2. CASE \E n \in NodeIds :
                 /\ IsFitNode(n)
                 /\ groupNode' = [groupNode EXCEPT ![nextGroup] = n]
                 /\ use' = [use EXCEPT ![n] = @ + 1]
      <3>1. PICK n \in NodeIds :
               /\ IsFitNode(n)
               /\ groupNode' = [groupNode EXCEPT ![nextGroup] = n]
               /\ use' = [use EXCEPT ![n] = @ + 1]
        BY <2>2
      <3>2. n \in nodes /\ use' \in [NodeIds -> Nat]
        BY <3>1 DEF IInv, TypeOK, IsFitNode
      <3>3. QED
        BY <3>1, <3>2
    <2>3. QED
      BY <2>1, <2>2 DEF RegisterGroup
  <1> HIDE DEF u, new
  <1>6. TypeOK'
    <2>1. nextGroup' \in 2 .. MaxGroups + 1
      BY <1>3, SharingAssumption DEF IInv, TypeOK, GroupIds
    <2>2. /\ owner' \in [GroupIds -> UserIds \cup {NoUser}]
          /\ managers' \in [GroupIds -> [UserIds -> Nat]]
          /\ members' \in [GroupIds -> [UserIds -> Nat]]
      BY <1>1, <1>2, <1>3, <1>4 DEF IInv, TypeOK, Lists
    <2>3. groupNode' \in [GroupIds -> NodeIds \cup {0}]
      BY <1>5 DEF IInv, TypeOK
    <2>4. QED
      BY <1>4, <1>5, <2>1, <2>2, <2>3 DEF IInv, TypeOK, userVars
  <1>7. \A h \in GroupIds :
           /\ owner'[h] = IF h = nextGroup THEN u ELSE owner[h]
           /\ managers'[h] = IF h = nextGroup THEN new ELSE managers[h]
           /\ members'[h] = IF h = nextGroup THEN new ELSE members[h]
           /\ groupNode'[h] = IF h = nextGroup THEN n ELSE groupNode[h]
    BY <1>3, <1>4, <1>5 DEF IInv, TypeOK
  <1>8. Issued'
    <2>1. \A h \in GroupIds, v \in UserIds :
             v >= nextUser => managers'[h][v] = 0 /\ members'[h][v] = 0
      <3> SUFFICES ASSUME NEW h \in GroupIds, NEW v \in UserIds, v >= nextUser
                   PROVE  managers'[h][v] = 0 /\ members'[h][v] = 0
        OBVIOUS
      <3>1. CASE h = nextGroup
        <4>1. v # u
          BY <1>1 DEF IInv, TypeOK, UserIds
        <4>2. managers'[h] = new /\ members'[h] = new
          BY <1>7, <3>1
        <4>3. QED
          BY <1>2, <4>1, <4>2
      <3>2. CASE h # nextGroup
        <4>1. managers'[h] = managers[h] /\ members'[h] = members[h]
          BY <1>7, <3>2
        <4>2. QED
          BY <4>1 DEF IInv, Issued
      <3>3. QED
        BY <3>1, <3>2
    <2>2. QED
      BY <1>4, <2>1 DEF IInv, Issued, userVars
  <1>a. \A h \in GroupIds :
           /\ h < nextGroup' <=> (h < nextGroup \/ h = nextGroup)
           /\ h >= nextGroup' => (h # nextGroup /\ h >= nextGroup)
    BY <1>3 DEF GroupIds
  <1>9. Founded'
    <2> SUFFICES ASSUME NEW h \in GroupIds
                 PROVE  /\ h < nextGroup' => owner'[h] \in UserIds
                        /\ h >= nextGroup' => owner'[h] = NoUser
                        /\ h >= nextGroup' => \A v \in UserIds :
                               managers'[h][v] = 0 /\ members'[h][v] = 0
      BY DEF Founded
    <2>1. CASE h = nextGroup
      BY <1>1, <1>7, <1>a, <2>1
    <2>2. CASE h # nextGroup
      <3>1. owner'[h] = owner[h] /\ managers'[h] = managers[h] /\ members'[h] = members[h]
        BY <1>7, <2>2
      <3>2. QED
        BY <1>a, <2>2, <3>1 DEF IInv, Founded
    <2>3. QED
      BY <2>1, <2>2
  <1>10. OwnerListed' /\ ListedOnce'
    <2>1. \A v \in UserIds : new[v] <= 1
      BY <1>2
    <2>2. ListedOnce'
      BY <1>7, <2>1 DEF IInv, ListedOnce
    <2>3. new[u] > 0
      BY <1>1, <1>2
    <2>4. OwnerListed'
      <3> SUFFICES ASSUME NEW h \in GroupIds, h < nextGroup'
                   PROVE  managers'[h][owner'[h]] > 0 /\ members'[h][owner'[h]] > 0
        BY DEF OwnerListed, IsGroup, IsManager, IsMember, Has
      <3>1. CASE h = nextGroup
        <4>1. owner'[h] = u /\ managers'[h] = new /\ members'[h] = new
          BY <1>7, <3>1
        <4>2. QED
          BY <2>3, <4>1
      <3>2. CASE h # nextGroup
        BY <1>7, <1>a, <3>2 DEF IInv, OwnerListed, IsGroup, IsManager, IsMember, Has
      <3>3. QED
        BY <3>1, <3>2
    <2>5. QED
      BY <2>2, <2>4
  <1>11. GroupsHaveNodes'
    BY <1>3, <1>4, <1>5, <1>7 DEF IInv, GroupsHaveNodes, IsGroup, TypeOK, GroupIds
  <1>12. QED
    BY <1>6, <1>8, <1>9, <1>10, <1>11 DEF IInv

LEMMA StepIInv == IInv /\ [Next]_vars => IInv'
  <1> SUFFICES ASSUME IInv, [Next]_vars PROVE IInv'
    OBVIOUS
  <1>1. CASE UNCHANGED vars
    <2>1. TypeOK'
      BY <1>1 DEF IInv, TypeOK, vars, userVars, groupVars, nodeVars
    <2>2. QED
      BY <1>1, <2>1, UntouchedIInv DEF vars, userVars, nodeVars, IVars
  <1>2. CASE Clock \/ RegisterUser \/ KickOutOffline \/ RegisterNode
    BY <1>2, ClockIInv, RegisterUserIInv, KickOutOfflineIInv, RegisterNodeIInv
  <1>3. CASE \E c \in Conns : Ping(c) \/ RegisterGroup(c)
    BY <1>3, PingIInv, RegisterGroupIInv
  <1>4. CASE \E c \in Conns, u \in UserIds : Login(c, u) \/ RemoveUser(c, u)
    BY <1>4, LoginIInv, RemoveUserIInv
  <1>5. CASE \E c \in Conns, g \in GroupIds : JoinGroup(c, g)
    BY <1>5, JoinGroupIInv
  <1>6. CASE \E c \in Conns, g \in GroupIds, u \in UserIds :
               AssignAsManager(c, g, u) \/ AssignAsMember(c, g, u) \/ KickOutUser(c, g, u)
    BY <1>6, AssignAsManagerIInv, AssignAsMemberIInv, KickOutUserIInv
  <1>7. QED
    BY <1>1, <1>2, <1>3, <1>4, <1>5, <1>6 DEF Next

-----------------------------------------------------------------------------
(* The invariants *)

LEMMA AlwaysIInv == Spec => []IInv
  <1>1. Init => IInv
    BY InitIInv
  <1>2. IInv /\ [Next]_vars => IInv'
    BY StepIInv
  <1>3. QED
    BY <1>1, <1>2, PTL DEF Spec

\* Every variable keeps its type.
THEOREM SharingTypeCorrect == Spec => []TypeOK
  <1>1. IInv => TypeOK
    BY DEF IInv
  <1>2. QED
    BY <1>1, AlwaysIInv, PTL

\* The owner of a group (SharingGroup) stays in its list of managers and in its
\* list of members, whatever the managers do.
THEOREM OwnerKeepsRoles == Spec => []OwnerListed
  <1>1. IInv => OwnerListed
    BY DEF IInv
  <1>2. QED
    BY <1>1, AlwaysIInv, PTL

\* No list of a group holds a user twice, so that the single erase of
\* kick_out_user takes a role away.
THEOREM NobodyTwice == Spec => []ListedOnce
  <1>1. IInv => ListedOnce
    BY DEF IInv
  <1>2. QED
    BY <1>1, AlwaysIInv, PTL

\* The node that get_fit_node gave a group is registered, or will be the first.
THEOREM EveryGroupHasANode == Spec => []GroupsHaveNodes
  <1>1. IInv => GroupsHaveNodes
    BY DEF IInv
  <1>2. QED
    BY <1>1, AlwaysIInv, PTL

-----------------------------------------------------------------------------
(* Newcomers *)

Clean(u) ==
    /\ \A c \in Conns : logins'[c] # u
    /\ \A g \in GroupIds : ~ IsManager(g, u)' /\ ~ IsMember(g, u)'

LEMMA OnlyRegistrationAdds ==
    ASSUME [Next]_vars, ~ RegisterUser
    PROVE  users' \subseteq users
BY DEF Next, vars, userVars, Clock, KickOutOffline, RegisterNode, Ping, RegisterGroup,
       Login, RemoveUser, JoinGroup, AssignAsManager, AssignAsMember, KickOutUser

LEMMA NewcomerStep ==
    ASSUME IInv, [Next]_vars, NEW u \in users' \ users
    PROVE  Clean(u)
  <1>1. RegisterUser
    BY OnlyRegistrationAdds
  <1>2. u = nextUser /\ u \in UserIds
    BY <1>1 DEF RegisterUser
  <1>3. \A c \in Conns : logins'[c] # u
    BY <1>1, <1>2 DEF RegisterUser, IInv, TypeOK, Issued, UserIds, NoUser
  <1>4. \A g \in GroupIds : ~ IsManager(g, u)' /\ ~ IsMember(g, u)'
    BY <1>1, <1>2 DEF RegisterUser, groupVars, IInv, TypeOK, Issued, UserIds,
                      IsManager, IsMember, Has
  <1>5. QED
    BY <1>3, <1>4 DEF Clean

\* remove_user leaves logins and roles behind, but a user who registers later
\* (register_user) starts with none of either.
THEOREM NewcomersInheritNothing == Spec => NewcomersAreClean
  <1>1. IInv /\ [Next]_vars => [\A u \in users' \ users : Clean(u)]_vars
    BY NewcomerStep
  <1>2. Spec => [][\A u \in users' \ users : Clean(u)]_vars
    BY <1>1, AlwaysIInv, PTL DEF Spec
  <1>3. QED
    BY <1>2 DEF NewcomersAreClean, Clean

-----------------------------------------------------------------------------
(* Rights *)

ByAManager(g) == \E c \in Conns : LoggedIn(c) /\ IsManager(g, LoginUser(c))
ByItself(u) == \E c \in Conns : LoginUser(c) = u
RightfulChange(g, u) ==
    IsGroup(g) =>
        /\ managers'[g][u] > managers[g][u] => ByAManager(g)
        /\ managers'[g][u] < managers[g][u] => ByAManager(g) \/ ByItself(u)
        /\ members'[g][u] # members[g][u] => ByAManager(g) \/ ByItself(u)

LEMMA RightStep ==
    ASSUME IInv, [Next]_vars, NEW g \in GroupIds, NEW u \in UserIds
    PROVE  RightfulChange(g, u)
  <1> SUFFICES ASSUME IsGroup(g), ~ ByAManager(g)
               PROVE  /\ managers'[g][u] <= managers[g][u]
                      /\ managers'[g][u] # managers[g][u] => ByItself(u)
                      /\ members'[g][u] # members[g][u] => ByItself(u)
    <2>1. managers \in [GroupIds -> Lists] /\ managers' \in [GroupIds -> Lists]
      BY StepIInv DEF IInv, TypeOK, Lists
    <2>2. managers[g][u] \in Nat /\ managers'[g][u] \in Nat
      BY <2>1 DEF Lists
    <2>3. QED
      BY <2>2 DEF RightfulChange
  <1>1. /\ managers \in [GroupIds -> Lists] /\ members \in [GroupIds -> Lists]
        /\ managers[g] \in Lists /\ members[g] \in Lists
        /\ managers[g][u] \in Nat /\ members[g][u] \in Nat
    BY DEF IInv, TypeOK, Lists
  <1>2. CASE UNCHANGED <<managers, members>>
    BY <1>1, <1>2
  <1>3. CASE \E c \in Conns : RegisterGroup(c)
    <2>1. g # nextGroup
      BY DEF IsGroup, IInv, TypeOK, GroupIds
    <2>2. managers'[g] = managers[g] /\ members'[g] = members[g]
      BY <1>1, <1>3, <2>1 DEF RegisterGroup
    <2>3. QED
      BY <1>1, <2>2
  <1>4. CASE \E c \in Conns, h \in GroupIds : JoinGroup(c, h)
    <2>1. PICK c \in Conns, h \in GroupIds : JoinGroup(c, h)
      BY <1>4
    <2>2. CASE g = h /\ u = LoginUser(c)
      <3>1. ByItself(u)
        BY <2>2 DEF ByItself
      <3>2. QED
        BY <1>1, <2>1, <3>1 DEF JoinGroup
    <2>3. CASE g # h \/ u # LoginUser(c)
      <3>1. LoginUser(c) \in UserIds
        BY <2>1, ActorIssued DEF JoinGroup
      <3>2. members'[g][u] = members[g][u] /\ managers' = managers
        BY <1>1, <2>1, <2>3, <3>1, PushBackList DEF JoinGroup
      <3>3. QED
        BY <1>1, <3>2
    <2>4. QED
      BY <2>2, <2>3
  <1>5. ASSUME NEW c \in Conns, NEW h \in GroupIds, NEW v \in UserIds,
               \/ AssignAsManager(c, h, v)
               \/ AssignAsMember(c, h, v)
               \/ KickOutUser(c, h, v) /\ ByManager(c, h)
        PROVE  managers'[g] = managers[g] /\ members'[g] = members[g]
    <2>1. g # h
      BY <1>5 DEF AssignAsManager, AssignAsMember, ByManager, ByAManager
    <2>2. QED
      BY <1>1, <1>5, <2>1 DEF AssignAsManager, AssignAsMember, KickOutUser
  <1>6. ASSUME NEW c \in Conns, NEW h \in GroupIds, NEW v \in UserIds,
               KickOutUser(c, h, v), v = LoginUser(c)
        PROVE  /\ managers'[g][u] <= managers[g][u]
               /\ managers'[g][u] # managers[g][u] => ByItself(u)
               /\ members'[g][u] # members[g][u] => ByItself(u)
    <2>1. CASE g = h /\ u = v
      <3>1. ByItself(u)
        BY <1>6, <2>1 DEF ByItself
      <3>2. managers'[g] = EraseFirst(managers[g], u)
        BY <1>1, <1>6, <2>1 DEF KickOutUser
      <3>3. EraseFirst(managers[g], u)[u] =
               IF managers[g][u] > 0 THEN managers[g][u] - 1 ELSE managers[g][u]
        BY <1>1, EraseFirstList
      <3>4. managers'[g][u] <= managers[g][u]
        BY <1>1, <3>2, <3>3
      <3>5. QED
        BY <3>1, <3>4
    <2>2. CASE g # h \/ u # v
      <3>1. managers'[g][u] = managers[g][u] /\ members'[g][u] = members[g][u]
        BY <1>1, <1>6, <2>2, EraseFirstList DEF KickOutUser
      <3>2. QED
        BY <1>1, <3>1
    <2>3. QED
      BY <2>1, <2>2
  <1>7. CASE \E c \in Conns, h \in GroupIds, v \in UserIds :
               AssignAsManager(c, h, v) \/ AssignAsMember(c, h, v) \/ KickOutUser(c, h, v)
    BY <1>1, <1>5, <1>6, <1>7 DEF KickOutUser
  <1>8. QED
    BY <1>2, <1>3, <1>4, <1>7
       DEF Next, vars, groupVars, Clock, RegisterUser, KickOutOffline, RegisterNode,
           Ping, Login, RemoveUser

\* The handlers of transaction.cpp change a role only for a user who is logged in
\* and exists, or by a manager of the group who is.
THEOREM RolesChangeByRight == Spec => ChangedByRight
  <1>1. IInv /\ [Next]_vars => [\A g \in GroupIds, u \in UserIds : RightfulChange(g, u)]_vars
    BY RightStep
  <1>2. Spec => [][\A g \in GroupIds, u \in UserIds : RightfulChange(g, u)]_vars
    BY <1>1, AlwaysIInv, PTL DEF Spec
  <1>3. QED
    BY <1>2 DEF ChangedByRight, RightfulChange, ByAManager, ByItself

-----------------------------------------------------------------------------
(* Refinement of Roles *)

LEMMA InitRoles == Init => R!Init
  <1> SUFFICES ASSUME Init PROVE R!Init
    OBVIOUS
  <1>1. Root \in UserIds /\ Official \in GroupIds
    BY SharingAssumption DEF Root, Official, UserIds, GroupIds
  <1>2. AsSet(NoOne) = {}
    BY NoOneList DEF AsSet, Has
  <1>3. AsSet(PushBack(NoOne, Root)) = {Root}
    BY <1>1, <1>2, NoOneList, PushBackSet
  <1>4. owner \in [GroupIds -> UserIds \cup {NoUser}]
    BY <1>1 DEF Init
  <1>5. Root # NoUser
    BY DEF Root, NoUser
  <1>6. \A g \in GroupIds : AsSet(managers[g]) = {owner[g]} \ {NoUser}
    BY <1>2, <1>3, <1>5 DEF Init
  <1>7. AsSets(managers) = [g \in GroupIds |-> {owner[g]} \ {NoUser}]
    BY <1>6 DEF AsSets
  <1>8. members = managers
    BY DEF Init
  <1>9. QED
    BY <1>4, <1>7, <1>8 DEF R!Init

LEMMA FoundStep ==
    ASSUME IInv, NEW c \in Conns, RegisterGroup(c)
    PROVE  R!Found(nextGroup, LoginUser(c))
  <1>1. LoginUser(c) \in UserIds
    BY ActorIssued DEF RegisterGroup
  <1>2. nextGroup \in GroupIds /\ owner[nextGroup] = NoUser
    BY DEF RegisterGroup, IInv, Founded, GroupIds
  <1>3. /\ managers \in [GroupIds -> Lists]
        /\ members \in [GroupIds -> Lists]
    BY DEF IInv, TypeOK, Lists
  <1>4. PushBack(NoOne, LoginUser(c)) \in Lists
    BY <1>1, NoOneList, PushBackList
  <1>5. AsSet(PushBack(NoOne, LoginUser(c))) = {LoginUser(c)}
    <2>1. AsSet(NoOne) = {}
      BY NoOneList DEF AsSet, Has
    <2>2. QED
      BY <1>1, <2>1, NoOneList, PushBackSet
  <1>a. /\ managers' = [managers EXCEPT ![nextGroup] = PushBack(NoOne, LoginUser(c))]
        /\ members' = [members EXCEPT ![nextGroup] = PushBack(NoOne, LoginUser(c))]
    BY DEF RegisterGroup
  <1>6. /\ AsSets(managers') = [AsSets(managers) EXCEPT ![nextGroup] = {LoginUser(c)}]
        /\ AsSets(members') = [AsSets(members) EXCEPT ![nextGroup] = {LoginUser(c)}]
    BY <1>2, <1>3, <1>4, <1>5, <1>a DEF AsSets
  <1>7. QED
    BY <1>2, <1>6 DEF R!Found, RegisterGroup, AsSets

LEMMA JoinStep ==
    ASSUME IInv, NEW c \in Conns, NEW g \in GroupIds, JoinGroup(c, g)
    PROVE  R!Join(g, LoginUser(c))
  <1>1. LoginUser(c) \in UserIds
    BY ActorIssued DEF JoinGroup
  <1>2. owner[g] # NoUser
    BY DEF JoinGroup, IsGroup, IInv, Founded, UserIds, NoUser
  <1>3. members \in [GroupIds -> Lists] /\ members[g] \in Lists
    BY DEF IInv, TypeOK, Lists
  <1>4. /\ PushBack(members[g], LoginUser(c)) \in Lists
        /\ AsSet(PushBack(members[g], LoginUser(c))) = AsSet(members[g]) \cup {LoginUser(c)}
    BY <1>1, <1>3, PushBackList, PushBackSet
  <1>a. members' = [members EXCEPT ![g] = PushBack(members[g], LoginUser(c))]
    BY DEF JoinGroup
  <1>5. AsSets(members') =
           [AsSets(members) EXCEPT ![g] = AsSet(members[g]) \cup {LoginUser(c)}]
    BY <1>3, <1>4, <1>a DEF AsSets
  <1>6. QED
    BY <1>2, <1>5 DEF R!Join, JoinGroup, AsSets

\* What the three handlers that erase make of the two lists of the group.
ErasedSets(g, u) ==
    /\ AsSet(EraseFirst(managers[g], u)) = AsSet(managers[g]) \ {u}
    /\ AsSet(EraseFirst(members[g], u)) = AsSet(members[g]) \ {u}
    /\ AsSet(PushBack(EraseFirst(managers[g], u), u)) = AsSet(managers[g]) \cup {u}
    /\ AsSet(PushBack(EraseFirst(members[g], u), u)) = AsSet(members[g]) \cup {u}
    /\ EraseFirst(managers[g], u) \in Lists /\ EraseFirst(members[g], u) \in Lists
    /\ PushBack(EraseFirst(managers[g], u), u) \in Lists
    /\ PushBack(EraseFirst(members[g], u), u) \in Lists

LEMMA Erased ==
    ASSUME IInv, NEW g \in GroupIds, NEW u \in UserIds
    PROVE  ErasedSets(g, u)
  <1>1. managers[g] \in Lists /\ members[g] \in Lists
    BY DEF IInv, TypeOK, Lists
  <1>2. managers[g][u] <= 1 /\ members[g][u] <= 1
    BY DEF IInv, ListedOnce
  <1>3. EraseFirst(managers[g], u) \in Lists /\ EraseFirst(members[g], u) \in Lists
    BY <1>1, EraseFirstList
  <1>4. /\ AsSet(EraseFirst(managers[g], u)) = AsSet(managers[g]) \ {u}
        /\ AsSet(EraseFirst(members[g], u)) = AsSet(members[g]) \ {u}
    BY <1>1, <1>2, EraseFirstSet
  <1>5. /\ AsSet(PushBack(EraseFirst(managers[g], u), u)) = (AsSet(managers[g]) \ {u}) \cup {u}
        /\ AsSet(PushBack(EraseFirst(members[g], u), u)) = (AsSet(members[g]) \ {u}) \cup {u}
    BY <1>3, <1>4, PushBackSet
  <1>6. /\ PushBack(EraseFirst(managers[g], u), u) \in Lists
        /\ PushBack(EraseFirst(members[g], u), u) \in Lists
    BY <1>3, PushBackList
  <1>7. QED
    BY <1>3, <1>4, <1>5, <1>6 DEF ErasedSets

LEMMA PromoteStep ==
    ASSUME IInv, NEW c \in Conns, NEW g \in GroupIds, NEW u \in UserIds,
           AssignAsManager(c, g, u)
    PROVE  R!Promote(g, u)
  <1>1. managers \in [GroupIds -> Lists] /\ members \in [GroupIds -> Lists]
    BY DEF IInv, TypeOK, Lists
  <1>a. /\ managers' = [managers EXCEPT ![g] = PushBack(EraseFirst(managers[g], u), u)]
        /\ members' = [members EXCEPT ![g] = EraseFirst(members[g], u)]
    BY DEF AssignAsManager
  <1>2. /\ AsSets(managers') = [AsSets(managers) EXCEPT ![g] = AsSet(managers[g]) \cup {u}]
        /\ AsSets(members') = [AsSets(members) EXCEPT ![g] = AsSet(members[g]) \ {u}]
    BY <1>1, <1>a, Erased DEF ErasedSets, AsSets
  <1>3. u \in AsSets(members)[g]
    BY DEF AssignAsManager, IsMember, AsSets, AsSet
  <1>4. QED
    BY <1>2, <1>3 DEF R!Promote, AssignAsManager, AsSets

LEMMA DemoteStep ==
    ASSUME IInv, NEW c \in Conns, NEW g \in GroupIds, NEW u \in UserIds,
           AssignAsMember(c, g, u)
    PROVE  R!Demote(g, u)
  <1>1. managers \in [GroupIds -> Lists] /\ members \in [GroupIds -> Lists]
    BY DEF IInv, TypeOK, Lists
  <1>a. /\ managers' = [managers EXCEPT ![g] = EraseFirst(managers[g], u)]
        /\ members' = [members EXCEPT ![g] = PushBack(EraseFirst(members[g], u), u)]
    BY DEF AssignAsMember
  <1>2. /\ AsSets(managers') = [AsSets(managers) EXCEPT ![g] = AsSet(managers[g]) \ {u}]
        /\ AsSets(members') = [AsSets(members) EXCEPT ![g] = AsSet(members[g]) \cup {u}]
    BY <1>1, <1>a, Erased DEF ErasedSets, AsSets
  <1>3. u \in AsSets(managers)[g]
    BY DEF AssignAsMember, IsManager, AsSets, AsSet
  <1>4. QED
    BY <1>2, <1>3 DEF R!Demote, AssignAsMember, AsSets

LEMMA LeaveStep ==
    ASSUME IInv, NEW c \in Conns, NEW g \in GroupIds, NEW u \in UserIds,
           KickOutUser(c, g, u)
    PROVE  R!Leave(g, u)
  <1>1. managers \in [GroupIds -> Lists] /\ members \in [GroupIds -> Lists]
    BY DEF IInv, TypeOK, Lists
  <1>a. /\ managers' = [managers EXCEPT ![g] = EraseFirst(managers[g], u)]
        /\ members' = [members EXCEPT ![g] = EraseFirst(members[g], u)]
    BY DEF KickOutUser
  <1>2. /\ AsSets(managers') = [AsSets(managers) EXCEPT ![g] = AsSet(managers[g]) \ {u}]
        /\ AsSets(members') = [AsSets(members) EXCEPT ![g] = AsSet(members[g]) \ {u}]
    BY <1>1, <1>a, Erased DEF ErasedSets, AsSets
  <1>3. QED
    BY <1>2 DEF R!Leave, KickOutUser, AsSets

LEMMA StepRoles == IInv /\ [Next]_vars => [R!Next]_(R!roles)
  <1> SUFFICES ASSUME IInv, [Next]_vars PROVE [R!Next]_(R!roles)
    OBVIOUS
  <1>1. CASE UNCHANGED <<owner, managers, members>>
    BY <1>1 DEF R!roles
  <1>2. CASE \E c \in Conns : RegisterGroup(c)
    <2>1. PICK c \in Conns : RegisterGroup(c)
      BY <1>2
    <2>2. nextGroup \in GroupIds /\ LoginUser(c) \in UserIds
      BY <2>1, ActorIssued DEF RegisterGroup
    <2>3. QED
      BY <2>1, <2>2, FoundStep DEF R!Next
  <1>3. CASE \E c \in Conns, g \in GroupIds : JoinGroup(c, g)
    <2>1. PICK c \in Conns, g \in GroupIds : JoinGroup(c, g)
      BY <1>3
    <2>2. LoginUser(c) \in UserIds
      BY <2>1, ActorIssued DEF JoinGroup
    <2>3. QED
      BY <2>1, <2>2, JoinStep DEF R!Next
  <1>4. CASE \E c \in Conns, g \in GroupIds, u \in UserIds :
               AssignAsManager(c, g, u) \/ AssignAsMember(c, g, u) \/ KickOutUser(c, g, u)
    BY <1>4, PromoteStep, DemoteStep, LeaveStep DEF R!Next
  <1>5. QED
    BY <1>1, <1>2, <1>3, <1>4
       DEF Next, vars, groupVars, Clock, RegisterUser, KickOutOffline, RegisterNode,
           Ping, Login, RemoveUser

\* The two lists of SharingGroup and their erasing of first entries do what sets
\* and whole roles would do.
THEOREM ListsImplementRoles == Spec => ImplementsRoles
  <1>1. Init => R!Init
    BY InitRoles
  <1>2. IInv /\ [Next]_vars => [R!Next]_(R!roles)
    BY StepRoles
  <1>3. QED
    BY <1>1, <1>2, AlwaysIInv, PTL DEF Spec, ImplementsRoles, R!Spec
=============================================================================
