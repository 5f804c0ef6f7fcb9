------------------------------- MODULE Sharing -------------------------------
(***************************************************************************)
(* Users, logins, sharing groups and storage nodes of the resource server  *)
(* (resource_server/core.cpp, transaction.cpp).                            *)
(*                                                                         *)
(* One worker thread runs every handler to its end, so one action is one   *)
(* handler that changes something.  A handler that throws has changed      *)
(* nothing: the guards of an action are the checks that would throw, or    *)
(* after which the handler does nothing.  Names are left out: that a name  *)
(* is taken is one more reason to fail.  So are passwords, User::conn_id,  *)
(* which is written and never read, and the root directory of a group.     *)
(***************************************************************************)
EXTENDS Naturals

CONSTANTS
    MaxUsers, MaxGroups, MaxNodes, \* bounds: ids that are ever given
    MaxConns,                      \* bound: connections of clients
    MaxTime,                       \* bound: the clock stops there
    MaxSilence                     \* MAX_NO_HEARTBEAT_SEC, in steps of the clock

ASSUME SharingAssumption ==
    /\ MaxUsers \in Nat \ {0}
    /\ MaxGroups \in Nat \ {0}
    /\ MaxNodes \in Nat \ {0}
    /\ MaxConns \in Nat
    /\ MaxTime \in Nat \ {0}
    /\ MaxSilence \in Nat

UserIds == 1 .. MaxUsers
GroupIds == 1 .. MaxGroups
NodeIds == 1 .. MaxNodes
Conns == 1 .. MaxConns
NoUser == 0
Root == 1      \* the user and the group that main() makes sure of
Official == 1

VARIABLES
    now,                       \* std::time
    users, nextUser, rootUsers, \* UserManager: m_user_list, m_next_id, m_root_user_list
    beat,                      \* User::last_hearbeat, 0 before the first ping
    logins,                    \* UserManager::m_login_user_list, by connection
    nextGroup, owner, managers, members, groupNode, \* SharingGroupManager
    nodes, nextNode, use       \* StorageNodeManager: m_node_list, m_next_id, use_counting

userVars == <<users, nextUser, rootUsers, beat, logins>>
groupVars == <<nextGroup, owner, managers, members, groupNode>>
nodeVars == <<nodes, nextNode, use>>
vars == <<now, userVars, groupVars, nodeVars>>

TypeOK ==
    /\ now \in 1 .. MaxTime
    /\ users \in SUBSET UserIds
    /\ nextUser \in 2 .. MaxUsers + 1
    /\ rootUsers \in SUBSET users
    /\ beat \in [UserIds -> 0 .. MaxTime]
    /\ logins \in [Conns -> UserIds \cup {NoUser}]
    /\ nextGroup \in 2 .. MaxGroups + 1
    /\ owner \in [GroupIds -> UserIds \cup {NoUser}]
    /\ managers \in [GroupIds -> [UserIds -> Nat]]
    /\ members \in [GroupIds -> [UserIds -> Nat]]
    /\ groupNode \in [GroupIds -> NodeIds \cup {0}]
    /\ nodes \in SUBSET NodeIds
    /\ nextNode \in 1 .. MaxNodes + 1
    /\ use \in [NodeIds -> Nat]

-----------------------------------------------------------------------------
(* A list of users is told by how often it holds each of them: its order is  *)
(* nowhere looked at.                                                        *)

NoOne == [u \in UserIds |-> 0]
Has(list, u) == list[u] > 0
PushBack(list, u) == [list EXCEPT ![u] = @ + 1]
\* Mutant of EraseFirst: erase without a look at what std::find returned.
MutantEraseFirstAlways(list, u) == [list EXCEPT ![u] = @ - 1]
\* std::find and erase: the first entry only.
EraseFirst(list, u) == [list EXCEPT ![u] = IF @ > 0 THEN @ - 1 ELSE 0]

\* Whom a request of c acts for; NoUser when get_login_user throws.
LoginUser(c) == IF logins[c] \in users THEN logins[c] ELSE NoUser
LoggedIn(c) == LoginUser(c) # NoUser
IsGroup(g) == g < nextGroup
IsManager(g, u) == Has(managers[g], u)
IsMember(g, u) == Has(members[g], u)

(* The state main() leaves before the first request.  On an empty data file    *)
(* root and its group are registered, while no storage node is: get_fit_node   *)
(* then reads the node behind the end of an empty map, whose id lies where     *)
(* m_next_id is.  Otherwise all of this comes from the data file, without the  *)
(* list of root users, and with a last_hearbeat that nothing initializes.      *)
Init ==
    \E stored \in BOOLEAN, garbage \in 0 .. MaxTime :
        /\ now = 1
        /\ users = {Root}
        /\ nextUser = Root + 1
        /\ rootUsers = IF stored THEN {} ELSE {Root}
        /\ beat = [u \in UserIds |-> IF stored /\ u = Root THEN garbage ELSE 0]
        /\ logins = [c \in Conns |-> NoUser]
        /\ nextGroup = Official + 1
        /\ owner = [g \in GroupIds |-> IF g = Official THEN Root ELSE NoUser]
        /\ managers = [g \in GroupIds |->
               IF g = Official THEN PushBack(NoOne, Root) ELSE NoOne]
        /\ members = managers
        /\ groupNode = [g \in GroupIds |-> IF g = Official THEN 1 ELSE 0]
        /\ nodes = IF stored THEN NodeIds ELSE {}
        /\ nextNode = IF stored THEN MaxNodes + 1 ELSE 1
        /\ use = [n \in NodeIds |-> 0]

-----------------------------------------------------------------------------
(* Users and logins *)

Clock ==
    /\ now < MaxTime
    /\ now' = now + 1
    /\ UNCHANGED <<userVars, groupVars, nodeVars>>

\* Mutant of RegisterUser: an id is free again once its user is removed.
MutantRegisterUserReuses ==
    \E u \in UserIds \ users :
        /\ users' = users \cup {u}
        /\ nextUser' = IF u < nextUser THEN nextUser ELSE u + 1
        /\ beat' = [beat EXCEPT ![u] = 0]
        /\ UNCHANGED <<now, rootUsers, logins, groupVars, nodeVars>>
\* on_register_user: needs no login.
RegisterUser ==
    /\ nextUser \in UserIds
    /\ users' = users \cup {nextUser}
    /\ nextUser' = nextUser + 1
    /\ beat' = [beat EXCEPT ![nextUser] = 0]
    /\ UNCHANGED <<now, rootUsers, logins, groupVars, nodeVars>>

\* on_login_user: insert keeps the user that is already logged in on c, although
\* the second login is answered as a success.
Login(c, u) ==
    /\ u \in users
    /\ logins[c] = NoUser
    /\ logins' = [logins EXCEPT ![c] = u]
    /\ UNCHANGED <<now, users, nextUser, rootUsers, beat, groupVars, nodeVars>>

\* on_remove_user: the list of logins and the groups keep the id.
RemoveUser(c, u) ==
    /\ LoginUser(c) \in rootUsers
    /\ u \in users
    /\ users' = users \ {u}
    /\ rootUsers' = rootUsers \ {u}
    /\ beat' = [beat EXCEPT ![u] = 0]
    /\ UNCHANGED <<now, nextUser, logins, groupVars, nodeVars>>

Ping(c) ==
    /\ LoggedIn(c)
    /\ beat' = [beat EXCEPT ![LoginUser(c)] = now]
    /\ UNCHANGED <<now, users, nextUser, rootUsers, logins, groupVars, nodeVars>>

Silent(c) ==
    /\ LoggedIn(c)
    /\ beat[LoginUser(c)] # 0
    /\ beat[LoginUser(c)] + MaxSilence < now

\* The login of a removed user, at which get_user ends the walk with a throw.
Stuck(c) == logins[c] # NoUser /\ ~LoggedIn(c)

\* Mutant of KickedOut: the user where the connection is meant.
MutantKickedOutByUser(first, more) ==
    [c \in Conns |-> IF c = logins[first] \/ c \in more THEN NoUser ELSE logins[c]]
KickedOut(first, more) ==
    [c \in Conns |-> IF c = first \/ c \in more THEN NoUser ELSE logins[c]]

(* kick_out_offline_users, a frequent timer, walks the logins in the order of  *)
(* their connections and erases from the list it walks over.  What the walk    *)
(* still finds after the first erased login is undefined.                      *)
KickOutOffline ==
    \E first \in Conns :
        /\ Silent(first)
        /\ \A c \in Conns : c < first => ~ Silent(c) /\ ~ Stuck(c)
        /\ \E more \in SUBSET {c \in Conns : c > first /\ Silent(c)} :
               logins' = KickedOut(first, more)
        /\ UNCHANGED <<now, users, nextUser, rootUsers, beat, groupVars, nodeVars>>

-----------------------------------------------------------------------------
(* Storage nodes *)

\* Mutant of RegisterNode: the next id is taken before it is given.
MutantRegisterNodeSkips ==
    /\ nextNode \in NodeIds
    /\ nodes' = nodes \cup {nextNode + 1}
    /\ nextNode' = nextNode + 1
    /\ UNCHANGED <<now, userVars, groupVars, use>>
\* The delegation of register_node comes back from the network thread.
RegisterNode ==
    /\ nextNode \in NodeIds
    /\ nodes' = nodes \cup {nextNode}
    /\ nextNode' = nextNode + 1
    /\ use' = [use EXCEPT ![nextNode] = 0]
    /\ UNCHANGED <<now, userVars, groupVars>>

\* get_fit_node: the first of the nodes that are used the least.
IsFitNode(n) ==
    /\ n \in nodes
    /\ \A m \in nodes : use[n] < use[m] \/ (use[n] = use[m] /\ n <= m)

-----------------------------------------------------------------------------
(* Groups *)

\* on_register_group.  Before the first node is registered see Init.
RegisterGroup(c) ==
    /\ LoggedIn(c)
    /\ nextGroup \in GroupIds
    /\ nextGroup' = nextGroup + 1
    /\ owner' = [owner EXCEPT ![nextGroup] = LoginUser(c)]
    /\ managers' = [managers EXCEPT ![nextGroup] = PushBack(NoOne, LoginUser(c))]
    /\ members' = [members EXCEPT ![nextGroup] = PushBack(NoOne, LoginUser(c))]
    /\ \/ /\ nodes = {}
          /\ groupNode' = [groupNode EXCEPT ![nextGroup] = nextNode]
          /\ UNCHANGED use
       \/ \E n \in NodeIds :
              /\ IsFitNode(n)
              /\ groupNode' = [groupNode EXCEPT ![nextGroup] = n]
              /\ use' = [use EXCEPT ![n] = @ + 1]
    /\ UNCHANGED <<now, userVars, nodes, nextNode>>

\* on_join_group: only the list of members is looked at.
JoinGroup(c, g) ==
    /\ LoggedIn(c)
    /\ IsGroup(g)
    /\ ~ IsMember(g, LoginUser(c))
    /\ members' = [members EXCEPT ![g] = PushBack(@, LoginUser(c))]
    /\ UNCHANGED <<now, userVars, nextGroup, owner, managers, groupNode, nodeVars>>

\* Mutant of ByManager: a member will do.
MutantByManagerMember(c, g) == LoggedIn(c) /\ IsGroup(g) /\ IsMember(g, LoginUser(c))
\* The check of a handler that only a manager of the group may use.
ByManager(c, g) ==
    /\ LoggedIn(c)
    /\ IsGroup(g)
    /\ IsManager(g, LoginUser(c))

\* Mutant of AssignAsManager: a manager stays a member.
MutantAssignAsManagerKeeps(c, g, u) ==
    /\ ByManager(c, g)
    /\ IsMember(g, u) /\ ~ IsManager(g, u)
    /\ u # owner[g]
    /\ managers' = [managers EXCEPT ![g] = PushBack(@, u)]
    /\ UNCHANGED <<now, userVars, nextGroup, owner, members, groupNode, nodeVars>>
\* Mutant of AssignAsManager: only the list of members is cleaned.
MutantAssignAsManagerAdds(c, g, u) ==
    /\ ByManager(c, g)
    /\ IsMember(g, u)
    /\ u # owner[g]
    /\ managers' = [managers EXCEPT ![g] = PushBack(@, u)]
    /\ members' = [members EXCEPT ![g] = EraseFirst(@, u)]
    /\ UNCHANGED <<now, userVars, nextGroup, owner, groupNode, nodeVars>>
\* SharingGroup::assign_as_manager: kick_out_user, then push_back.
AssignAsManager(c, g, u) ==
    /\ ByManager(c, g)
    /\ IsMember(g, u)
    /\ u # owner[g]
    /\ managers' = [managers EXCEPT ![g] = PushBack(EraseFirst(@, u), u)]
    /\ members' = [members EXCEPT ![g] = EraseFirst(@, u)]
    /\ UNCHANGED <<now, userVars, nextGroup, owner, groupNode, nodeVars>>

\* Mutant of AssignAsMember: the owner can be demoted.
MutantAssignAsMemberOwner(c, g, u) ==
    /\ ByManager(c, g)
    /\ IsManager(g, u)
    /\ managers' = [managers EXCEPT ![g] = EraseFirst(@, u)]
    /\ members' = [members EXCEPT ![g] = PushBack(EraseFirst(@, u), u)]
    /\ UNCHANGED <<now, userVars, nextGroup, owner, groupNode, nodeVars>>
\* SharingGroup::assign_as_member.
AssignAsMember(c, g, u) ==
    /\ ByManager(c, g)
    /\ IsManager(g, u)
    /\ u # owner[g]
    /\ managers' = [managers EXCEPT ![g] = EraseFirst(@, u)]
    /\ members' = [members EXCEPT ![g] = PushBack(EraseFirst(@, u), u)]
    /\ UNCHANGED <<now, userVars, nextGroup, owner, groupNode, nodeVars>>

\* on_kick_out_user: others need a manager, anybody may leave.
KickOutUser(c, g, u) ==
    /\ \/ ByManager(c, g)
       \/ LoggedIn(c) /\ IsGroup(g) /\ u = LoginUser(c)
    /\ u # owner[g]
    /\ IsManager(g, u) \/ IsMember(g, u)
    /\ managers' = [managers EXCEPT ![g] = EraseFirst(@, u)]
    /\ members' = [members EXCEPT ![g] = EraseFirst(@, u)]
    /\ UNCHANGED <<now, userVars, nextGroup, owner, groupNode, nodeVars>>

-----------------------------------------------------------------------------

Next ==
    \/ Clock \/ RegisterUser \/ KickOutOffline \/ RegisterNode
    \/ \E c \in Conns :
           \/ Ping(c)
           \/ RegisterGroup(c)
           \/ \E u \in UserIds : Login(c, u) \/ RemoveUser(c, u)
           \/ \E g \in GroupIds :
                  \/ JoinGroup(c, g)
                  \/ \E u \in UserIds :
                         \/ AssignAsManager(c, g, u)
                         \/ AssignAsMember(c, g, u)
                         \/ KickOutUser(c, g, u)

\* The worker looks at its timers in every turn (Worker::run).
Spec == Init /\ [][Next]_vars /\ WF_vars(KickOutOffline)

-----------------------------------------------------------------------------
(* Safety *)

\* SharingGroup: whatever managers do to each other, the owner stays manager and
\* member of its group.
OwnerListed ==
    \A g \in GroupIds : IsGroup(g) => IsManager(g, owner[g]) /\ IsMember(g, owner[g])

\* SharingGroup: however users join, rise, fall and join again, no list holds
\* anybody twice, so that one erase takes the whole role away.
ListedOnce ==
    \A g \in GroupIds, u \in UserIds : managers[g][u] <= 1 /\ members[g][u] <= 1

\* get_fit_node: the node of a group is registered, or no node is and the
\* group's will be the first, so that a put to the group finds its node.
GroupsHaveNodes ==
    \A g \in GroupIds : IsGroup(g) =>
        groupNode[g] \in nodes \/ (nodes = {} /\ groupNode[g] = nextNode)

\* register_user: removing a user leaves its logins and its roles behind; who
\* registers later inherits none of them.
NewcomersAreClean ==
    [][\A u \in users' \ users :
           /\ \A c \in Conns : logins'[c] # u
           /\ \A g \in GroupIds : ~ IsManager(g, u)' /\ ~ IsMember(g, u)']_vars

\* transaction.cpp: the roles of an existing group change only for a user who
\* is logged in, or by a manager who is; and nobody rises without a manager.
\* A removed user, whose roles and logins are still listed, changes nothing.
ChangedByRight ==
    [][\A g \in GroupIds, u \in UserIds :
          LET ByAManager == \E c \in Conns : LoggedIn(c) /\ IsManager(g, LoginUser(c))
              ByItself == \E c \in Conns : LoginUser(c) = u
          IN IsGroup(g) =>
                /\ managers'[g][u] > managers[g][u] => ByAManager
                /\ managers'[g][u] < managers[g][u] => ByAManager \/ ByItself
                /\ members'[g][u] # members[g][u] => ByAManager \/ ByItself]_vars

AsSet(list) == {u \in UserIds : Has(list, u)}
AsSets(lists) == [g \in GroupIds |-> AsSet(lists[g])]

R == INSTANCE Roles WITH
         Users <- UserIds, Groups <- GroupIds,
         managers <- AsSets(managers), members <- AsSets(members)

\* SharingGroup: two lists and first entries are as good as sets and whole roles.
ImplementsRoles == R!Spec

-----------------------------------------------------------------------------
(* Liveness *)

\* kick_out_offline_users: the first login that is silent goes, unless it pings
\* again, or one before it falls silent or belongs to a removed user.
FirstSilentGoes ==
    \A c \in Conns :
        Silent(c) ~> \/ ~ Silent(c)
                     \/ \E d \in Conns : d < c /\ (Silent(d) \/ Stuck(d))
=============================================================================
