-------------------------------- MODULE Roles --------------------------------
(***************************************************************************)
(* What a sharing group promises about the roles of its users.  The owner  *)
(* is manager and member for ever.  Everybody else joins as a member, and  *)
(* is promoted, demoted or leaves as a whole: who left has no role left,   *)
(* and who was promoted is no member until it joins again.                 *)
(***************************************************************************)
CONSTANTS Users, Groups, NoUser

VARIABLES owner, managers, members

roles == <<owner, managers, members>>

Init ==
    /\ owner \in [Groups -> Users \cup {NoUser}]
    /\ managers = [g \in Groups |-> {owner[g]} \ {NoUser}]
    /\ members = managers

\* u founds the group g.
Found(g, u) ==
    /\ owner[g] = NoUser
    /\ owner' = [owner EXCEPT ![g] = u]
    /\ managers' = [managers EXCEPT ![g] = {u}]
    /\ members' = [members EXCEPT ![g] = {u}]

Join(g, u) ==
    /\ owner[g] # NoUser
    /\ members' = [members EXCEPT ![g] = @ \cup {u}]
    /\ UNCHANGED <<owner, managers>>

Promote(g, u) ==
    /\ u \in members[g]
    /\ u # owner[g]
    /\ managers' = [managers EXCEPT ![g] = @ \cup {u}]
    /\ members' = [members EXCEPT ![g] = @ \ {u}]
    /\ UNCHANGED owner

Demote(g, u) ==
    /\ u \in managers[g]
    /\ u # owner[g]
    /\ managers' = [managers EXCEPT ![g] = @ \ {u}]
    /\ members' = [members EXCEPT ![g] = @ \cup {u}]
    /\ UNCHANGED owner

Leave(g, u) ==
    /\ u # owner[g]
    /\ managers' = [managers EXCEPT ![g] = @ \ {u}]
    /\ members' = [members EXCEPT ![g] = @ \ {u}]
    /\ UNCHANGED owner

Next == \E g \in Groups, u \in Users :
            Found(g, u) \/ Join(g, u) \/ Promote(g, u) \/ Demote(g, u) \/ Leave(g, u)

Spec == Init /\ [][Next]_roles
=============================================================================
