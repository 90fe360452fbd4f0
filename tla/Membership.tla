----------------------------- MODULE Membership -----------------------------
(***************************************************************************)
(* What the chat server promises its users, without slots, lists, limits,  *)
(* addresses or messages: who is connected, which groups exist, who is in  *)
(* them and who governs them.  Server implements it (ServerMembership).    *)
(*                                                                         *)
(* Any request may be refused, and a request that would do two things may  *)
(* do the first only: a join that fails may have connected its user        *)
(* (Connect) or founded the group (Found), never both.                     *)
(***************************************************************************)
CONSTANTS
    Names,        \* user names
    EmptyName,    \* the empty user name, which governs nothing
    Groups        \* group names

VARIABLES connected, groups, members, admins

vars == <<connected, groups, members, admins>>

Init ==
    /\ connected = {}
    /\ groups = {}
    /\ members = [g \in Groups |-> {}]
    /\ admins = [g \in Groups |-> {}]

Refused == UNCHANGED vars

Connect(u) ==
    /\ connected' = connected \cup {u}
    /\ UNCHANGED <<groups, members, admins>>

\* A user who disconnects is in no group any more, but keeps its rights.
Disconnect(u) ==
    /\ connected' = connected \ {u}
    /\ members' = [g \in Groups |-> members[g] \ {u}]
    /\ UNCHANGED <<groups, admins>>

\* The server starts again: groups, members and rights outlive it.
Restart ==
    /\ connected' = {}
    /\ UNCHANGED <<groups, members, admins>>

\* A new group has no member yet and is governed by its founder alone.
Founded(u, g) ==
    /\ g \notin groups
    /\ groups' = groups \cup {g}
    /\ admins' = [admins EXCEPT ![g] = {u} \ {EmptyName}]

Found(u, g) == Founded(u, g) /\ UNCHANGED <<connected, members>>

\* Joining connects the user and founds the group, where needed.
Join(u, g) ==
    /\ connected' = connected \cup {u}
    /\ members' = [members EXCEPT ![g] = @ \cup {u}]
    /\ \/ g \in groups /\ UNCHANGED <<groups, admins>>
       \/ Founded(u, g)

Leave(u, g) ==
    /\ members' = [members EXCEPT ![g] = @ \ {u}]
    /\ UNCHANGED <<connected, groups, admins>>

\* What u may do as an administrator of g; v is another user.
Kick(u, g, v) ==
    /\ u \in admins[g] /\ v # u
    /\ members' = [members EXCEPT ![g] = @ \ {v}]
    /\ admins' = [admins EXCEPT ![g] = @ \ {v}]
    /\ UNCHANGED <<connected, groups>>

Promote(u, g, v) ==
    /\ u \in admins[g]
    /\ v \in connected \cap members[g]
    /\ admins' = [admins EXCEPT ![g] = @ \cup {v}]
    /\ UNCHANGED <<connected, groups, members>>

Demote(u, g, v) ==
    /\ u \in admins[g] /\ v # u
    /\ v \in connected
    /\ admins' = [admins EXCEPT ![g] = @ \ {v}]
    /\ UNCHANGED <<connected, groups, members>>

\* Every member of h is in g afterwards.  Administrators of h may be in h
\* without a slot, and find no room: some of them govern g afterwards.
Merge(u, g, h) ==
    /\ u \in admins[g] /\ h \in groups \ {g}
    /\ groups' = groups \ {h}
    /\ members' = [members EXCEPT ![g] = @ \cup members[h], ![h] = {}]
    /\ \E some \in SUBSET admins[h] :
          admins' = [admins EXCEPT ![g] = @ \cup some, ![h] = {}]
    /\ UNCHANGED connected

Next ==
    \/ Refused
    \/ Restart
    \/ \E u \in Names :
          \/ Connect(u) \/ Disconnect(u)
          \/ \E g \in Groups :
                \/ Found(u, g) \/ Join(u, g) \/ Leave(u, g)
                \/ \E v \in Names :
                      Kick(u, g, v) \/ Promote(u, g, v) \/ Demote(u, g, v)
                \/ \E h \in Groups : Merge(u, g, h)

Spec == Init /\ [][Next]_vars
=============================================================================
