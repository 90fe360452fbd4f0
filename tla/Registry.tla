------------------------------ MODULE Registry ------------------------------
(***************************************************************************)
(* The shared memory of the chat server (struct SharedMemory) and the      *)
(* operations of user.c and group.c on it, as operators on a value s.      *)
(*                                                                         *)
(* The C arrays are searched by name and never read by position, so a      *)
(* user slot is indexed by its user name, a group slot by its group name,  *)
(* and the member and admin lists of a group, which never hold a name      *)
(* twice, are sets.  A name without a slot is "absent"; a slot is never    *)
(* given back, it only goes "inactive".                                    *)
(*                                                                         *)
(* CanXxx is the condition under which the C function xxx returns success. *)
(* An operator whose failure the callers ignore returns s then; the others *)
(* are used under their condition only.                                    *)
(***************************************************************************)
EXTENDS Naturals, FiniteSets

CONSTANTS
    Names,        \* user names
    EmptyName,    \* the empty user name, that group_create gives no rights to
    Groups,       \* group names
    NoGroup,      \* the empty group name
    Addrs,        \* addresses (IP and port) of client processes
    NoAddr,       \* the address in a slot never used
    Colors,       \* colours of a group
    Green,        \* the colour of a new group
    MaxClients,   \* MAX_CLIENTS
    MaxGroups     \* MAX_GROUPS

ASSUME NamesAssumption  == IsFiniteSet(Names)
ASSUME GroupsAssumption == IsFiniteSet(Groups) /\ NoGroup \notin Groups
ASSUME ColorsAssumption == Green \in Colors
ASSUME LimitsAssumption == MaxClients \in Nat /\ MaxGroups \in Nat

SlotStates == {"absent", "inactive", "active"}

Users == [state : SlotStates,
          current_group : Groups \cup {NoGroup},
          addr : Addrs \cup {NoAddr}]

GroupSlots == [state : SlotStates,
               users : SUBSET Names,
               admins : SUBSET Names,
               color : Colors]

SharedMemory == [users : [Names -> Users], groups : [Groups -> GroupSlots]]

NoUser == [state |-> "absent", current_group |-> NoGroup, addr |-> NoAddr]

NoGroupSlot == [state |-> "absent", users |-> {}, admins |-> {},
                color |-> Green]

EmptyMemory == [users |-> [u \in Names |-> NoUser],
                groups |-> [g \in Groups |-> NoGroupSlot]]

-----------------------------------------------------------------------------
(* Lookups.                                                                *)

UserFound(s, u) == s.users[u].state = "active"

UserSlots(s) == {u \in Names : s.users[u].state # "absent"}

GroupFound(s, g) == g \in Groups /\ s.groups[g].state = "active"

GroupSlotsUsed(s) == {g \in Groups : s.groups[g].state # "absent"}

IsMember(s, g, u) == GroupFound(s, g) /\ u \in s.groups[g].users

IsAdmin(s, g, u) == GroupFound(s, g) /\ u \in s.groups[g].admins

-----------------------------------------------------------------------------
(* user.c                                                                  *)

CanAddUser(s, u) ==
    \/ s.users[u].state = "inactive"
    \/ s.users[u].state = "absent" /\ Cardinality(UserSlots(s)) < MaxClients

\* Mutant: the address of the new connection is not stored.
UserAdd_ForgetsAddr(s, u, a) ==
    IF CanAddUser(s, u) THEN [s EXCEPT !.users[u].state = "active"] ELSE s

\* A reactivated slot keeps its current_group; in a new one it is empty.
UserAdd(s, u, a) ==
    IF CanAddUser(s, u)
    THEN [users  |-> [s.users EXCEPT ![u].state = "active", ![u].addr = a],
          groups |-> s.groups]
    ELSE s

\* Mutant: the slot is freed, the groups keep the name.
UserRemove_FreesSlot(s, u) == [s EXCEPT !.users[u] = NoUser]

\* Mutant: the user is deactivated before it leaves its groups, where
\* group_remove_user then does not find it.
UserRemove_DeactivatesFirst(s, u) ==
    IF s.users[u].state = "absent" THEN s
    ELSE [users  |-> [s.users EXCEPT ![u].state = "inactive"],
          groups |-> [g \in Groups |->
                        [s.groups[g] EXCEPT !.users =
                            IF IsMember(s, g, u) THEN @ \ {u} ELSE @]]]

\* Applies to inactive users too, whose current_group is then left alone.
UserRemove(s, u) ==
    LET left == {g \in Groups : IsMember(s, g, u)}
        home == IF UserFound(s, u) /\ left # {}
                THEN NoGroup ELSE s.users[u].current_group
    IN  IF s.users[u].state = "absent" THEN s
        ELSE [users  |-> [s.users EXCEPT ![u].state = "inactive",
                                         ![u].current_group = home],
              groups |-> [g \in Groups |->
                            [s.groups[g] EXCEPT
                               !.users = IF g \in left THEN @ \ {u} ELSE @]]]

-----------------------------------------------------------------------------
(* group.c                                                                 *)

CanCreateGroup(s, g) ==
    \/ s.groups[g].state = "inactive"
    \/ /\ s.groups[g].state = "absent"
       /\ Cardinality(GroupSlotsUsed(s)) < MaxGroups

\* Mutant: a group that is used again gets no administrator.
GroupCreate_NoAdminOnReuse(s, g, creator) ==
    IF CanCreateGroup(s, g)
    THEN [s EXCEPT !.groups[g] =
            [state  |-> "active",
             users  |-> {},
             admins |-> IF s.groups[g].state = "absent"
                        THEN {creator} \ {EmptyName} ELSE {},
             color  |-> Green]]
    ELSE s

GroupCreate(s, g, creator) ==
    IF CanCreateGroup(s, g)
    THEN [s EXCEPT !.groups[g] = [state  |-> "active",
                                  users  |-> {},
                                  admins |-> {creator} \ {EmptyName},
                                  color  |-> Green]]
    ELSE s

\* Mutant: the last entry of the list of members is never used.
CanJoinGroup_OffByOne(s, g, u) ==
    /\ GroupFound(s, g)
    /\ UserFound(s, u)
    /\ u \notin s.groups[g].users
    /\ Cardinality(s.groups[g].users) + 1 < MaxClients

\* Mutant: the user is not looked up.
CanJoinGroup_Anyone(s, g, u) ==
    /\ GroupFound(s, g)
    /\ u \notin s.groups[g].users
    /\ Cardinality(s.groups[g].users) < MaxClients

CanJoinGroup(s, g, u) ==
    /\ GroupFound(s, g)
    /\ UserFound(s, u)
    /\ u \notin s.groups[g].users
    /\ Cardinality(s.groups[g].users) < MaxClients

GroupAddUser(s, g, u) ==
    [users  |-> [s.users EXCEPT ![u].current_group = g],
     groups |-> [s.groups EXCEPT ![g].users = @ \cup {u}]]

\* The current group of an active user is cleared, whichever group it is.
GroupRemoveUser(s, g, u) ==
    IF IsMember(s, g, u)
    THEN [users  |-> [s.users EXCEPT ![u].current_group =
                        IF UserFound(s, u) THEN NoGroup ELSE @],
          groups |-> [s.groups EXCEPT ![g].users = @ \ {u}]]
    ELSE s

\* Mutant: the last entry of a list is never used.
Fitting_OffByOne(list, extra) ==
    LET new == extra \ list
    IN  IF Cardinality(list) + Cardinality(new) < MaxClients
        THEN {new}
        ELSE {T \in SUBSET new :
                Cardinality(list) + Cardinality(T) + 1 = MaxClients}

\* The new names that a list of MAX_CLIENTS entries still takes.  Which ones
\* are dropped depends on the order of the C array, left open here.
Fitting(list, extra) ==
    LET new == extra \ list
    IN  IF Cardinality(list) + Cardinality(new) <= MaxClients
        THEN {new}
        ELSE {T \in SUBSET new : Cardinality(list) + Cardinality(T) = MaxClients}

CanMerge(s, g1, g2) == GroupFound(s, g1) /\ GroupFound(s, g2) /\ g1 # g2

\* Mutant: the administrators are moved, the other members are not.
MergedWith_DropsUsers(s, g1, g2, users, admins) ==
    [s EXCEPT !.groups[g1].admins = @ \cup admins,
              !.groups[g2] = [@ EXCEPT !.state = "inactive",
                                       !.users = {}, !.admins = {}]]

\* Mutant: the second group is marked inactive, its counts are not reset.
MergedWith_KeepsSecond(s, g1, g2, users, admins) ==
    [s EXCEPT !.groups[g1].users = @ \cup users,
              !.groups[g1].admins = @ \cup admins,
              !.groups[g2].state = "inactive"]

MergedWith(s, g1, g2, users, admins) ==
    [users  |-> [u \in Names |->
                   IF u \in users /\ UserFound(s, u)
                   THEN [s.users[u] EXCEPT !.current_group = g1]
                   ELSE s.users[u]],
     groups |->
        LET into == s.groups[g1]
            from == s.groups[g2]
        IN  [s.groups EXCEPT
               ![g1] = [state  |-> into.state,
                        users  |-> into.users \cup users,
                        admins |-> into.admins \cup admins,
                        color  |-> into.color],
               ![g2] = [state  |-> "inactive",
                        users  |-> {},
                        admins |-> {},
                        color  |-> from.color]]]

\* The memories that group_merge can leave behind.
GroupMerge(s, g1, g2) ==
    {MergedWith(s, g1, g2, users, admins) :
        users  \in Fitting(s.groups[g1].users, s.groups[g2].users),
        admins \in Fitting(s.groups[g1].admins, s.groups[g2].admins)}

\* Mutant: membership is not asked of a new administrator.
CanAddAdmin_Anyone(s, g, u) ==
    ~IsAdmin(s, g, u) /\ Cardinality(s.groups[g].admins) < MaxClients

CanAddAdmin(s, g, u) ==
    /\ ~IsAdmin(s, g, u)
    /\ IsMember(s, g, u)
    /\ Cardinality(s.groups[g].admins) < MaxClients

GroupAddAdmin(s, g, u) ==
    [users  |-> s.users,
     groups |-> [s.groups EXCEPT ![g].admins = @ \cup {u}]]

CanRemoveAdmin(s, g, u) ==
    IsAdmin(s, g, u) /\ Cardinality(s.groups[g].admins) > 1

GroupRemoveAdmin(s, g, u) ==
    [users  |-> s.users,
     groups |-> [s.groups EXCEPT ![g].admins = @ \ {u}]]

\* The admin right goes first, and is gone even when u is not a member.
GroupKickUser(s, g, u) ==
    GroupRemoveUser(GroupRemoveAdmin(s, g, u), g, u)

\* A server that starts on existing memory: nobody is connected any more.
Deactivated(s) ==
    [users  |-> [u \in Names |->
                   [s.users[u] EXCEPT !.state =
                       IF @ = "active" THEN "inactive" ELSE @]],
     groups |-> s.groups]
=============================================================================
