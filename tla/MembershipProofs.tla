-------------------------- MODULE MembershipProofs --------------------------
(***************************************************************************)
(* The server implements Membership, for every set of users and groups and *)
(* every MAX_CLIENTS and MAX_GROUPS.                                       *)
(***************************************************************************)
EXTENDS ServerProofs, ServerMembership, FiniteSetTheorems

-----------------------------------------------------------------------------
(* The tables are within their limits, and a group that does not exist has *)
(* no members and no administrators left.                                  *)

Bounded(s) ==
    /\ Cardinality(UserSlots(s)) <= MaxClients
    /\ Cardinality(GroupSlotsUsed(s)) <= MaxGroups

NoLeftovers(s) ==
    \A g \in Groups : ~GroupFound(s, g) =>
        s.groups[g].users = {} /\ s.groups[g].admins = {}

TableInv(s) == MemoryInv(s) /\ Bounded(s) /\ NoLeftovers(s)

\* The slots in use are finitely many.
LEMMA SlotsFinite ==
  ASSUME NEW s
  PROVE  /\ IsFiniteSet(UserSlots(s)) /\ Cardinality(UserSlots(s)) \in Nat
         /\ IsFiniteSet(GroupSlotsUsed(s))
         /\ Cardinality(GroupSlotsUsed(s)) \in Nat
<1>1. UserSlots(s) \subseteq Names /\ GroupSlotsUsed(s) \subseteq Groups
  BY DEF UserSlots, GroupSlotsUsed
<1> QED
  BY <1>1, NamesAssumption, GroupsAssumption, FS_Subset, FS_CardinalityType

\* An operation that takes no new slot keeps the tables within their limits.
LEMMA SameSlotsBounded ==
  ASSUME NEW s, NEW t, Bounded(s),
         UserSlots(t) \subseteq UserSlots(s),
         GroupSlotsUsed(t) \subseteq GroupSlotsUsed(s)
  PROVE  Bounded(t)
<1>1. /\ Cardinality(UserSlots(t)) <= Cardinality(UserSlots(s))
      /\ Cardinality(GroupSlotsUsed(t)) <= Cardinality(GroupSlotsUsed(s))
  BY SlotsFinite, FS_Subset
<1> QED
  BY <1>1, SlotsFinite, LimitsAssumption DEF Bounded

\* user_add takes a slot only while one is free.
LEMMA UserAddBounded ==
  ASSUME NEW s, MemoryInv(s), Bounded(s), NEW u \in Names, NEW a \in Addrs
  PROVE  Bounded(UserAdd(s, u, a))
<1> DEFINE t == UserAdd(s, u, a)
<1>1. GroupSlotsUsed(t) = GroupSlotsUsed(s)
  BY DEF GroupSlotsUsed, UserAdd
<1>2. CASE s.users[u].state = "absent" /\ CanAddUser(s, u)
  <2>1. UserSlots(t) = UserSlots(s) \cup {u}
    BY <1>2, SMT DEF MemoryInv, SharedMemory, Users, UserSlots, UserAdd
  <2>2. Cardinality(UserSlots(t)) = Cardinality(UserSlots(s)) + 1
    <3>1. u \notin UserSlots(s)
      BY <1>2 DEF UserSlots
    <3> QED
      BY <2>1, <3>1, SlotsFinite, FS_AddElement
  <2>3. Cardinality(UserSlots(s)) < MaxClients
    BY <1>2 DEF CanAddUser
  <2> QED
    BY <1>1, <2>2, <2>3, SlotsFinite, LimitsAssumption DEF Bounded
<1>3. CASE ~(s.users[u].state = "absent" /\ CanAddUser(s, u))
  <2>1. UserSlots(t) \subseteq UserSlots(s)
    <3>1. CASE ~CanAddUser(s, u)
      BY <3>1 DEF UserAdd
    <3>2. CASE s.users[u].state # "absent"
      <4>1. \A v \in Names \ {u} : t.users[v] = s.users[v]
        BY SMT DEF MemoryInv, SharedMemory, UserAdd
      <4> QED
        BY <3>2, <4>1 DEF UserSlots
    <3> QED
      BY <1>3, <3>1, <3>2
  <2> QED
    BY <1>1, <2>1, SameSlotsBounded
<1> QED
  BY <1>2, <1>3

\* group_create takes a slot only while one is free.
LEMMA GroupCreateBounded ==
  ASSUME NEW s, MemoryInv(s), Bounded(s), NEW g \in Groups, NEW u \in Names
  PROVE  Bounded(GroupCreate(s, g, u))
<1> DEFINE t == GroupCreate(s, g, u)
<1>1. UserSlots(t) = UserSlots(s)
  BY DEF UserSlots, GroupCreate
<1>2. CASE s.groups[g].state = "absent" /\ CanCreateGroup(s, g)
  <2>1. GroupSlotsUsed(t) = GroupSlotsUsed(s) \cup {g}
    BY <1>2, SMT
    DEF MemoryInv, SharedMemory, GroupSlots, GroupSlotsUsed, GroupCreate
  <2>2. Cardinality(GroupSlotsUsed(t)) = Cardinality(GroupSlotsUsed(s)) + 1
    <3>1. g \notin GroupSlotsUsed(s)
      BY <1>2 DEF GroupSlotsUsed
    <3> QED
      BY <2>1, <3>1, SlotsFinite, FS_AddElement
  <2>3. Cardinality(GroupSlotsUsed(s)) < MaxGroups
    BY <1>2 DEF CanCreateGroup
  <2> QED
    BY <1>1, <2>2, <2>3, SlotsFinite, LimitsAssumption DEF Bounded
<1>3. CASE ~(s.groups[g].state = "absent" /\ CanCreateGroup(s, g))
  <2>1. GroupSlotsUsed(t) \subseteq GroupSlotsUsed(s)
    <3>1. CASE ~CanCreateGroup(s, g)
      BY <3>1 DEF GroupCreate
    <3>2. CASE s.groups[g].state # "absent"
      <4>1. \A h \in Groups \ {g} : t.groups[h] = s.groups[h]
        BY SMT DEF MemoryInv, SharedMemory, GroupCreate
      <4> QED
        BY <3>2, <4>1 DEF GroupSlotsUsed
    <3> QED
      BY <1>3, <3>1, <3>2
  <2> QED
    BY <1>1, <2>1, SameSlotsBounded
<1> QED
  BY <1>2, <1>3

-----------------------------------------------------------------------------
(* What the operations of user.c and group.c do to the four parts of the   *)
(* mapping.  Same(s, t) lists the parts that are as they were.             *)

Put(f, g, x) == [f EXCEPT ![g] = x]

SameConnected(s, t) == ConnectedUsers(t) = ConnectedUsers(s)
SameGroups(s, t)    == LiveGroups(t) = LiveGroups(s)
SameMembers(s, t)   == MembersOf(t) = MembersOf(s)
SameAdmins(s, t)    == AdminsOf(t) = AdminsOf(s)

\* user_add, when it succeeds.
LEMMA UserAddMap ==
  ASSUME NEW s, MemoryInv(s), NEW u \in Names, NEW a \in Addrs,
         CanAddUser(s, u)
  PROVE  LET t == UserAdd(s, u, a)
         IN  /\ ConnectedUsers(t) = ConnectedUsers(s) \cup {u}
             /\ SameGroups(s, t) /\ SameMembers(s, t) /\ SameAdmins(s, t)
<1> DEFINE t == UserAdd(s, u, a)
<1>1. t.groups = s.groups
  BY DEF UserAdd
<1>2. UserFound(t, u) /\ \A v \in Names \ {u} : t.users[v] = s.users[v]
  BY SMT DEF MemoryInv, SharedMemory, Users, UserAdd, UserFound
<1> QED
  BY <1>1, <1>2
  DEF ConnectedUsers, UserFound, SameGroups, SameMembers, SameAdmins,
      LiveGroups, MembersOf, AdminsOf, GroupFound

\* user_remove.
LEMMA UserRemoveMap ==
  ASSUME NEW s, MemoryInv(s), NoLeftovers(s), NEW u \in Names
  PROVE  LET t == UserRemove(s, u)
         IN  /\ ConnectedUsers(t) = ConnectedUsers(s) \ {u}
             /\ MembersOf(t) = [g \in Groups |-> MembersOf(s)[g] \ {u}]
             /\ SameGroups(s, t) /\ SameAdmins(s, t)
<1> DEFINE t == UserRemove(s, u)
<1>1. CASE s.users[u].state = "absent"
  <2>1. t = s
    BY <1>1 DEF UserRemove
  <2>2. \A g \in Groups : s.groups[g].users \ {u} = s.groups[g].users
    BY <1>1 DEF MemoryInv, MembersIn, UserSlots
  <2> QED
    BY <1>1, <2>1, <2>2
    DEF ConnectedUsers, UserFound, SameGroups, SameAdmins, MembersOf
<1>2. CASE s.users[u].state # "absent"
  <2>1. \A g \in Groups : /\ t.groups[g].state = s.groups[g].state
                          /\ t.groups[g].admins = s.groups[g].admins
                          /\ t.groups[g].users = s.groups[g].users \ {u}
    BY <1>2, SMT
    DEF MemoryInv, SharedMemory, GroupSlots, NoLeftovers, IsMember,
        GroupFound, UserRemove
  <2>2. ~UserFound(t, u) /\ \A v \in Names \ {u} : t.users[v] = s.users[v]
    BY <1>2, SMT DEF MemoryInv, SharedMemory, Users, UserRemove, UserFound
  <2> QED
    BY <2>1, <2>2
    DEF ConnectedUsers, UserFound, SameGroups, SameAdmins, LiveGroups,
        MembersOf, AdminsOf, GroupFound
<1> QED
  BY <1>1, <1>2

\* group_create, when it succeeds.
LEMMA GroupCreateMap ==
  ASSUME NEW s, MemoryInv(s), NoLeftovers(s), NEW g \in Groups, NEW u \in Names,
         CanCreateGroup(s, g)
  PROVE  LET t == GroupCreate(s, g, u)
         IN  /\ g \notin LiveGroups(s)
             /\ LiveGroups(t) = LiveGroups(s) \cup {g}
             /\ AdminsOf(t) = Put(AdminsOf(s), g, {u} \ {EmptyName})
             /\ SameConnected(s, t) /\ SameMembers(s, t)
             /\ NoLeftovers(t)
             /\ GroupFound(t, g) /\ t.groups[g].users = {}
<1> DEFINE t == GroupCreate(s, g, u)
<1>1. t.users = s.users
  BY DEF GroupCreate
<1>2. ~GroupFound(s, g)
  BY DEF CanCreateGroup, GroupFound
<1>3. \A h \in Groups \ {g} : t.groups[h] = s.groups[h]
  BY SMT DEF MemoryInv, SharedMemory, GroupCreate
<1>4. /\ GroupFound(t, g)
      /\ t.groups[g].users = {} /\ s.groups[g].users = {}
      /\ t.groups[g].admins = {u} \ {EmptyName}
  BY <1>2, SMT
  DEF MemoryInv, SharedMemory, GroupSlots, GroupCreate, GroupFound, NoLeftovers
<1>5. \A h \in Groups : /\ t.groups[h].users = s.groups[h].users
                        /\ AdminsOf(t)[h] =
                             Put(AdminsOf(s), g, {u} \ {EmptyName})[h]
  BY <1>3, <1>4 DEF AdminsOf, Put
<1>6. NoLeftovers(t)
  BY <1>3, <1>4 DEF NoLeftovers, GroupFound
<1> QED
  BY <1>1, <1>2, <1>3, <1>4, <1>5, <1>6
  DEF LiveGroups, GroupFound, AdminsOf, MembersOf, SameConnected, SameMembers,
      ConnectedUsers, UserFound, Put

\* group_add_user.
LEMMA GroupAddUserMap ==
  ASSUME NEW s, MemoryInv(s), NEW g \in Groups, NEW u \in Names
  PROVE  LET t == GroupAddUser(s, g, u)
         IN  /\ MembersOf(t) = Put(MembersOf(s), g, MembersOf(s)[g] \cup {u})
             /\ SameConnected(s, t) /\ SameGroups(s, t) /\ SameAdmins(s, t)
<1> DEFINE t == GroupAddUser(s, g, u)
<1>1. \A v \in Names : t.users[v].state = s.users[v].state
  BY SMT DEF MemoryInv, SharedMemory, Users, GroupAddUser
<1>2. \A h \in Groups \ {g} : t.groups[h] = s.groups[h]
  BY SMT DEF MemoryInv, SharedMemory, GroupAddUser
<1>3. /\ t.groups[g].state = s.groups[g].state
      /\ t.groups[g].admins = s.groups[g].admins
      /\ t.groups[g].users = s.groups[g].users \cup {u}
  BY SMT DEF MemoryInv, SharedMemory, GroupSlots, GroupAddUser
<1> QED
  BY <1>1, <1>2, <1>3
  DEF SameConnected, SameGroups, SameAdmins, ConnectedUsers, LiveGroups,
      MembersOf, AdminsOf, UserFound, GroupFound, Put

\* group_remove_user.
LEMMA GroupRemoveUserMap ==
  ASSUME NEW s, MemoryInv(s), NoLeftovers(s), NEW g \in Groups, NEW u \in Names
  PROVE  LET t == GroupRemoveUser(s, g, u)
         IN  /\ MembersOf(t) = Put(MembersOf(s), g, MembersOf(s)[g] \ {u})
             /\ SameConnected(s, t) /\ SameGroups(s, t) /\ SameAdmins(s, t)
<1> DEFINE t == GroupRemoveUser(s, g, u)
<1>1. \A v \in Names : t.users[v].state = s.users[v].state
  BY SMT DEF MemoryInv, SharedMemory, Users, GroupRemoveUser
<1>2. \A h \in Groups \ {g} : t.groups[h] = s.groups[h]
  BY SMT DEF MemoryInv, SharedMemory, GroupRemoveUser
<1>3. /\ t.groups[g].state = s.groups[g].state
      /\ t.groups[g].admins = s.groups[g].admins
      /\ t.groups[g].users = s.groups[g].users \ {u}
  BY SMT DEF MemoryInv, SharedMemory, GroupSlots, GroupRemoveUser, IsMember,
             GroupFound, NoLeftovers
<1> QED
  BY <1>1, <1>2, <1>3
  DEF SameConnected, SameGroups, SameAdmins, ConnectedUsers, LiveGroups,
      MembersOf, AdminsOf, UserFound, GroupFound, Put

\* group_add_admin.
LEMMA GroupAddAdminMap ==
  ASSUME NEW s, MemoryInv(s), NEW g \in Groups, NEW u \in Names
  PROVE  LET t == GroupAddAdmin(s, g, u)
         IN  /\ AdminsOf(t) = Put(AdminsOf(s), g, AdminsOf(s)[g] \cup {u})
             /\ SameConnected(s, t) /\ SameGroups(s, t) /\ SameMembers(s, t)
<1> DEFINE t == GroupAddAdmin(s, g, u)
<1>1. t.users = s.users
  BY DEF GroupAddAdmin
<1>2. \A h \in Groups \ {g} : t.groups[h] = s.groups[h]
  BY SMT DEF MemoryInv, SharedMemory, GroupAddAdmin
<1>3. /\ t.groups[g].state = s.groups[g].state
      /\ t.groups[g].users = s.groups[g].users
      /\ t.groups[g].admins = s.groups[g].admins \cup {u}
  BY SMT DEF MemoryInv, SharedMemory, GroupSlots, GroupAddAdmin
<1> QED
  BY <1>1, <1>2, <1>3
  DEF SameConnected, SameGroups, SameMembers, ConnectedUsers, LiveGroups,
      MembersOf, AdminsOf, UserFound, GroupFound, Put

\* group_remove_admin.
LEMMA GroupRemoveAdminMap ==
  ASSUME NEW s, MemoryInv(s), NEW g \in Groups, NEW u \in Names
  PROVE  LET t == GroupRemoveAdmin(s, g, u)
         IN  /\ AdminsOf(t) = Put(AdminsOf(s), g, AdminsOf(s)[g] \ {u})
             /\ SameConnected(s, t) /\ SameGroups(s, t) /\ SameMembers(s, t)
<1> DEFINE t == GroupRemoveAdmin(s, g, u)
<1>1. t.users = s.users
  BY DEF GroupRemoveAdmin
<1>2. \A h \in Groups \ {g} : t.groups[h] = s.groups[h]
  BY SMT DEF MemoryInv, SharedMemory, GroupRemoveAdmin
<1>3. /\ t.groups[g].state = s.groups[g].state
      /\ t.groups[g].users = s.groups[g].users
      /\ t.groups[g].admins = s.groups[g].admins \ {u}
  BY SMT DEF MemoryInv, SharedMemory, GroupSlots, GroupRemoveAdmin
<1> QED
  BY <1>1, <1>2, <1>3
  DEF SameConnected, SameGroups, SameMembers, ConnectedUsers, LiveGroups,
      MembersOf, AdminsOf, UserFound, GroupFound, Put

\* A group of which a connected user is not a member has room for it.
LEMMA GroupHasRoom ==
  ASSUME NEW s, MemoryInv(s), Bounded(s), NEW g \in Groups, NEW u \in Names,
         GroupFound(s, g), UserFound(s, u), u \notin s.groups[g].users
  PROVE  CanJoinGroup(s, g, u)
<1> DEFINE list == s.groups[g].users
<1>1. list \cup {u} \subseteq UserSlots(s)
  BY DEF MemoryInv, MembersIn, UserSlots, UserFound
<1>2. IsFiniteSet(list) /\ Cardinality(list) \in Nat
  BY <1>1, SlotsFinite, FS_Subset, FS_CardinalityType
<1>3. Cardinality(list \cup {u}) = Cardinality(list) + 1
  BY <1>2, FS_AddElement
<1>4. Cardinality(list \cup {u}) <= Cardinality(UserSlots(s))
  BY <1>1, SlotsFinite, FS_Subset
<1>5. Cardinality(list) < MaxClients
  BY <1>2, <1>3, <1>4, SlotsFinite, LimitsAssumption DEF Bounded
<1> QED
  BY <1>5 DEF CanJoinGroup

\* A list of members always has room for the members of another group: they
\* all hold user slots, of which there are no more than entries.
LEMMA MembersFit ==
  ASSUME NEW s, MemoryInv(s), Bounded(s), NEW g1 \in Groups, NEW g2 \in Groups
  PROVE  Fitting(s.groups[g1].users, s.groups[g2].users) =
            {s.groups[g2].users \ s.groups[g1].users}
<1> DEFINE list == s.groups[g1].users
           new == s.groups[g2].users \ s.groups[g1].users
<1>1. list \cup new \subseteq UserSlots(s)
  BY DEF MemoryInv, MembersIn
<1>2. IsFiniteSet(list) /\ IsFiniteSet(new)
  BY <1>1, SlotsFinite, FS_Subset
<1>3. Cardinality(list \cup new) <= MaxClients
  <2>1. /\ Cardinality(list \cup new) <= Cardinality(UserSlots(s))
        /\ Cardinality(list \cup new) \in Nat
    BY <1>1, <1>2, SlotsFinite, FS_Subset, FS_Union, FS_CardinalityType
  <2> QED
    BY <2>1, SlotsFinite, LimitsAssumption DEF Bounded
<1>4. Cardinality(list \cup new) = Cardinality(list) + Cardinality(new)
  <2>1. Cardinality(list \cap new) = 0
    <3>1. list \cap new = {}
      OBVIOUS
    <3> QED
      BY <3>1, FS_EmptySet
  <2>2. Cardinality(list) \in Nat /\ Cardinality(new) \in Nat
    BY <1>2, FS_CardinalityType
  <2>3. Cardinality(list \cup new) =
          Cardinality(list) + Cardinality(new) - Cardinality(list \cap new)
    BY <1>2, FS_Union
  <2> QED
    BY <2>1, <2>2, <2>3
<1> QED
  BY <1>3, <1>4 DEF Fitting

\* group_merge.
LEMMA MergeMap ==
  ASSUME NEW s, TableInv(s), NEW g \in Groups, NEW h \in Groups,
         CanMerge(s, g, h), NEW t \in GroupMerge(s, g, h)
  PROVE  /\ LiveGroups(t) = LiveGroups(s) \ {h}
         /\ MembersOf(t) = [MembersOf(s) EXCEPT ![g] = @ \cup MembersOf(s)[h],
                                               ![h] = {}]
         /\ \E some \in SUBSET AdminsOf(s)[h] :
               AdminsOf(t) = [AdminsOf(s) EXCEPT ![g] = @ \cup some, ![h] = {}]
         /\ SameConnected(s, t)
<1> DEFINE new == s.groups[h].users \ s.groups[g].users
<1>1. MemoryInv(s) /\ Bounded(s) /\ g # h /\ GroupFound(s, g)
  BY DEF TableInv, CanMerge
<1>2. PICK some \in Fitting(s.groups[g].admins, s.groups[h].admins) :
         t = MergedWith(s, g, h, new, some)
  <2>1. PICK users \in Fitting(s.groups[g].users, s.groups[h].users),
             some  \in Fitting(s.groups[g].admins, s.groups[h].admins) :
          t = MergedWith(s, g, h, users, some)
    BY DEF GroupMerge
  <2>2. users = new
    BY <1>1, <2>1, MembersFit
  <2> QED
    BY <2>1, <2>2
<1>3. some \subseteq s.groups[h].admins
  BY FittingSubset
<1>4. \A v \in Names : t.users[v].state = s.users[v].state
  BY <1>1, <1>2, SMT DEF MemoryInv, SharedMemory, Users, MergedWith
<1>5. s.groups \in [Groups -> GroupSlots]
  BY <1>1 DEF MemoryInv, SharedMemory
<1>6. \A k \in Groups \ {g, h} : t.groups[k] = s.groups[k]
  BY <1>2, <1>5 DEF MergedWith
<1>7. /\ t.groups[g].state = s.groups[g].state
      /\ t.groups[g].users = s.groups[g].users \cup s.groups[h].users
      /\ t.groups[g].admins = s.groups[g].admins \cup some
  BY <1>1, <1>2, <1>5 DEF MergedWith
<1>8. /\ t.groups[h].state = "inactive"
      /\ t.groups[h].users = {} /\ t.groups[h].admins = {}
  BY <1>2, <1>5 DEF MergedWith
<1>9. SameConnected(s, t)
  BY <1>4 DEF SameConnected, ConnectedUsers, UserFound
<1>10. LiveGroups(t) = LiveGroups(s) \ {h}
  BY <1>1, <1>6, <1>7, <1>8 DEF LiveGroups, GroupFound
<1>11. MembersOf(t) = [MembersOf(s) EXCEPT ![g] = @ \cup MembersOf(s)[h],
                                          ![h] = {}]
  <2>1. \A k \in Groups :
          MembersOf(t)[k] = [MembersOf(s) EXCEPT
                               ![g] = @ \cup MembersOf(s)[h], ![h] = {}][k]
    BY <1>1, <1>6, <1>7, <1>8 DEF MembersOf
  <2> QED
    BY <2>1 DEF MembersOf
<1>12. AdminsOf(t) = [AdminsOf(s) EXCEPT ![g] = @ \cup some, ![h] = {}]
  <2>1. \A k \in Groups :
          AdminsOf(t)[k] = [AdminsOf(s) EXCEPT ![g] = @ \cup some,
                                               ![h] = {}][k]
    BY <1>1, <1>6, <1>7, <1>8 DEF AdminsOf
  <2> QED
    BY <2>1 DEF AdminsOf
<1>13. some \in SUBSET AdminsOf(s)[h]
  BY <1>3 DEF AdminsOf
<1> QED
  BY <1>9, <1>10, <1>11, <1>12, <1>13

-----------------------------------------------------------------------------
(* Every step of the server keeps the tables within their limits.          *)

\* Operations after which the same slots are in use.
LEMMA KeepSlots ==
  ASSUME NEW s, MemoryInv(s), Bounded(s), NEW g \in Groups, NEW u \in Names
  PROVE  /\ Bounded(GroupAddUser(s, g, u))
         /\ Bounded(GroupRemoveUser(s, g, u))
         /\ Bounded(GroupAddAdmin(s, g, u))
         /\ Bounded(GroupRemoveAdmin(s, g, u))
<1>1. Bounded(GroupAddUser(s, g, u))
  <2> DEFINE t == GroupAddUser(s, g, u)
  <2>1. /\ \A v \in Names : t.users[v].state = s.users[v].state
        /\ \A h \in Groups : t.groups[h].state = s.groups[h].state
    BY SMT DEF MemoryInv, SharedMemory, Users, GroupSlots, GroupAddUser
  <2> QED
    BY <2>1, SameSlotsBounded DEF UserSlots, GroupSlotsUsed
<1>2. Bounded(GroupRemoveUser(s, g, u))
  <2> DEFINE t == GroupRemoveUser(s, g, u)
  <2>1. /\ \A v \in Names : t.users[v].state = s.users[v].state
        /\ \A h \in Groups : t.groups[h].state = s.groups[h].state
    BY SMT DEF MemoryInv, SharedMemory, Users, GroupSlots, GroupRemoveUser
  <2> QED
    BY <2>1, SameSlotsBounded DEF UserSlots, GroupSlotsUsed
<1>3. Bounded(GroupAddAdmin(s, g, u)) /\ Bounded(GroupRemoveAdmin(s, g, u))
  <2> DEFINE t == GroupAddAdmin(s, g, u)
             r == GroupRemoveAdmin(s, g, u)
  <2>1. /\ t.users = s.users /\ r.users = s.users
        /\ \A h \in Groups : /\ t.groups[h].state = s.groups[h].state
                              /\ r.groups[h].state = s.groups[h].state
    BY SMT DEF MemoryInv, SharedMemory, GroupSlots, GroupAddAdmin,
               GroupRemoveAdmin
  <2> QED
    BY <2>1, SameSlotsBounded DEF UserSlots, GroupSlotsUsed
<1> QED
  BY <1>1, <1>2, <1>3

\* The two preparations of a join: a slot for the user, a slot for the group.
LEMMA PreparedInv ==
  ASSUME NEW s, MemoryInv(s), Bounded(s), NEW g \in Groups, NEW u \in Names,
         NEW a \in Addrs
  PROVE  LET registered == IF UserFound(s, u) THEN s ELSE UserAdd(s, u, a)
             prepared == IF GroupFound(registered, g) THEN registered
                         ELSE GroupCreate(registered, g, u)
         IN  /\ MemoryInv(registered) /\ Bounded(registered)
             /\ MemoryInv(prepared) /\ Bounded(prepared)
  BY UserAddInv, UserAddBounded, GroupCreateInv, GroupCreateBounded

\* One request.
LEMMA BoundedStep ==
  ASSUME TableInv(shm), NEW m \in Requests, HandleClientMessage(m)
  PROVE  Bounded(shm')
<1>1. MemoryInv(shm) /\ Bounded(shm) /\ m.from \in Addrs /\ m.sender \in Names
  BY RequestType DEF TableInv
<1>2. CASE Join(m)
  BY <1>1, <1>2, RequestType, PreparedInv, KeepSlots DEF Join
<1>3. CASE Leave(m)
  BY <1>1, <1>3, RequestType, KeepSlots DEF Leave
<1>4. CASE ChangeColor(m)
  <2>1. CASE shm' = [users  |-> shm.users,
                     groups |-> [shm.groups EXCEPT ![m.group].color = m.arg]]
    <3>1. /\ shm'.users = shm.users
          /\ \A h \in Groups : shm'.groups[h].state = shm.groups[h].state
      BY <1>1, <2>1, SMT DEF MemoryInv, SharedMemory, GroupSlots
    <3> QED
      BY <1>1, <3>1, SameSlotsBounded DEF UserSlots, GroupSlotsUsed
  <2> QED
    BY <1>1, <1>4, <2>1 DEF ChangeColor, Refuse, Ignore
<1>5. CASE CreateGroup(m)
  BY <1>1, <1>5, RequestType, GroupCreateBounded DEF CreateGroup, Ignore
<1>6. CASE MergeGroups(m)
  <2> DEFINE g == m.arg[1]
             h == m.arg[2]
  <2>1. CASE CanMerge(shm, g, h) /\ shm' \in GroupMerge(shm, g, h)
    <3>1. g \in Groups /\ h \in Groups
      BY <1>6, RequestType DEF MergeGroups
    <3>2. PICK users, admins : shm' = MergedWith(shm, g, h, users, admins)
      BY <2>1 DEF GroupMerge
    <3>3. \A v \in Names : shm'.users[v].state = shm.users[v].state
      BY <1>1, <3>2, SMT DEF MemoryInv, SharedMemory, Users, MergedWith
    <3>4. \A k \in Groups :
            shm'.groups[k].state # "absent" => shm.groups[k].state # "absent"
      <4>1. shm.groups \in [Groups -> GroupSlots]
        BY <1>1 DEF MemoryInv, SharedMemory
      <4>2. shm.groups[g].state # "absent" /\ shm.groups[h].state # "absent"
        BY <2>1 DEF CanMerge, GroupFound
      <4>3. \A k \in Groups \ {g, h} : shm'.groups[k] = shm.groups[k]
        BY <3>2, <4>1 DEF MergedWith
      <4> QED
        BY <4>2, <4>3
    <3> QED
      BY <1>1, <3>3, <3>4, SameSlotsBounded DEF UserSlots, GroupSlotsUsed
  <2> QED
    BY <1>1, <1>6, <2>1 DEF MergeGroups, Refuse, Ignore
<1>7. CASE KickUser(m)
  <2>1. m.group \in Groups /\ m.arg \in Names
    BY <1>7, RequestType DEF KickUser
  <2>2. /\ MemoryInv(GroupRemoveAdmin(shm, m.group, m.arg))
        /\ Bounded(GroupRemoveAdmin(shm, m.group, m.arg))
    BY <1>1, <2>1, GroupAdminInv, KeepSlots
  <2>3. Bounded(GroupKickUser(shm, m.group, m.arg))
    BY <2>1, <2>2, KeepSlots DEF GroupKickUser
  <2> QED
    BY <1>1, <1>7, <2>3 DEF KickUser, Refuse, Ignore
<1>8. CASE PromoteAdmin(m) \/ DemoteAdmin(m)
  BY <1>1, <1>8, RequestType, KeepSlots
  DEF PromoteAdmin, DemoteAdmin, Refuse, Ignore
<1>9. CASE Disconnect(m)
  <2>1. \A v \in Names : shm'.users[v].state # "absent" =>
                           shm.users[v].state # "absent"
    BY <1>1, <1>9, SMT DEF Disconnect, MemoryInv, SharedMemory, Users, UserRemove
  <2>2. \A h \in Groups : shm'.groups[h].state = shm.groups[h].state
    BY <1>1, <1>9, SMT
    DEF Disconnect, MemoryInv, SharedMemory, GroupSlots, UserRemove
  <2> QED
    BY <1>1, <2>1, <2>2, SameSlotsBounded DEF UserSlots, GroupSlotsUsed
<1>10. CASE Connect(m)
  BY <1>1, <1>10, UserAddBounded DEF Connect
<1>11. CASE Public(m) \/ Private(m) \/ ListUsers(m) \/ ListGroups(m)
  BY <1>1, <1>11 DEF Public, Private, ListUsers, ListGroups, Refuse
<1> QED
  BY <1>2, <1>3, <1>4, <1>5, <1>6, <1>7, <1>8, <1>9, <1>10, <1>11
  DEF HandleClientMessage

-----------------------------------------------------------------------------
(* Every step of the server is a step of Membership.                       *)

\* A step that leaves all parts of the mapping alone is a refusal.
LEMMA SameIsRefused ==
  ASSUME SameConnected(shm, shm'), SameGroups(shm, shm'),
         SameMembers(shm, shm'), SameAdmins(shm, shm')
  PROVE  M!Next
<1>1. M!Refused
  BY DEF M!Refused, M!vars, SameConnected, SameGroups, SameMembers, SameAdmins
<1> QED
  BY <1>1 DEF M!Next

\* An answer that leaves the memory alone, in particular.
LEMMA UnchangedIsRefused == shm' = shm => M!Next
  BY SameIsRefused DEF SameConnected, SameGroups, SameMembers, SameAdmins

\* JOIN: the group is joined, or its user only connected, or the group only
\* founded.  Both can not happen without the join: a user just connected
\* finds room in a group just founded.
LEMMA JoinMaps ==
  ASSUME TableInv(shm), NEW m \in Requests, Join(m)
  PROVE  M!Next
<1> DEFINE u == m.sender
           g == m.group
           registered == IF UserFound(shm, u) THEN shm
                         ELSE UserAdd(shm, u, m.from)
           prepared == IF GroupFound(registered, g) THEN registered
                       ELSE GroupCreate(registered, g, u)
<1>1. /\ u \in Names /\ m.from \in Addrs /\ g \in Groups
      /\ MemoryInv(shm) /\ Bounded(shm) /\ NoLeftovers(shm)
  BY RequestType DEF Join, TableInv
<1>2. /\ MemoryInv(registered) /\ Bounded(registered)
      /\ MemoryInv(prepared) /\ Bounded(prepared)
  BY <1>1, PreparedInv
<1>3. /\ SameGroups(shm, registered) /\ SameMembers(shm, registered)
      /\ SameAdmins(shm, registered)
      /\ \/ ConnectedUsers(registered) = ConnectedUsers(shm) \cup {u}
         \/ ~UserFound(registered, u) /\ registered = shm
  <2>1. CASE UserFound(shm, u)
    BY <1>1, <2>1
    DEF SameGroups, SameMembers, SameAdmins, ConnectedUsers
  <2>2. CASE ~UserFound(shm, u) /\ CanAddUser(shm, u)
    BY <1>1, <2>2, UserAddMap
  <2>3. CASE ~UserFound(shm, u) /\ ~CanAddUser(shm, u)
    BY <2>3 DEF UserAdd, SameGroups, SameMembers, SameAdmins
  <2> QED
    BY <2>1, <2>2, <2>3
<1>4. NoLeftovers(registered)
  BY <1>1 DEF NoLeftovers, UserAdd, GroupFound
<1>5. /\ SameConnected(registered, prepared)
      /\ SameMembers(registered, prepared)
      /\ NoLeftovers(prepared)
      /\ \/ prepared = registered
         \/ /\ GroupFound(prepared, g) /\ prepared.groups[g].users = {}
            /\ g \notin LiveGroups(registered)
            /\ LiveGroups(prepared) = LiveGroups(registered) \cup {g}
            /\ AdminsOf(prepared) =
                  Put(AdminsOf(registered), g, {u} \ {EmptyName})
  <2>1. CASE GroupFound(registered, g) \/ ~CanCreateGroup(registered, g)
    BY <1>4, <2>1 DEF GroupCreate, SameConnected, SameMembers
  <2>2. CASE ~GroupFound(registered, g) /\ CanCreateGroup(registered, g)
    <3>1. prepared = GroupCreate(registered, g, u)
      BY <2>2
    <3> HIDE DEF registered, prepared
    <3> QED
      BY <1>1, <1>2, <1>4, <2>2, <3>1, GroupCreateMap
  <2> QED
    BY <2>1, <2>2
<1>6. \/ CanJoinGroup(prepared, g, u) /\ shm' = GroupAddUser(prepared, g, u)
      \/ ~CanJoinGroup(prepared, g, u) /\ shm' = prepared
  BY DEF Join
<1> HIDE DEF registered, prepared
<1>7. CASE CanJoinGroup(prepared, g, u) /\ shm' = GroupAddUser(prepared, g, u)
  <2>1. /\ MembersOf(shm') = Put(MembersOf(prepared), g,
                               MembersOf(prepared)[g] \cup {u})
        /\ SameConnected(prepared, shm') /\ SameGroups(prepared, shm')
        /\ SameAdmins(prepared, shm')
    BY <1>1, <1>2, <1>7, GroupAddUserMap
  <2>2. UserFound(registered, u) /\ g \in LiveGroups(prepared)
    <3>1. UserFound(prepared, u)
      BY <1>7 DEF CanJoinGroup
    <3>2. ConnectedUsers(prepared) = ConnectedUsers(registered)
      BY <1>5 DEF SameConnected
    <3> QED
      BY <1>1, <1>7, <3>1, <3>2
      DEF CanJoinGroup, LiveGroups, ConnectedUsers
  <2>3. ConnectedUsers(shm') = ConnectedUsers(shm) \cup {u}
    BY <1>3, <1>5, <2>1, <2>2 DEF SameConnected
  <2>4. MembersOf(shm') = Put(MembersOf(shm), g, MembersOf(shm)[g] \cup {u})
    BY <1>3, <1>5, <2>1 DEF SameMembers
  <2>5. \/ /\ g \in LiveGroups(shm)
           /\ LiveGroups(shm') = LiveGroups(shm)
           /\ AdminsOf(shm') = AdminsOf(shm)
        \/ /\ g \notin LiveGroups(shm)
           /\ LiveGroups(shm') = LiveGroups(shm) \cup {g}
           /\ AdminsOf(shm') = Put(AdminsOf(shm), g, {u} \ {EmptyName})
    BY <1>3, <1>5, <2>1, <2>2 DEF SameGroups, SameAdmins
  <2>6. M!Join(u, g)
    BY <2>3, <2>4, <2>5 DEF M!Join, M!Founded, Put
  <2> QED
    BY <1>1, <2>6 DEF M!Next
<1>8. CASE ~CanJoinGroup(prepared, g, u) /\ shm' = prepared
  <2>1. CASE prepared = registered
    <3>1. CASE ConnectedUsers(registered) = ConnectedUsers(shm) \cup {u}
      <4>1. M!Connect(u)
        BY <1>3, <1>8, <2>1, <3>1
        DEF M!Connect, SameGroups, SameMembers, SameAdmins
      <4> QED
        BY <1>1, <4>1 DEF M!Next
    <3> QED
      BY <1>3, <1>8, <2>1, <3>1, UnchangedIsRefused
  <2>2. CASE prepared # registered
    <3>1. ~UserFound(registered, u)
      <4> SUFFICES ASSUME UserFound(registered, u)
                   PROVE  CanJoinGroup(prepared, g, u)
        BY <1>8
      <4>1. UserFound(prepared, u)
        BY <1>1, <1>5 DEF SameConnected, ConnectedUsers
      <4> QED
        BY <1>1, <1>2, <1>5, <2>2, <4>1, GroupHasRoom
    <3>2. registered = shm
      BY <1>1, <1>3, <3>1 DEF ConnectedUsers
    <3>3. M!Found(u, g)
      BY <1>5, <1>8, <2>2, <3>2
      DEF M!Found, M!Founded, SameConnected, SameMembers, Put
    <3> QED
      BY <1>1, <3>3 DEF M!Next
  <2> QED
    BY <2>1, <2>2
<1> QED
  BY <1>6, <1>7, <1>8

\* MERGE_GROUPS.
LEMMA MergeMaps ==
  ASSUME TableInv(shm), NEW m \in Requests, MergeGroups(m)
  PROVE  M!Next
<1> DEFINE u == m.sender
           g == m.arg[1]
           h == m.arg[2]
<1>1. u \in Names /\ g \in Groups /\ h \in Groups
  BY RequestType DEF MergeGroups
<1>2. CASE /\ IsAdmin(shm, g, u) /\ CanMerge(shm, g, h)
           /\ shm' \in GroupMerge(shm, g, h)
  <2>1. /\ LiveGroups(shm') = LiveGroups(shm) \ {h}
        /\ MembersOf(shm') = [MembersOf(shm) EXCEPT
                                 ![g] = @ \cup MembersOf(shm)[h], ![h] = {}]
        /\ \E some \in SUBSET AdminsOf(shm)[h] :
              AdminsOf(shm') = [AdminsOf(shm) EXCEPT ![g] = @ \cup some,
                                                     ![h] = {}]
        /\ SameConnected(shm, shm')
    BY <1>1, <1>2, MergeMap
  <2>2. u \in AdminsOf(shm)[g] /\ h \in LiveGroups(shm) \ {g}
    BY <1>1, <1>2 DEF IsAdmin, CanMerge, AdminsOf, LiveGroups
  <2>3. M!Merge(u, g, h)
    BY <2>1, <2>2 DEF M!Merge, SameConnected
  <2> QED
    BY <1>1, <2>3 DEF M!Next
<1>3. CASE shm' = shm
  BY <1>3, UnchangedIsRefused
<1> QED
  BY <1>2, <1>3 DEF MergeGroups, Refuse, Ignore

\* KICK_USER: the two removals are one kick, also of somebody who is an
\* administrator but not a member.
LEMMA KickMaps ==
  ASSUME TableInv(shm), NEW m \in Requests, KickUser(m)
  PROVE  M!Next
<1> DEFINE u == m.sender
           g == m.group
           v == m.arg
           r == GroupRemoveAdmin(shm, g, v)
<1>1. /\ u \in Names /\ g \in Groups /\ v \in Names
      /\ MemoryInv(shm) /\ NoLeftovers(shm)
  BY RequestType DEF KickUser, TableInv
<1>2. CASE IsAdmin(shm, g, u) /\ v # u /\ shm' = GroupKickUser(shm, g, v)
  <2>1. /\ AdminsOf(r) = Put(AdminsOf(shm), g, AdminsOf(shm)[g] \ {v})
        /\ SameConnected(shm, r) /\ SameGroups(shm, r) /\ SameMembers(shm, r)
    BY <1>1, GroupRemoveAdminMap
  <2>2. MemoryInv(r)
    BY <1>1, GroupAdminInv
  <2>3. NoLeftovers(r)
    <3>1. \A k \in Groups :
            /\ r.groups[k].state = shm.groups[k].state
            /\ r.groups[k].users = shm.groups[k].users
            /\ r.groups[k].admins \subseteq shm.groups[k].admins
      BY <1>1, SMT DEF MemoryInv, SharedMemory, GroupSlots, GroupRemoveAdmin
    <3> QED
      BY <1>1, <3>1 DEF NoLeftovers, GroupFound
  <2> HIDE DEF r
  <2>4. shm' = GroupRemoveUser(r, g, v)
    BY <1>2 DEF GroupKickUser, r
  <2>5. /\ MembersOf(shm') = Put(MembersOf(r), g, MembersOf(r)[g] \ {v})
        /\ SameConnected(r, shm') /\ SameGroups(r, shm') /\ SameAdmins(r, shm')
    BY <1>1, <2>2, <2>3, <2>4, GroupRemoveUserMap
  <2>6. u \in AdminsOf(shm)[g]
    BY <1>1, <1>2 DEF IsAdmin, AdminsOf
  <2>7. M!Kick(u, g, v)
    BY <1>2, <2>1, <2>5, <2>6
    DEF M!Kick, SameConnected, SameGroups, SameMembers, SameAdmins, Put
  <2> QED
    BY <1>1, <2>7 DEF M!Next
<1>3. CASE shm' = shm
  BY <1>3, UnchangedIsRefused
<1> QED
  BY <1>2, <1>3 DEF KickUser, Refuse, Ignore

\* PROMOTE_ADMIN and DEMOTE_ADMIN.
LEMMA AdminMaps ==
  ASSUME TableInv(shm), NEW m \in Requests, PromoteAdmin(m) \/ DemoteAdmin(m)
  PROVE  M!Next
<1> DEFINE u == m.sender
           g == m.group
           v == m.arg
<1>1. /\ u \in Names /\ g \in Groups /\ v \in Names
      /\ MemoryInv(shm)
  BY RequestType DEF PromoteAdmin, DemoteAdmin, TableInv
<1>2. CASE /\ IsAdmin(shm, g, u) /\ UserFound(shm, v)
           /\ CanAddAdmin(shm, g, v)
           /\ shm' = GroupAddAdmin(shm, g, v)
  <2>1. /\ AdminsOf(shm') = Put(AdminsOf(shm), g, AdminsOf(shm)[g] \cup {v})
        /\ SameConnected(shm, shm') /\ SameGroups(shm, shm')
        /\ SameMembers(shm, shm')
    BY <1>1, <1>2, GroupAddAdminMap
  <2>2. u \in AdminsOf(shm)[g] /\ v \in ConnectedUsers(shm) \cap MembersOf(shm)[g]
    BY <1>1, <1>2
    DEF IsAdmin, AdminsOf, CanAddAdmin, IsMember, MembersOf, ConnectedUsers
  <2>3. M!Promote(u, g, v)
    BY <2>1, <2>2
    DEF M!Promote, SameConnected, SameGroups, SameMembers, Put
  <2> QED
    BY <1>1, <2>3 DEF M!Next
<1>3. CASE /\ IsAdmin(shm, g, u) /\ v # u /\ UserFound(shm, v)
           /\ shm' = GroupRemoveAdmin(shm, g, v)
  <2>1. /\ AdminsOf(shm') = Put(AdminsOf(shm), g, AdminsOf(shm)[g] \ {v})
        /\ SameConnected(shm, shm') /\ SameGroups(shm, shm')
        /\ SameMembers(shm, shm')
    BY <1>1, <1>3, GroupRemoveAdminMap
  <2>2. u \in AdminsOf(shm)[g] /\ v \in ConnectedUsers(shm)
    BY <1>1, <1>3 DEF IsAdmin, AdminsOf, ConnectedUsers
  <2>3. M!Demote(u, g, v)
    BY <1>3, <2>1, <2>2
    DEF M!Demote, SameConnected, SameGroups, SameMembers, Put
  <2> QED
    BY <1>1, <2>3 DEF M!Next
<1>4. CASE shm' = shm
  BY <1>4, UnchangedIsRefused
<1> QED
  BY <1>2, <1>3, <1>4 DEF PromoteAdmin, DemoteAdmin, Refuse, Ignore

\* The requests that concern one user or one group.
LEMMA OtherMaps ==
  ASSUME TableInv(shm), NEW m \in Requests,
         \/ Leave(m) \/ Disconnect(m) \/ Connect(m) \/ CreateGroup(m)
         \/ ChangeColor(m) \/ Public(m) \/ Private(m)
         \/ ListUsers(m) \/ ListGroups(m)
  PROVE  M!Next
<1> DEFINE u == m.sender
<1>1. u \in Names /\ m.from \in Addrs /\ MemoryInv(shm) /\ NoLeftovers(shm)
  BY RequestType DEF TableInv
<1>2. CASE Leave(m)
  <2>1. m.group \in Groups /\ shm' = GroupRemoveUser(shm, m.group, u)
    BY <1>2, RequestType DEF Leave
  <2>2. /\ MembersOf(shm') = Put(MembersOf(shm), m.group,
                                 MembersOf(shm)[m.group] \ {u})
        /\ SameConnected(shm, shm') /\ SameGroups(shm, shm')
        /\ SameAdmins(shm, shm')
    BY <1>1, <2>1, GroupRemoveUserMap
  <2>3. M!Leave(u, m.group)
    BY <2>2 DEF M!Leave, SameConnected, SameGroups, SameAdmins, Put
  <2> QED
    BY <1>1, <2>1, <2>3 DEF M!Next
<1>3. CASE Disconnect(m)
  <2>1. /\ ConnectedUsers(shm') = ConnectedUsers(shm) \ {u}
        /\ MembersOf(shm') = [g \in Groups |-> MembersOf(shm)[g] \ {u}]
        /\ SameGroups(shm, shm') /\ SameAdmins(shm, shm')
    BY <1>1, <1>3, UserRemoveMap DEF Disconnect
  <2>2. M!Disconnect(u)
    BY <2>1 DEF M!Disconnect, SameGroups, SameAdmins
  <2> QED
    BY <1>1, <2>2 DEF M!Next
<1>4. CASE Connect(m)
  <2>1. CASE ~UserFound(shm, u) /\ CanAddUser(shm, u)
    <3>1. /\ ConnectedUsers(shm') = ConnectedUsers(shm) \cup {u}
          /\ SameGroups(shm, shm') /\ SameMembers(shm, shm')
          /\ SameAdmins(shm, shm')
      BY <1>1, <1>4, <2>1, UserAddMap DEF Connect
    <3>2. M!Connect(u)
      BY <3>1 DEF M!Connect, SameGroups, SameMembers, SameAdmins
    <3> QED
      BY <1>1, <3>2 DEF M!Next
  <2>2. CASE ~(~UserFound(shm, u) /\ CanAddUser(shm, u))
    BY <1>4, <2>2, UnchangedIsRefused DEF Connect, UserAdd
  <2> QED
    BY <2>1, <2>2
<1>5. CASE CreateGroup(m)
  <2>1. CASE CanCreateGroup(shm, m.arg) /\ shm' = GroupCreate(shm, m.arg, u)
    <3>1. m.arg \in Groups
      BY <1>5, RequestType DEF CreateGroup
    <3>2. /\ m.arg \notin LiveGroups(shm)
          /\ LiveGroups(shm') = LiveGroups(shm) \cup {m.arg}
          /\ AdminsOf(shm') = Put(AdminsOf(shm), m.arg, {u} \ {EmptyName})
          /\ SameConnected(shm, shm') /\ SameMembers(shm, shm')
      BY <1>1, <2>1, <3>1, GroupCreateMap
    <3>3. M!Found(u, m.arg)
      BY <3>2 DEF M!Found, M!Founded, SameConnected, SameMembers, Put
    <3> QED
      BY <1>1, <3>1, <3>3 DEF M!Next
  <2> QED
    BY <1>5, <2>1, UnchangedIsRefused DEF CreateGroup, Ignore
<1>6. CASE ChangeColor(m)
  <2>1. CASE shm' = [users  |-> shm.users,
                     groups |-> [shm.groups EXCEPT ![m.group].color = m.arg]]
    <3>1. /\ shm'.users = shm.users
          /\ \A k \in Groups : /\ shm'.groups[k].state = shm.groups[k].state
                                /\ shm'.groups[k].users = shm.groups[k].users
                                /\ shm'.groups[k].admins = shm.groups[k].admins
      BY <1>1, <2>1, SMT DEF MemoryInv, SharedMemory, GroupSlots
    <3> QED
      BY <3>1, SameIsRefused
      DEF SameConnected, SameGroups, SameMembers, SameAdmins, ConnectedUsers,
          LiveGroups, MembersOf, AdminsOf, UserFound, GroupFound
  <2> QED
    BY <1>6, <2>1, UnchangedIsRefused DEF ChangeColor, Refuse, Ignore
<1>7. CASE Public(m) \/ Private(m) \/ ListUsers(m) \/ ListGroups(m)
  BY <1>7, UnchangedIsRefused DEF Public, Private, ListUsers, ListGroups, Refuse
<1> QED
  BY <1>2, <1>3, <1>4, <1>5, <1>6, <1>7

\* The start of a server on existing memory.
LEMMA RestartMaps ==
  ASSUME MemoryInv(shm), Restart
  PROVE  M!Next
<1>1. /\ shm'.groups = shm.groups
      /\ \A v \in Names : shm'.users[v].state # "active"
  BY SMT DEF Restart, Deactivated, MemoryInv, SharedMemory, Users
<1>2. M!Restart
  BY <1>1
  DEF M!Restart, ConnectedUsers, LiveGroups, MembersOf, AdminsOf, UserFound,
      GroupFound
<1> QED
  BY <1>2 DEF M!Next

-----------------------------------------------------------------------------
(* The theorem.                                                            *)

\* A group that does not exist has no member and nobody governs it: each
\* action of Membership keeps this, so each step of the server does.
LEMMA NoLeftoversStep ==
  ASSUME NoLeftovers(shm), M!Next
  PROVE  NoLeftovers(shm')
<1> DEFINE Empty(g) == MembersOf(shm')[g] = {} /\ AdminsOf(shm')[g] = {}
<1>1. \A g \in Groups \ LiveGroups(shm) :
        MembersOf(shm)[g] = {} /\ AdminsOf(shm)[g] = {}
  BY DEF NoLeftovers, LiveGroups, MembersOf, AdminsOf
<1>2. /\ MembersOf(shm) = [g \in Groups |-> MembersOf(shm)[g]]
      /\ AdminsOf(shm) = [g \in Groups |-> AdminsOf(shm)[g]]
  BY DEF MembersOf, AdminsOf
<1>3. SUFFICES \A g \in Groups \ LiveGroups(shm') : Empty(g)
  BY DEF NoLeftovers, LiveGroups, MembersOf, AdminsOf
<1>4. CASE M!Refused \/ M!Restart
  BY <1>1, <1>4 DEF M!Refused, M!Restart, M!vars
<1>5. ASSUME NEW u \in Names, M!Connect(u) \/ M!Disconnect(u)
      PROVE  \A g \in Groups \ LiveGroups(shm') : Empty(g)
  BY <1>1, <1>5 DEF M!Connect, M!Disconnect
<1>6. ASSUME NEW u \in Names, NEW h \in Groups,
             M!Found(u, h) \/ M!Join(u, h) \/ M!Leave(u, h)
      PROVE  \A g \in Groups \ LiveGroups(shm') : Empty(g)
  BY <1>1, <1>2, <1>6 DEF M!Found, M!Join, M!Leave, M!Founded
<1>7. ASSUME NEW u \in Names, NEW h \in Groups, NEW v \in Names,
             M!Kick(u, h, v) \/ M!Promote(u, h, v) \/ M!Demote(u, h, v)
      PROVE  \A g \in Groups \ LiveGroups(shm') : Empty(g)
  BY <1>1, <1>2, <1>7 DEF M!Kick, M!Promote, M!Demote
<1>8. ASSUME NEW u \in Names, NEW h \in Groups, NEW k \in Groups,
             M!Merge(u, h, k)
      PROVE  \A g \in Groups \ LiveGroups(shm') : Empty(g)
  BY <1>1, <1>2, <1>8 DEF M!Merge
<1> QED
  BY <1>4, <1>5, <1>6, <1>7, <1>8 DEF M!Next

\* The invariant that the refinement rests on.
TablesInv == ServerInv /\ TableInv(shm)

\* The tables of the first start satisfy it.
LEMMA InitTables == Init => TablesInv
<1> SUFFICES ASSUME Init PROVE TablesInv
  OBVIOUS
<1>1. ServerInv /\ MemoryInv(shm)
  BY InitInv DEF ServerInv
<1>2. UserSlots(shm) = {} /\ GroupSlotsUsed(shm) = {}
  BY DEF Init, EmptyMemory, NoUser, NoGroupSlot, UserSlots, GroupSlotsUsed
<1>3. Bounded(shm)
  BY <1>2, FS_EmptySet, LimitsAssumption DEF Bounded
<1>4. NoLeftovers(shm)
  BY DEF Init, EmptyMemory, NoGroupSlot, NoLeftovers
<1> QED
  BY <1>1, <1>3, <1>4 DEF TablesInv, TableInv

\* One step of the server is one step of Membership, and keeps the invariant.
LEMMA StepMaps ==
  ASSUME TablesInv, [Next]_serverVars
  PROVE  TablesInv' /\ [M!Next]_M!vars
<1>1. ServerInv /\ TableInv(shm) /\ MemoryInv(shm) /\ Bounded(shm) /\ NoLeftovers(shm)
  BY DEF TablesInv, TableInv
<1>2. ServerInv' /\ MemoryInv(shm')
  BY <1>1, StepInv DEF ServerInv
<1>3. CASE Restart
  <2>1. M!Next
    BY <1>1, <1>3, RestartMaps
  <2>2. Bounded(shm')
    <3>1. /\ shm'.groups = shm.groups
          /\ \A v \in Names : shm'.users[v].state # "absent" =>
                               shm.users[v].state # "absent"
      BY <1>1, <1>3, SMT
      DEF Restart, Deactivated, MemoryInv, SharedMemory, Users
    <3> QED
      BY <1>1, <3>1, SameSlotsBounded DEF UserSlots, GroupSlotsUsed
  <2> QED
    BY <1>1, <1>2, <2>1, <2>2, NoLeftoversStep DEF TablesInv, TableInv
<1>4. ASSUME NEW m \in Requests, HandleClientMessage(m)
      PROVE  TablesInv' /\ [M!Next]_M!vars
  <2>1. M!Next
    BY <1>1, <1>4, JoinMaps, MergeMaps, KickMaps, AdminMaps, OtherMaps
    DEF HandleClientMessage
  <2>2. Bounded(shm')
    BY <1>1, <1>4, BoundedStep
  <2> QED
    BY <1>1, <1>2, <2>1, <2>2, NoLeftoversStep DEF TablesInv, TableInv
<1>5. CASE UNCHANGED serverVars
  <2>1. shm' = shm
    BY <1>5 DEF serverVars
  <2>2. Bounded(shm') /\ NoLeftovers(shm')
    BY <1>1, <2>1
  <2> QED
    BY <1>2, <2>1, <2>2, UnchangedIsRefused DEF TablesInv, TableInv
<1> QED
  BY <1>3, <1>4, <1>5 DEF Next, Receive

\* In every behaviour of the server, users connect, and groups are founded,
\* joined, left, governed and merged, as Membership says: whatever the limits,
\* no join or merge that the tables have no room for does anything else.
THEOREM ServerImplementsMembership == Spec => ImplementsMembership
<1>1. Init => M!Init
  BY DEF Init, M!Init, EmptyMemory, NoUser, NoGroupSlot, ConnectedUsers,
         LiveGroups, MembersOf, AdminsOf, UserFound, GroupFound
<1>2. Init => TablesInv
  BY InitTables
<1>3. TablesInv /\ [Next]_serverVars => TablesInv' /\ [M!Next]_M!vars
  BY StepMaps
<1> QED
  BY <1>1, <1>2, <1>3, PTL DEF Spec, ImplementsMembership, M!Spec

-----------------------------------------------------------------------------
(* Joins.                                                                  *)

\* JOIN: one of the three outcomes.
LEMMA JoinOutcome ==
  ASSUME TableInv(shm), NEW m \in Requests, Join(m)
  PROVE  JoinedOrFull(m.group, m.sender)
<1> DEFINE u == m.sender
           g == m.group
           registered == IF UserFound(shm, u) THEN shm
                         ELSE UserAdd(shm, u, m.from)
           prepared == IF GroupFound(registered, g) THEN registered
                       ELSE GroupCreate(registered, g, u)
<1>1. /\ u \in Names /\ m.from \in Addrs /\ g \in Groups
      /\ MemoryInv(shm) /\ Bounded(shm)
  BY RequestType DEF Join, TableInv
<1>2. /\ MemoryInv(registered) /\ Bounded(registered)
      /\ MemoryInv(prepared) /\ Bounded(prepared)
  BY <1>1, PreparedInv
<1>3. \/ UserFound(registered, u)
      \/ ~UserFound(shm, u) /\ ~CanAddUser(shm, u)
  <2>1. CASE ~UserFound(shm, u) /\ CanAddUser(shm, u)
    BY <1>1, <2>1, SMT DEF UserAdd, UserFound, MemoryInv, SharedMemory, Users
  <2> QED
    BY <2>1
<1>4. registered.groups = shm.groups
  BY DEF UserAdd
<1>5. \/ GroupFound(prepared, g)
      \/ ~GroupFound(registered, g) /\ ~CanCreateGroup(registered, g)
  <2>1. CASE ~GroupFound(registered, g) /\ CanCreateGroup(registered, g)
    <3>1. prepared = GroupCreate(registered, g, u)
      BY <2>1
    <3> HIDE DEF registered, prepared
    <3> QED
      BY <1>1, <1>2, <2>1, <3>1, SMT
      DEF GroupCreate, GroupFound, MemoryInv, SharedMemory, GroupSlots
  <2> QED
    BY <2>1
<1>6. prepared.users = registered.users
  BY DEF GroupCreate
<1>7. \/ CanJoinGroup(prepared, g, u) /\ shm' = GroupAddUser(prepared, g, u)
      \/ ~CanJoinGroup(prepared, g, u) /\ shm' = prepared
  BY DEF Join
<1> HIDE DEF registered, prepared
<1>8. CASE CanJoinGroup(prepared, g, u) /\ shm' = GroupAddUser(prepared, g, u)
  <2>1. IsMember(shm', g, u)
    BY <1>1, <1>2, <1>8, SMT
    DEF IsMember, GroupFound, CanJoinGroup, GroupAddUser, MemoryInv,
        SharedMemory, GroupSlots
  <2> QED
    BY <2>1 DEF JoinedOrFull
<1>9. CASE ~CanJoinGroup(prepared, g, u) /\ shm' = prepared
  <2>1. CASE ~UserFound(registered, u)
    <3>1. shm.users[u].state = "absent" /\ ~(Cardinality(UserSlots(shm)) < MaxClients)
      BY <1>1, <1>3, <2>1
      DEF CanAddUser, UserFound, MemoryInv, SharedMemory, Users, SlotStates
    <3>2. Cardinality(UserSlots(shm)) = MaxClients
      BY <1>1, <3>1, SlotsFinite, LimitsAssumption DEF Bounded
    <3> QED
      BY <3>1, <3>2 DEF JoinedOrFull
  <2>2. CASE ~GroupFound(prepared, g)
    <3>1. /\ shm.groups[g].state = "absent"
          /\ ~(Cardinality(GroupSlotsUsed(shm)) < MaxGroups)
      BY <1>1, <1>4, <1>5, <2>2
      DEF CanCreateGroup, GroupFound, GroupSlotsUsed, MemoryInv, SharedMemory,
          GroupSlots, SlotStates
    <3>2. Cardinality(GroupSlotsUsed(shm)) = MaxGroups
      BY <1>1, <3>1, SlotsFinite, LimitsAssumption DEF Bounded
    <3> QED
      BY <3>1, <3>2 DEF JoinedOrFull
  <2>3. CASE UserFound(registered, u) /\ GroupFound(prepared, g)
    <3>1. UserFound(prepared, u)
      BY <1>6, <2>3 DEF UserFound
    <3>2. u \in prepared.groups[g].users
      BY <1>1, <1>2, <1>9, <2>3, <3>1, GroupHasRoom
    <3> QED
      BY <1>9, <2>3, <3>2 DEF JoinedOrFull, IsMember
  <2> QED
    BY <2>1, <2>2, <2>3
<1> QED
  BY <1>7, <1>8, <1>9

\* A join fails for want of a slot only, whatever happened before.
THEOREM JoinsFailForWantOfSlots == Spec => JoinFailsForWantOfSlots
<1> DEFINE Outcome == msg'.type = "JOIN" => JoinedOrFull(msg'.group, msg'.sender)
<1>1. Init => TablesInv
  BY InitTables
<1>2. TablesInv /\ [Next]_serverVars => TablesInv'
  BY StepMaps
<1>3. TablesInv /\ [Next]_serverVars => [Outcome]_serverVars
  <2> SUFFICES ASSUME TablesInv, Next
               PROVE  Outcome
    OBVIOUS
  <2>1. CASE Restart
    BY <2>1 DEF Restart, NoRequest
  <2>2. ASSUME NEW m \in Requests, Receive(m), m.type = "JOIN"
        PROVE  Outcome
    <3>1. Join(m)
      BY <2>2
      DEF Receive, HandleClientMessage, Leave, Public, Private, ChangeColor,
          CreateGroup, MergeGroups, KickUser, PromoteAdmin, DemoteAdmin,
          Disconnect, Connect, ListUsers, ListGroups
    <3> QED
      BY <2>2, <3>1, JoinOutcome DEF TablesInv, Receive
  <2> QED
    BY <2>1, <2>2 DEF Next, Receive
<1> QED
  BY <1>1, <1>2, <1>3, PTL DEF Spec, JoinFailsForWantOfSlots
=============================================================================
