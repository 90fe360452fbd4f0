-------------------------- MODULE GovernanceProofs --------------------------
(***************************************************************************)
(* What one request may do to a group and to its members, and what it must *)
(* tell them: the action properties of Server, for every set of users and  *)
(* groups and every MAX_CLIENTS and MAX_GROUPS.                            *)
(***************************************************************************)
EXTENDS MembershipProofs

-----------------------------------------------------------------------------
(* Effects on one group.                                                   *)

\* Group g of memory s is the same in t, except for the membership of u.
SameBut(s, t, g, u) ==
    /\ t.groups[g].state = s.groups[g].state
    /\ t.groups[g].color = s.groups[g].color
    /\ t.groups[g].admins = s.groups[g].admins
    /\ t.groups[g].users \ {u} = s.groups[g].users \ {u}

\* Joining, leaving and disconnecting touch the membership of one user.
LEMMA MembershipOnly ==
  ASSUME NEW s, MemoryInv(s), NEW g \in Groups, NEW h \in Groups,
         NEW u \in Names
  PROVE  /\ SameBut(s, GroupAddUser(s, h, u), g, u)
         /\ SameBut(s, GroupRemoveUser(s, h, u), g, u)
         /\ SameBut(s, UserRemove(s, u), g, u)
<1>1. SameBut(s, GroupAddUser(s, h, u), g, u)
  BY SMT DEF MemoryInv, SharedMemory, GroupSlots, SameBut, GroupAddUser
<1>2. SameBut(s, GroupRemoveUser(s, h, u), g, u)
  BY SMT DEF MemoryInv, SharedMemory, GroupSlots, SameBut, GroupRemoveUser
<1>3. SameBut(s, UserRemove(s, u), g, u)
  BY SMT DEF MemoryInv, SharedMemory, GroupSlots, SameBut, UserRemove
<1> QED
  BY <1>1, <1>2, <1>3

\* What an administrator does to a group leaves every other group alone.
LEMMA OtherGroups ==
  ASSUME NEW s, MemoryInv(s), NEW h \in Groups, NEW g \in Groups \ {h},
         NEW u \in Names
  PROVE  /\ GroupCreate(s, h, u).groups[g] = s.groups[g]
         /\ GroupAddAdmin(s, h, u).groups[g] = s.groups[g]
         /\ GroupRemoveAdmin(s, h, u).groups[g] = s.groups[g]
         /\ GroupRemoveUser(s, h, u).groups[g] = s.groups[g]
         /\ GroupKickUser(s, h, u).groups[g] = s.groups[g]
<1>1. s.groups \in [Groups -> GroupSlots]
  BY DEF MemoryInv, SharedMemory
<1>2. GroupCreate(s, h, u).groups[g] = s.groups[g]
  BY <1>1 DEF GroupCreate
<1>3. /\ GroupAddAdmin(s, h, u).groups[g] = s.groups[g]
      /\ GroupRemoveAdmin(s, h, u).groups[g] = s.groups[g]
  BY <1>1 DEF GroupAddAdmin, GroupRemoveAdmin
<1>4. \A t : MemoryInv(t) =>
        GroupRemoveUser(t, h, u).groups[g] = t.groups[g]
  BY SMT DEF MemoryInv, SharedMemory, GroupSlots, GroupRemoveUser
<1>5. MemoryInv(GroupRemoveAdmin(s, h, u))
  BY GroupAdminInv
<1> QED
  BY <1>2, <1>3, <1>4, <1>5 DEF GroupKickUser

\* group_merge leaves every third group alone.
LEMMA MergeOthers ==
  ASSUME NEW s, MemoryInv(s), NEW g1 \in Groups, NEW g2 \in Groups,
         NEW g \in Groups \ {g1, g2}, NEW t \in GroupMerge(s, g1, g2)
  PROVE  t.groups[g] = s.groups[g]
<1>1. PICK users, admins : t = MergedWith(s, g1, g2, users, admins)
  BY DEF GroupMerge
<1>2. s.groups \in [Groups -> GroupSlots]
  BY DEF MemoryInv, SharedMemory
<1> QED
  BY <1>1, <1>2 DEF MergedWith

\* A join leaves a group that exists as it is, but for its new member, who is
\* the sender; a group without slot or life may be founded.
LEMMA JoinTouches ==
  ASSUME MemoryInv(shm), NEW m \in Requests, Join(m), NEW g \in Groups,
         GroupFound(shm, g)
  PROVE  /\ SameBut(shm, shm', g, m.sender)
         /\ shm.groups[g].users \subseteq shm'.groups[g].users
<1> DEFINE u == m.sender
           h == m.group
           registered == IF UserFound(shm, u) THEN shm
                         ELSE UserAdd(shm, u, m.from)
           prepared == IF GroupFound(registered, h) THEN registered
                       ELSE GroupCreate(registered, h, u)
<1>1. u \in Names /\ m.from \in Addrs /\ h \in Groups
  BY RequestType DEF Join
<1>2. MemoryInv(registered)
  BY <1>1, UserAddInv
<1>3. MemoryInv(prepared)
  BY <1>1, <1>2, GroupCreateInv
<1>4. registered.groups = shm.groups
  BY DEF UserAdd
<1>5. prepared.groups[g] = shm.groups[g]
  <2>1. CASE GroupFound(registered, h)
    BY <1>4, <2>1
  <2>2. CASE ~GroupFound(registered, h)
    <3>1. g # h
      BY <1>4, <2>2 DEF GroupFound
    <3> QED
      BY <1>1, <1>2, <1>4, <2>2, <3>1, OtherGroups
  <2> QED
    BY <2>1, <2>2
<1>6. shm' = GroupAddUser(prepared, h, u) \/ shm' = prepared
  BY DEF Join
<1> HIDE DEF registered, prepared
<1>7. SameBut(prepared, shm', g, u)
  BY <1>1, <1>3, <1>6, MembershipOnly DEF SameBut
<1>8. prepared.groups[g].users \subseteq shm'.groups[g].users
  BY <1>1, <1>3, <1>6, SMT
  DEF MemoryInv, SharedMemory, GroupSlots, GroupAddUser
<1> QED
  BY <1>5, <1>7, <1>8 DEF SameBut

-----------------------------------------------------------------------------
(* Only administrators govern.                                             *)

\* The outcomes of request m for group g that OnlyAdminsGovern allows.
Legitimate(m, g) ==
    \/ IsAdmin(shm, g, m.sender)
    \/ /\ m.type = "MERGE_GROUPS" /\ m.arg[2] = g
       /\ IsAdmin(shm, m.arg[1], m.sender)
    \/ GroupFound(shm', g) /\ SameBut(shm, shm', g, m.sender)

\* Refusals and queries change nothing.
LEMMA UnchangedIsLegitimate ==
  ASSUME NEW m, NEW g \in Groups, GroupFound(shm, g), shm' = shm
  PROVE  Legitimate(m, g)
  BY DEF Legitimate, SameBut, GroupFound

\* So is every outcome of every request.
LEMMA LegitimateStep ==
  ASSUME MemoryInv(shm), NEW m \in Requests, HandleClientMessage(m),
         NEW g \in Groups, GroupFound(shm, g)
  PROVE  Legitimate(m, g)
<1>1. m.sender \in Names /\ m.from \in Addrs
  BY RequestType
<1>2. ASSUME SameBut(shm, shm', g, m.sender)
      PROVE  Legitimate(m, g)
  BY <1>2 DEF Legitimate, SameBut, GroupFound
<1>3. CASE Join(m)
  BY <1>2, <1>3, JoinTouches
<1>4. CASE Leave(m)
  BY <1>1, <1>2, <1>4, RequestType, MembershipOnly DEF Leave
<1>5. CASE Disconnect(m)
  BY <1>1, <1>2, <1>5, MembershipOnly DEF Disconnect
<1>6. CASE ChangeColor(m)
  <2>1. CASE /\ IsAdmin(shm, m.group, m.sender) /\ g # m.group
             /\ shm' = [users  |-> shm.users,
                        groups |-> [shm.groups EXCEPT ![m.group].color = m.arg]]
    <3>1. shm'.groups[g] = shm.groups[g]
      BY <2>1 DEF MemoryInv, SharedMemory
    <3> QED
      BY <1>2, <3>1 DEF SameBut
  <2> QED
    BY <1>6, <2>1, UnchangedIsLegitimate
    DEF ChangeColor, Refuse, Ignore, Legitimate
<1>7. CASE CreateGroup(m)
  <2>1. m.arg \in Groups
    BY <1>7, RequestType DEF CreateGroup
  <2>2. CASE CanCreateGroup(shm, m.arg) /\ shm' = GroupCreate(shm, m.arg, m.sender)
    <3>1. g # m.arg
      BY <2>2 DEF CanCreateGroup, GroupFound
    <3>2. shm'.groups[g] = shm.groups[g]
      BY <1>1, <2>1, <2>2, <3>1, OtherGroups
    <3> QED
      BY <1>2, <3>2 DEF SameBut
  <2> QED
    BY <1>7, <2>2, UnchangedIsLegitimate DEF CreateGroup, Ignore
<1>8. CASE MergeGroups(m)
  <2>1. m.arg[1] \in Groups /\ m.arg[2] \in Groups /\ m.type = "MERGE_GROUPS"
    BY <1>8, RequestType DEF MergeGroups
  <2>2. CASE /\ IsAdmin(shm, m.arg[1], m.sender)
             /\ shm' \in GroupMerge(shm, m.arg[1], m.arg[2])
    <3>1. CASE g # m.arg[1] /\ g # m.arg[2]
      <4>1. shm'.groups[g] = shm.groups[g]
        BY <2>1, <2>2, <3>1, MergeOthers
      <4> QED
        BY <1>2, <4>1 DEF SameBut
    <3>2. CASE g = m.arg[1] \/ g = m.arg[2]
      BY <2>1, <2>2, <3>2 DEF Legitimate
    <3> QED
      BY <3>1, <3>2
  <2> QED
    BY <1>8, <2>2, UnchangedIsLegitimate DEF MergeGroups, Refuse, Ignore
<1>9. CASE KickUser(m) \/ PromoteAdmin(m) \/ DemoteAdmin(m)
  <2>1. m.group \in Groups /\ m.arg \in Names
    BY <1>9, RequestType DEF KickUser, PromoteAdmin, DemoteAdmin
  <2>2. \/ shm' = shm
        \/ /\ IsAdmin(shm, m.group, m.sender)
           /\ \/ shm' = GroupKickUser(shm, m.group, m.arg)
              \/ shm' = GroupAddAdmin(shm, m.group, m.arg)
              \/ shm' = GroupRemoveAdmin(shm, m.group, m.arg)
    BY <1>9 DEF KickUser, PromoteAdmin, DemoteAdmin, Refuse, Ignore
  <2>3. CASE g # m.group /\ shm' # shm
    <3>1. shm'.groups[g] = shm.groups[g]
      BY <2>1, <2>2, <2>3, OtherGroups
    <3> QED
      BY <1>2, <3>1 DEF SameBut
  <2> QED
    BY <2>2, <2>3, UnchangedIsLegitimate DEF Legitimate
<1>10. CASE Connect(m)
  <2>1. shm'.groups = shm.groups
    BY <1>10 DEF Connect, UserAdd
  <2> QED
    BY <1>2, <2>1 DEF SameBut
<1>11. CASE Public(m) \/ Private(m) \/ ListUsers(m) \/ ListGroups(m)
  BY <1>11, UnchangedIsLegitimate
  DEF Public, Private, ListUsers, ListGroups, Refuse
<1> QED
  BY <1>3, <1>4, <1>5, <1>6, <1>7, <1>8, <1>9, <1>10, <1>11
  DEF HandleClientMessage

\* A group that exists is governed by its administrators, or by one of the
\* group it is merged into: no sequence of requests and restarts lets
\* somebody else change more of it than its own membership.
THEOREM OnlyAdminsEverGovern == Spec => OnlyAdminsGovern
<1> DEFINE Governed ==
      \A g \in Groups : GroupFound(shm, g) =>
         \/ IsAdmin(shm, g, msg'.sender)
         \/ /\ msg'.type = "MERGE_GROUPS" /\ msg'.arg[2] = g
            /\ IsAdmin(shm, msg'.arg[1], msg'.sender)
         \/ /\ GroupFound(shm', g)
            /\ shm'.groups[g].color = shm.groups[g].color
            /\ shm'.groups[g].admins = shm.groups[g].admins
            /\ shm'.groups[g].users \ {msg'.sender} =
                 shm.groups[g].users \ {msg'.sender}
<1>1. ServerInv /\ [Next]_serverVars => [Governed]_serverVars
  <2> SUFFICES ASSUME ServerInv, Next
               PROVE  Governed
    OBVIOUS
  <2>1. CASE Restart
    <3>1. shm'.groups = shm.groups
      BY <2>1 DEF Restart, Deactivated
    <3> QED
      BY <3>1 DEF GroupFound
  <2>2. ASSUME NEW m \in Requests, Receive(m)
        PROVE  Governed
    BY <2>2, LegitimateStep DEF ServerInv, Receive, Legitimate, SameBut
  <2> QED
    BY <2>1, <2>2 DEF Next
<1> QED
  BY <1>1, InvAlways, PTL DEF Spec, OnlyAdminsGovern

-----------------------------------------------------------------------------
(* Administrators come from the members.                                   *)

\* Where a right of g that u has after a step, and not before, comes from.
Earned(g, u) ==
    \/ IsMember(shm, g, u)
    \/ \E h \in Groups : IsAdmin(shm, h, u) /\ ~GroupFound(shm', h)

\* group_merge gives the administrators of the second group, which is gone.
LEMMA MergeEarned ==
  ASSUME MemoryInv(shm), NEW g1 \in Groups, NEW g2 \in Groups,
         CanMerge(shm, g1, g2), shm' \in GroupMerge(shm, g1, g2),
         NEW g \in Groups, NEW u \in shm'.groups[g].admins \ shm.groups[g].admins
  PROVE  Earned(g, u)
<1>1. PICK users  \in Fitting(shm.groups[g1].users, shm.groups[g2].users),
           admins \in Fitting(shm.groups[g1].admins, shm.groups[g2].admins) :
        shm' = MergedWith(shm, g1, g2, users, admins)
  BY DEF GroupMerge
<1>2. admins \subseteq shm.groups[g2].admins
  BY FittingSubset
<1>3. shm.groups \in [Groups -> GroupSlots]
  BY DEF MemoryInv, SharedMemory
<1>4. g1 # g2 /\ GroupFound(shm, g2)
  BY DEF CanMerge
<1>5. shm'.groups[g2].admins = {} /\ shm'.groups[g2].state = "inactive"
  BY <1>1, <1>3 DEF MergedWith
<1>6. g = g1
  BY <1>5, MergeOthers
<1>7. shm'.groups[g1].admins = shm.groups[g1].admins \cup admins
  BY <1>1, <1>3, <1>4 DEF MergedWith
<1>8. IsAdmin(shm, g2, u) /\ ~GroupFound(shm', g2)
  BY <1>2, <1>4, <1>5, <1>6, <1>7 DEF IsAdmin, GroupFound
<1> QED
  BY <1>8 DEF Earned

\* group_add_admin adds one administrator, the other operations none.
LEMMA AdminsAfter ==
  ASSUME NEW s, MemoryInv(s), NEW g \in Groups, NEW u \in Names
  PROVE  /\ GroupAddAdmin(s, g, u).groups[g].admins = s.groups[g].admins \cup {u}
         /\ GroupRemoveAdmin(s, g, u).groups[g].admins \subseteq s.groups[g].admins
         /\ GroupKickUser(s, g, u).groups[g].admins \subseteq s.groups[g].admins
<1>1. s.groups \in [Groups -> GroupSlots]
  BY DEF MemoryInv, SharedMemory
<1>2. /\ GroupAddAdmin(s, g, u).groups[g].admins = s.groups[g].admins \cup {u}
      /\ GroupRemoveAdmin(s, g, u).groups[g].admins = s.groups[g].admins \ {u}
  BY <1>1 DEF GroupAddAdmin, GroupRemoveAdmin
<1>3. SameBut(GroupRemoveAdmin(s, g, u), GroupKickUser(s, g, u), g, u)
  BY GroupAdminInv, MembershipOnly DEF GroupKickUser
<1> QED
  BY <1>2, <1>3 DEF SameBut

\* Every request.
LEMMA EarnedStep ==
  ASSUME MemoryInv(shm), NEW m \in Requests, HandleClientMessage(m),
         NEW g \in Groups, GroupFound(shm, g),
         NEW u \in shm'.groups[g].admins \ shm.groups[g].admins
  PROVE  Earned(g, u)
<1>1. m.sender \in Names /\ m.from \in Addrs
  BY RequestType
<1>2. ~SameBut(shm, shm', g, m.sender)
  BY DEF SameBut
<1>3. CASE Join(m) \/ Leave(m) \/ Disconnect(m)
  BY <1>1, <1>2, <1>3, RequestType, JoinTouches, MembershipOnly
  DEF Leave, Disconnect
<1>4. CASE ChangeColor(m)
  <2>1. shm'.groups[g].admins = shm.groups[g].admins
    BY <1>4 DEF ChangeColor, Refuse, Ignore, MemoryInv, SharedMemory, GroupSlots
  <2> QED
    BY <2>1
<1>5. CASE CreateGroup(m)
  <2>1. m.arg \in Groups
    BY <1>5, RequestType DEF CreateGroup
  <2>2. shm'.groups[g] = shm.groups[g]
    BY <1>1, <1>5, <2>1, OtherGroups
    DEF CreateGroup, Ignore, CanCreateGroup, GroupFound
  <2> QED
    BY <2>2
<1>6. CASE MergeGroups(m)
  <2>1. m.arg[1] \in Groups /\ m.arg[2] \in Groups
    BY <1>6, RequestType DEF MergeGroups
  <2> QED
    BY <1>6, <2>1, MergeEarned DEF MergeGroups, Refuse, Ignore
<1>7. CASE KickUser(m) \/ PromoteAdmin(m) \/ DemoteAdmin(m)
  <2>1. m.group \in Groups /\ m.arg \in Names
    BY <1>7, RequestType DEF KickUser, PromoteAdmin, DemoteAdmin
  <2>2. \/ shm' = GroupKickUser(shm, m.group, m.arg)
        \/ shm' = GroupRemoveAdmin(shm, m.group, m.arg)
        \/ /\ shm' = GroupAddAdmin(shm, m.group, m.arg)
           /\ CanAddAdmin(shm, m.group, m.arg)
    BY <1>7 DEF KickUser, PromoteAdmin, DemoteAdmin, Refuse, Ignore
  <2>3. g = m.group
    <3>1. ASSUME g # m.group PROVE shm'.groups[g] = shm.groups[g]
      BY <2>1, <2>2, <3>1, OtherGroups
    <3> QED
      BY <3>1
  <2>4. u = m.arg /\ CanAddAdmin(shm, m.group, m.arg)
    BY <2>1, <2>2, <2>3, AdminsAfter
  <2> QED
    BY <2>3, <2>4 DEF CanAddAdmin, Earned
<1>8. CASE Connect(m)
  BY <1>8 DEF Connect, UserAdd
<1>9. CASE Public(m) \/ Private(m) \/ ListUsers(m) \/ ListGroups(m)
  BY <1>9 DEF Public, Private, ListUsers, ListGroups, Refuse
<1> QED
  BY <1>3, <1>4, <1>5, <1>6, <1>7, <1>8, <1>9 DEF HandleClientMessage

\* In a group that existed before, nobody becomes an administrator without
\* having been a member of it, or an administrator of a group merged into it.
THEOREM NewAdminsAreMembers == Spec => NewAdminsWereMembers
<1> DEFINE AllEarned ==
      \A g \in Groups : \A u \in shm'.groups[g].admins \ shm.groups[g].admins :
         GroupFound(shm, g) =>
            \/ IsMember(shm, g, u)
            \/ \E h \in Groups : IsAdmin(shm, h, u) /\ ~GroupFound(shm', h)
<1>1. ServerInv /\ [Next]_serverVars => [AllEarned]_serverVars
  <2> SUFFICES ASSUME ServerInv, Next
               PROVE  AllEarned
    OBVIOUS
  <2>1. CASE Restart
    <3>1. shm'.groups = shm.groups
      BY <2>1 DEF Restart, Deactivated
    <3> QED
      BY <3>1
  <2>2. ASSUME NEW m \in Requests, Receive(m)
        PROVE  AllEarned
    BY <2>2, EarnedStep DEF ServerInv, Receive, Earned
  <2> QED
    BY <2>1, <2>2 DEF Next
<1> QED
  BY <1>1, InvAlways, PTL DEF Spec, NewAdminsWereMembers
=============================================================================
