---------------------------- MODULE ServerProofs ----------------------------
(***************************************************************************)
(* Theorems about Server, for every set of users, groups and processes and *)
(* every MAX_CLIENTS and MAX_GROUPS.                                       *)
(***************************************************************************)
EXTENDS Server, TLAPS

-----------------------------------------------------------------------------
(* The invariant of the shared memory, which every operation of user.c and *)
(* group.c keeps.                                                          *)

ConnectedUsersHaveAddr(s) ==
    \A u \in Names : UserFound(s, u) => s.users[u].addr \in Addrs

MembersIn(s) ==
    \A g \in Groups : s.groups[g].users \subseteq UserSlots(s)

MemoryInv(s) ==
    /\ s \in SharedMemory
    /\ ConnectedUsersHaveAddr(s)
    /\ MembersIn(s)

\* The memory of the first start satisfies it.
LEMMA EmptyMemoryInv == MemoryInv(EmptyMemory)
  BY ColorsAssumption, SMT
  DEF MemoryInv, SharedMemory, Users, GroupSlots, SlotStates, EmptyMemory,
      NoUser, NoGroupSlot, ConnectedUsersHaveAddr, MembersIn, UserFound,
      UserSlots

\* user_add: a slot is filled or activated, with the address given.
LEMMA UserAddInv ==
  ASSUME NEW s, MemoryInv(s), NEW u \in Names, NEW a \in Addrs
  PROVE  MemoryInv(UserAdd(s, u, a))
  BY SMT
  DEF MemoryInv, SharedMemory, Users, GroupSlots, SlotStates, UserAdd,
      ConnectedUsersHaveAddr, MembersIn, UserFound, UserSlots

\* user_remove: the slot stays, inactive, and the groups only shrink.
LEMMA UserRemoveInv ==
  ASSUME NEW s, MemoryInv(s), NEW u \in Names
  PROVE  MemoryInv(UserRemove(s, u))
  BY SMT
  DEF MemoryInv, SharedMemory, Users, GroupSlots, SlotStates, UserRemove,
      ConnectedUsersHaveAddr, MembersIn, UserFound, UserSlots

\* group_create: a group without members.
LEMMA GroupCreateInv ==
  ASSUME NEW s, MemoryInv(s), NEW g \in Groups, NEW u \in Names
  PROVE  MemoryInv(GroupCreate(s, g, u))
  BY ColorsAssumption, SMT
  DEF MemoryInv, SharedMemory, Users, GroupSlots, SlotStates, GroupCreate,
      ConnectedUsersHaveAddr, MembersIn, UserFound, UserSlots

\* group_add_user: the new member is active, hence has a slot.
LEMMA GroupAddUserInv ==
  ASSUME NEW s, MemoryInv(s), NEW g \in Groups, NEW u \in Names,
         CanJoinGroup(s, g, u)
  PROVE  MemoryInv(GroupAddUser(s, g, u))
  BY SMT
  DEF MemoryInv, SharedMemory, Users, GroupSlots, SlotStates, GroupAddUser,
      CanJoinGroup, ConnectedUsersHaveAddr, MembersIn, UserFound, UserSlots

\* A user who could be added is a member.
LEMMA AddedIsMember ==
  ASSUME NEW s, MemoryInv(s), NEW g \in Groups, NEW u \in Names,
         CanJoinGroup(s, g, u)
  PROVE  IsMember(GroupAddUser(s, g, u), g, u)
  BY SMT
  DEF MemoryInv, SharedMemory, GroupSlots, CanJoinGroup, GroupAddUser,
      IsMember, GroupFound

\* group_remove_user: groups only shrink.
LEMMA GroupRemoveUserInv ==
  ASSUME NEW s, MemoryInv(s), NEW g \in Groups, NEW u \in Names
  PROVE  MemoryInv(GroupRemoveUser(s, g, u))
  BY SMT
  DEF MemoryInv, SharedMemory, Users, GroupSlots, SlotStates, GroupRemoveUser,
      ConnectedUsersHaveAddr, MembersIn, UserFound, UserSlots

\* What a list still takes comes from the names to add.
LEMMA FittingSubset ==
  ASSUME NEW list, NEW extra, NEW T \in Fitting(list, extra)
  PROVE  T \subseteq extra
  BY SMT DEF Fitting

\* group_merge: the members that move had slots in the group they leave.
LEMMA GroupMergeInv ==
  ASSUME NEW s, MemoryInv(s), NEW g1 \in Groups, NEW g2 \in Groups,
         NEW t \in GroupMerge(s, g1, g2)
  PROVE  MemoryInv(t)
<1>1. PICK users  \in Fitting(s.groups[g1].users, s.groups[g2].users),
           admins \in Fitting(s.groups[g1].admins, s.groups[g2].admins) :
        t = MergedWith(s, g1, g2, users, admins)
  BY DEF GroupMerge
<1>2. users \subseteq s.groups[g2].users /\ admins \subseteq s.groups[g2].admins
  BY FittingSubset
<1>3. t \in SharedMemory
  <2>1. t.users \in [Names -> Users]
    BY <1>1, SMT DEF MemoryInv, SharedMemory, Users, MergedWith
  <2>2. \A g \in Groups : t.groups[g] \in GroupSlots
    BY <1>1, <1>2, SMT
    DEF MemoryInv, SharedMemory, GroupSlots, SlotStates, MergedWith
  <2>3. t.groups \in [Groups -> GroupSlots]
    <3>1. s.groups \in [Groups -> GroupSlots]
      BY DEF MemoryInv, SharedMemory
    <3>2. t.groups = [g \in Groups |-> t.groups[g]]
      BY <1>1, <3>1 DEF MergedWith
    <3> QED
      BY <2>2, <3>2
  <2>4. t = [users |-> t.users, groups |-> t.groups]
    BY <1>1 DEF MergedWith
  <2> QED
    BY <2>1, <2>3, <2>4 DEF SharedMemory
<1>4. \A u \in Names : /\ t.users[u].state = s.users[u].state
                       /\ t.users[u].addr = s.users[u].addr
  BY <1>1, SMT DEF MemoryInv, SharedMemory, Users, MergedWith
<1>5. \A g \in Groups : t.groups[g].users \subseteq
                           s.groups[g].users \cup s.groups[g2].users
  BY <1>1, <1>2, SMT DEF MemoryInv, SharedMemory, GroupSlots, MergedWith
<1> QED
  BY <1>3, <1>4, <1>5
  DEF MemoryInv, ConnectedUsersHaveAddr, MembersIn, UserFound, UserSlots

\* group_add_admin and group_remove_admin touch the administrators only.
LEMMA GroupAdminInv ==
  ASSUME NEW s, MemoryInv(s), NEW g \in Groups, NEW u \in Names
  PROVE  /\ MemoryInv(GroupAddAdmin(s, g, u))
         /\ MemoryInv(GroupRemoveAdmin(s, g, u))
  BY SMT
  DEF MemoryInv, SharedMemory, Users, GroupSlots, SlotStates, GroupAddAdmin,
      GroupRemoveAdmin, ConnectedUsersHaveAddr, MembersIn, UserFound, UserSlots

\* group_kick_user: the two removals one after the other.
LEMMA GroupKickUserInv ==
  ASSUME NEW s, MemoryInv(s), NEW g \in Groups, NEW u \in Names
  PROVE  MemoryInv(GroupKickUser(s, g, u))
  BY GroupAdminInv, GroupRemoveUserInv DEF GroupKickUser

\* The start of a server on existing memory.
LEMMA DeactivatedInv ==
  ASSUME NEW s, MemoryInv(s)
  PROVE  MemoryInv(Deactivated(s))
  BY SMT
  DEF MemoryInv, SharedMemory, Users, GroupSlots, SlotStates, Deactivated,
      ConnectedUsersHaveAddr, MembersIn, UserFound, UserSlots

-----------------------------------------------------------------------------
(* Requests and datagrams.                                                 *)

\* What the fields of a request hold, by its type.
LEMMA RequestType ==
  ASSUME NEW m \in Requests
  PROVE  /\ m.from \in Addrs
         /\ m.sender \in Names
         /\ m.type \in {"JOIN", "LEAVE", "PUBLIC", "CHANGE_COLOR", "KICK_USER",
                       "PROMOTE_ADMIN", "DEMOTE_ADMIN"} => m.group \in Groups
         /\ m.type \in {"PRIVATE", "KICK_USER", "PROMOTE_ADMIN",
                       "DEMOTE_ADMIN"} => m.arg \in Names
         /\ m.type = "CHANGE_COLOR" => m.arg \in Colors
         /\ m.type = "CREATE_GROUP" => m.arg \in Groups
         /\ m.type = "MERGE_GROUPS" =>
              m.arg[1] \in Groups /\ m.arg[2] \in Groups
  BY AddrsAssumption, SMT DEF Requests, Request

Deliverable(datagrams) ==
    \A d \in datagrams : d.to \in Addrs /\ d.type \in DatagramTypes

\* The server sends to connected users, whose slots hold an address.
LEMMA SendToDeliverable ==
  ASSUME NEW s, MemoryInv(s), NEW users \in SUBSET Names,
         NEW type \in DatagramTypes, NEW sender, NEW g, NEW content
  PROVE  Deliverable(SendTo(s, users, type, sender, g, content))
  BY DEF MemoryInv, ConnectedUsersHaveAddr, Deliverable, SendTo, Datagram

\* Members of a group are user names.
LEMMA SendToGroupDeliverable ==
  ASSUME NEW s, MemoryInv(s), NEW type \in DatagramTypes, NEW sender, NEW g,
         NEW content
  PROVE  Deliverable(SendToGroup(s, type, sender, g, content))
<1>1. CASE GroupFound(s, g)
  <2>1. s.groups[g].users \ {sender} \in SUBSET Names
    BY <1>1 DEF MemoryInv, SharedMemory, GroupSlots, GroupFound
  <2> QED
    BY <1>1, <2>1, SendToDeliverable DEF SendToGroup
<1>2. CASE ~GroupFound(s, g)
  BY <1>2 DEF SendToGroup, Deliverable
<1> QED
  BY <1>1, <1>2

\* Notices and announcements are "PUBLIC" messages.
LEMMA NoticesDeliverable ==
  ASSUME NEW s, MemoryInv(s), NEW u \in Names, NEW g
  PROVE  Deliverable(Tell(s, u)) /\ Deliverable(Announce(s, g))
<1>1. "PUBLIC" \in DatagramTypes
  BY DEF DatagramTypes
<1> QED
  BY <1>1, SendToDeliverable, SendToGroupDeliverable DEF Tell, Announce

-----------------------------------------------------------------------------
(* The requests that change the shared memory, one by one.                 *)

\* Refusals leave the memory alone and tell the sender.
LEMMA RefuseStep ==
  ASSUME MemoryInv(shm), NEW m \in Requests, Refuse(m) \/ Ignore
  PROVE  MemoryInv(shm') /\ Deliverable(sent')
  BY RequestType, NoticesDeliverable DEF Refuse, Ignore, Deliverable

\* The sender is registered, the group is created, the sender becomes a member.
LEMMA JoinStep ==
  ASSUME MemoryInv(shm), NEW m \in Requests, Join(m)
  PROVE  MemoryInv(shm') /\ Deliverable(sent')
<1> DEFINE registered == IF UserFound(shm, m.sender) THEN shm
                         ELSE UserAdd(shm, m.sender, m.from)
           prepared == IF GroupFound(registered, m.group) THEN registered
                       ELSE GroupCreate(registered, m.group, m.sender)
<1>1. m.from \in Addrs /\ m.sender \in Names /\ m.group \in Groups
  BY RequestType DEF Join
<1>2. "JOIN" \in DatagramTypes /\ "PUBLIC" \in DatagramTypes
  BY DEF DatagramTypes
<1>3. MemoryInv(registered)
  BY <1>1, UserAddInv
<1>4. MemoryInv(prepared)
  BY <1>1, <1>3, GroupCreateInv
<1>5. {m.sender} \in SUBSET Names
  BY <1>1
<1>6. CASE /\ CanJoinGroup(prepared, m.group, m.sender)
           /\ shm' = GroupAddUser(prepared, m.group, m.sender)
           /\ sent' = SendToGroup(shm', "JOIN", m.sender, m.group, Nothing)
                      \cup SendTo(shm', {m.sender}, "JOIN", m.sender,
                                  m.group, shm'.groups[m.group].color)
  <2>1. MemoryInv(shm')
    BY <1>1, <1>4, <1>6, GroupAddUserInv
  <2>2. Deliverable(SendToGroup(shm', "JOIN", m.sender, m.group, Nothing))
    BY <1>2, <2>1, SendToGroupDeliverable
  <2>3. Deliverable(SendTo(shm', {m.sender}, "JOIN", m.sender, m.group,
                           shm'.groups[m.group].color))
    BY <1>2, <1>5, <2>1, SendToDeliverable
  <2> QED
    BY <1>6, <2>1, <2>2, <2>3 DEF Deliverable
<1>7. CASE /\ shm' = prepared
           /\ sent' = SendTo(prepared, {m.sender}, "PUBLIC", Serveur, NoGroup,
                             m.group)
  BY <1>2, <1>4, <1>5, <1>7, SendToDeliverable
<1> QED
  BY <1>6, <1>7 DEF Join

\* The group shrinks; the rest of it hears of it.
LEMMA LeaveStep ==
  ASSUME MemoryInv(shm), NEW m \in Requests, Leave(m)
  PROVE  MemoryInv(shm') /\ Deliverable(sent')
<1>1. m.sender \in Names /\ m.group \in Groups /\ "LEAVE" \in DatagramTypes
  BY RequestType DEF Leave, DatagramTypes
<1>2. MemoryInv(shm')
  BY <1>1, GroupRemoveUserInv DEF Leave
<1> QED
  BY <1>1, <1>2, SendToGroupDeliverable DEF Leave

\* Only the colour of one group changes.
LEMMA ChangeColorStep ==
  ASSUME MemoryInv(shm), NEW m \in Requests, ChangeColor(m)
  PROVE  MemoryInv(shm') /\ Deliverable(sent')
<1>1. CASE /\ shm' = [users  |-> shm.users,
                      groups |-> [shm.groups EXCEPT ![m.group].color = m.arg]]
           /\ sent' = SendTo(shm, shm.groups[m.group].users, "CHANGE_COLOR",
                             m.sender, m.group, m.arg)
  <2>1. m.group \in Groups /\ m.arg \in Colors
    BY RequestType DEF ChangeColor
  <2>2. MemoryInv(shm')
    BY <1>1, <2>1, SMT
    DEF MemoryInv, SharedMemory, Users, GroupSlots, ConnectedUsersHaveAddr,
        MembersIn, UserFound, UserSlots
  <2>3. shm.groups[m.group].users \in SUBSET Names
    BY <2>1 DEF MemoryInv, SharedMemory, GroupSlots
  <2>4. "CHANGE_COLOR" \in DatagramTypes
    BY DEF DatagramTypes
  <2> QED
    BY <1>1, <2>2, <2>3, <2>4, SendToDeliverable
<1> QED
  BY <1>1, RefuseStep DEF ChangeColor

\* A group slot is filled or used again.
LEMMA CreateGroupStep ==
  ASSUME MemoryInv(shm), NEW m \in Requests, CreateGroup(m)
  PROVE  MemoryInv(shm') /\ Deliverable(sent')
<1>1. /\ {m.sender} \in SUBSET Names
      /\ m.arg \in Groups
      /\ "CREATE_GROUP" \in DatagramTypes
  BY RequestType DEF CreateGroup, DatagramTypes
<1>2. CASE /\ shm' = GroupCreate(shm, m.arg, m.sender)
           /\ sent' = SendTo(shm, {m.sender}, "CREATE_GROUP", Serveur, NoGroup,
                             Nothing)
  BY <1>1, <1>2, RequestType, GroupCreateInv, SendToDeliverable
<1> QED
  BY <1>2, RefuseStep DEF CreateGroup

\* The members of the second group move to the first.
LEMMA MergeGroupsStep ==
  ASSUME MemoryInv(shm), NEW m \in Requests, MergeGroups(m)
  PROVE  MemoryInv(shm') /\ Deliverable(sent')
<1> DEFINE g1 == m.arg[1]
           g2 == m.arg[2]
           Confirmation(u) ==
             SendTo(shm', {u}, "JOIN", u, g1, shm'.groups[g1].color)
<1>1. CASE /\ shm' \in GroupMerge(shm, g1, g2)
           /\ sent' = Announce(shm', g1) \cup
                      UNION {Confirmation(u) : u \in shm.groups[g2].users}
  <2>1. g1 \in Groups /\ g2 \in Groups
    BY RequestType DEF MergeGroups
  <2>2. MemoryInv(shm')
    BY <1>1, <2>1, GroupMergeInv
  <2>3. Deliverable(Announce(shm', g1))
    BY <2>2, RequestType, NoticesDeliverable
  <2>4. \A u \in shm.groups[g2].users : Deliverable(Confirmation(u))
    <3>1. "JOIN" \in DatagramTypes
      BY DEF DatagramTypes
    <3>2. \A u \in shm.groups[g2].users : {u} \in SUBSET Names
      BY <2>1 DEF MemoryInv, SharedMemory, GroupSlots
    <3> QED
      BY <2>2, <3>1, <3>2, SendToDeliverable
  <2> QED
    BY <1>1, <2>2, <2>3, <2>4 DEF Deliverable
<1> QED
  BY <1>1, RefuseStep DEF MergeGroups

\* The kicked user is told, and so is the rest of the group.
LEMMA KickUserStep ==
  ASSUME MemoryInv(shm), NEW m \in Requests, KickUser(m)
  PROVE  MemoryInv(shm') /\ Deliverable(sent')
<1>1. CASE /\ shm' = GroupKickUser(shm, m.group, m.arg)
           /\ sent' = IF IsMember(shm, m.group, m.arg)
                      THEN Announce(shm', m.group) \cup
                           SendTo(shm', {m.arg}, "LEAVE", Serveur, m.group,
                                  Nothing)
                      ELSE {}
  <2>1. m.group \in Groups /\ m.arg \in Names /\ "LEAVE" \in DatagramTypes
    BY RequestType DEF KickUser, DatagramTypes
  <2>2. MemoryInv(shm')
    BY <1>1, <2>1, GroupKickUserInv
  <2>3. Deliverable(Announce(shm', m.group))
    BY <2>1, <2>2, NoticesDeliverable
  <2>4. Deliverable(SendTo(shm', {m.arg}, "LEAVE", Serveur, m.group, Nothing))
    <3>1. {m.arg} \in SUBSET Names
      BY <2>1
    <3> QED
      BY <2>1, <2>2, <3>1, SendToDeliverable
  <2> QED
    BY <1>1, <2>2, <2>3, <2>4 DEF Deliverable
<1> QED
  BY <1>1, RefuseStep DEF KickUser

\* Promotions and demotions change the administrators of one group only.
LEMMA AdminStep ==
  ASSUME MemoryInv(shm), NEW m \in Requests,
         PromoteAdmin(m) \/ DemoteAdmin(m)
  PROVE  MemoryInv(shm') /\ Deliverable(sent')
<1>1. CASE /\ \/ shm' = GroupAddAdmin(shm, m.group, m.arg)
              \/ shm' = GroupRemoveAdmin(shm, m.group, m.arg)
           /\ sent' = Tell(shm, m.arg) \cup Announce(shm, m.group)
  <2>1. m.group \in Groups /\ m.arg \in Names
    BY RequestType DEF PromoteAdmin, DemoteAdmin
  <2>2. MemoryInv(shm')
    BY <1>1, <2>1, GroupAdminInv
  <2>3. Deliverable(Tell(shm, m.arg)) /\ Deliverable(Announce(shm, m.group))
    BY <2>1, NoticesDeliverable
  <2> QED
    BY <1>1, <2>2, <2>3 DEF Deliverable
<1> QED
  BY <1>1, RefuseStep DEF PromoteAdmin, DemoteAdmin

\* The slot of the sender is filled, activated or left alone.
LEMMA ConnectStep ==
  ASSUME MemoryInv(shm), NEW m \in Requests, Connect(m)
  PROVE  MemoryInv(shm') /\ Deliverable(sent')
<1>1. /\ m.from \in Addrs /\ m.sender \in Names
      /\ {m.sender} \in SUBSET Names
      /\ "CONNECT_ACK" \in DatagramTypes
  BY RequestType DEF DatagramTypes
<1>2. MemoryInv(shm')
  BY <1>1, UserAddInv DEF Connect
<1> QED
  BY <1>1, <1>2, SendToDeliverable DEF Connect

\* The requests that change nothing answer the sender or relay a message.
LEMMA QueryStep ==
  ASSUME MemoryInv(shm), NEW m \in Requests,
         Public(m) \/ Private(m) \/ ListUsers(m) \/ ListGroups(m)
  PROVE  MemoryInv(shm') /\ Deliverable(sent')
<1>1. {"PUBLIC", "PRIVATE", "LIST_USERS_RESPONSE", "LIST_GROUPS_RESPONSE"}
         \subseteq DatagramTypes
  BY DEF DatagramTypes
<1>2. {m.sender} \in SUBSET Names
  BY RequestType
<1>3. CASE Public(m)
  BY <1>1, <1>3, SendToGroupDeliverable DEF Public
<1>4. CASE Private(m)
  <2>1. CASE /\ shm' = shm
             /\ sent' = SendTo(shm, {m.arg}, "PRIVATE", m.sender, NoGroup,
                               Nothing)
    <3>1. {m.arg} \in SUBSET Names
      BY <1>4, RequestType DEF Private
    <3> QED
      BY <1>1, <2>1, <3>1, SendToDeliverable
  <2> QED
    BY <1>4, <2>1, RefuseStep DEF Private
<1>5. CASE ListUsers(m)
  BY <1>1, <1>2, <1>5, SendToDeliverable DEF ListUsers
<1>6. CASE ListGroups(m)
  BY <1>1, <1>2, <1>6, SendToDeliverable DEF ListGroups
<1> QED
  BY <1>3, <1>4, <1>5, <1>6

-----------------------------------------------------------------------------
(* The invariant, and the theorems that follow from it.                    *)

ServerInv ==
    /\ MemoryInv(shm)
    /\ msg \in Requests \cup {NoRequest}
    /\ Deliverable(sent)

\* The first start satisfies it.
LEMMA InitInv == Init => ServerInv
  BY EmptyMemoryInv DEF Init, ServerInv, Deliverable

\* Every step of the server, serving or starting, keeps the invariant.
LEMMA StepInv == ServerInv /\ [Next]_serverVars => ServerInv'
<1> SUFFICES ASSUME ServerInv, [Next]_serverVars
             PROVE  ServerInv'
  OBVIOUS
<1>1. MemoryInv(shm)
  BY DEF ServerInv
<1>2. CASE Restart
  BY <1>1, <1>2, DeactivatedInv DEF Restart, ServerInv, Deliverable
<1>3. ASSUME NEW m \in Requests, Receive(m)
      PROVE  ServerInv'
  <2>1. CASE Disconnect(m)
    BY <1>1, <1>3, <2>1, RequestType, UserRemoveInv
    DEF Disconnect, Receive, ServerInv, Deliverable
  <2>2. CASE ~Disconnect(m)
    <3>1. MemoryInv(shm') /\ Deliverable(sent')
      BY <1>1, <1>3, <2>2, JoinStep, LeaveStep, ChangeColorStep,
         CreateGroupStep, MergeGroupsStep, KickUserStep, AdminStep,
         ConnectStep, QueryStep
      DEF Receive, HandleClientMessage
    <3> QED
      BY <1>3, <3>1 DEF Receive, ServerInv
  <2> QED
    BY <2>1, <2>2
<1>4. CASE UNCHANGED serverVars
  BY <1>4 DEF serverVars, ServerInv
<1> QED
  BY <1>2, <1>3, <1>4 DEF Next

\* So it holds in every state of every behaviour.
LEMMA InvAlways == Spec => []ServerInv
  BY InitInv, StepInv, PTL DEF Spec

\* The shared memory stays well formed, and what the server sends goes to the
\* address of a client process.
THEOREM TypeCorrect == Spec => []TypeOK
<1>1. ServerInv => TypeOK
  BY DEF ServerInv, MemoryInv, Deliverable, TypeOK
<1> QED
  BY <1>1, InvAlways, PTL

\* Members of groups hold user slots: no request and no restart takes the slot
\* of a user and leaves its name in a group.
THEOREM MembersAlwaysHaveSlots == Spec => []MembersHaveSlots
<1>1. ServerInv => MembersHaveSlots
  BY DEF ServerInv, MemoryInv, MembersIn, MembersHaveSlots
<1> QED
  BY <1>1, InvAlways, PTL

-----------------------------------------------------------------------------
(* No group loses its last administrator.                                  *)

HasAdmins(s) == \A g \in Groups : GroupFound(s, g) => s.groups[g].admins # {}

\* group_create gives the group to its creator, if that one has a name.
LEMMA GroupCreateHasAdmins ==
  ASSUME NEW s, MemoryInv(s), HasAdmins(s), NEW g \in Groups, NEW u \in Names,
         EmptyName \notin Names
  PROVE  HasAdmins(GroupCreate(s, g, u))
<1>1. {u} \ {EmptyName} # {}
  OBVIOUS
<1> QED
  BY <1>1, SMT
  DEF MemoryInv, SharedMemory, GroupSlots, HasAdmins, GroupFound, GroupCreate

\* Memory operations that leave the states and administrators of groups alone.
LEMMA AdminsOnlyGrow ==
  ASSUME NEW s, NEW t, HasAdmins(s),
         \A g \in Groups : /\ t.groups[g].state = s.groups[g].state
                           /\ s.groups[g].admins \subseteq t.groups[g].admins
  PROVE  HasAdmins(t)
  BY DEF HasAdmins, GroupFound

\* user_remove, group_add_user and group_remove_user are such operations.
LEMMA MembershipHasAdmins ==
  ASSUME NEW s, MemoryInv(s), HasAdmins(s), NEW g \in Groups, NEW u \in Names
  PROVE  /\ HasAdmins(UserRemove(s, u))
         /\ HasAdmins(GroupAddUser(s, g, u))
         /\ HasAdmins(GroupRemoveUser(s, g, u))
<1>1. HasAdmins(UserRemove(s, u))
  BY SMT DEF MemoryInv, SharedMemory, GroupSlots, HasAdmins, GroupFound,
             UserRemove
<1>2. HasAdmins(GroupAddUser(s, g, u))
  BY SMT DEF MemoryInv, SharedMemory, GroupSlots, HasAdmins, GroupFound,
             GroupAddUser
<1>3. HasAdmins(GroupRemoveUser(s, g, u))
  BY SMT DEF MemoryInv, SharedMemory, GroupSlots, HasAdmins, GroupFound,
             GroupRemoveUser
<1> QED
  BY <1>1, <1>2, <1>3

\* A right is taken from u while another administrator v is there.
LEMMA RemoveAdminHasAdmins ==
  ASSUME NEW s, MemoryInv(s), HasAdmins(s), NEW g \in Groups, NEW u \in Names,
         NEW v \in Names, v # u, IsAdmin(s, g, v)
  PROVE  HasAdmins(GroupRemoveAdmin(s, g, u))
<1>1. v \in s.groups[g].admins \ {u}
  BY DEF IsAdmin
<1> QED
  BY <1>1, SMT
  DEF MemoryInv, SharedMemory, GroupSlots, HasAdmins, GroupFound,
      GroupRemoveAdmin

\* group_merge: the first group keeps its administrators, the second is gone.
LEMMA MergeHasAdmins ==
  ASSUME NEW s, MemoryInv(s), HasAdmins(s), NEW g1 \in Groups,
         NEW g2 \in Groups, NEW t \in GroupMerge(s, g1, g2)
  PROVE  HasAdmins(t)
<1>1. PICK users, admins : t = MergedWith(s, g1, g2, users, admins)
  BY DEF GroupMerge
<1>2. s.groups \in [Groups -> GroupSlots]
  BY DEF MemoryInv, SharedMemory
<1>3. \A g \in Groups : \/ t.groups[g].state = "inactive"
                        \/ /\ t.groups[g].state = s.groups[g].state
                           /\ s.groups[g].admins \subseteq t.groups[g].admins
  <2> TAKE g \in Groups
  <2>1. CASE g = g2
    BY <1>1, <1>2, <2>1 DEF MergedWith
  <2>2. CASE g = g1 /\ g # g2
    BY <1>1, <1>2, <2>2 DEF MergedWith
  <2>3. CASE g # g1 /\ g # g2
    BY <1>1, <1>2, <2>3 DEF MergedWith
  <2> QED
    BY <2>1, <2>2, <2>3
<1> QED
  BY <1>3 DEF HasAdmins, GroupFound

\* No request takes the last administrator of a group: whoever removes one is
\* another one.
LEMMA HasAdminsStep ==
  ASSUME EmptyName \notin Names, MemoryInv(shm), HasAdmins(shm),
         NEW m \in Requests, HandleClientMessage(m)
  PROVE  HasAdmins(shm')
<1>1. m.from \in Addrs /\ m.sender \in Names
  BY RequestType
<1>2. CASE Join(m)
  <2> DEFINE registered == IF UserFound(shm, m.sender) THEN shm
                           ELSE UserAdd(shm, m.sender, m.from)
             prepared == IF GroupFound(registered, m.group) THEN registered
                         ELSE GroupCreate(registered, m.group, m.sender)
  <2>1. m.group \in Groups
    BY <1>2, RequestType DEF Join
  <2>2. MemoryInv(registered)
    BY <1>1, UserAddInv
  <2>3. HasAdmins(registered)
    BY DEF HasAdmins, GroupFound, UserAdd
  <2>4. MemoryInv(prepared)
    BY <1>1, <2>1, <2>2, GroupCreateInv
  <2>5. HasAdmins(prepared)
    BY <1>1, <2>1, <2>2, <2>3, GroupCreateHasAdmins
  <2>6. HasAdmins(GroupAddUser(prepared, m.group, m.sender))
    BY <1>1, <2>1, <2>4, <2>5, MembershipHasAdmins
  <2> QED
    BY <1>2, <2>5, <2>6 DEF Join
<1>3. CASE Leave(m)
  BY <1>1, <1>3, RequestType, MembershipHasAdmins DEF Leave
<1>4. CASE ChangeColor(m)
  <2>1. CASE shm' = [users  |-> shm.users,
                     groups |-> [shm.groups EXCEPT ![m.group].color = m.arg]]
    BY <2>1, SMT
    DEF MemoryInv, SharedMemory, GroupSlots, HasAdmins, GroupFound
  <2> QED
    BY <1>4, <2>1 DEF ChangeColor, Refuse, Ignore
<1>5. CASE CreateGroup(m)
  BY <1>1, <1>5, RequestType, GroupCreateHasAdmins DEF CreateGroup, Ignore
<1>6. CASE MergeGroups(m)
  BY <1>6, RequestType, MergeHasAdmins DEF MergeGroups, Refuse, Ignore
<1>7. CASE KickUser(m)
  <2>1. m.group \in Groups /\ m.arg \in Names
    BY <1>7, RequestType DEF KickUser
  <2>2. CASE /\ IsAdmin(shm, m.group, m.sender)
             /\ m.arg # m.sender
             /\ shm' = GroupKickUser(shm, m.group, m.arg)
    <3>1. HasAdmins(GroupRemoveAdmin(shm, m.group, m.arg))
      BY <1>1, <2>1, <2>2, RemoveAdminHasAdmins
    <3>2. MemoryInv(GroupRemoveAdmin(shm, m.group, m.arg))
      BY <2>1, GroupAdminInv
    <3> QED
      BY <2>1, <2>2, <3>1, <3>2, MembershipHasAdmins DEF GroupKickUser
  <2> QED
    BY <1>7, <2>2 DEF KickUser, Refuse, Ignore
<1>8. CASE PromoteAdmin(m)
  <2>1. CASE shm' = GroupAddAdmin(shm, m.group, m.arg)
    BY <2>1, SMT
    DEF MemoryInv, SharedMemory, GroupSlots, HasAdmins, GroupFound,
        GroupAddAdmin
  <2> QED
    BY <1>8, <2>1 DEF PromoteAdmin, Refuse, Ignore
<1>9. CASE DemoteAdmin(m)
  <2>1. m.group \in Groups /\ m.arg \in Names
    BY <1>9, RequestType DEF DemoteAdmin
  <2> QED
    BY <1>1, <1>9, <2>1, RemoveAdminHasAdmins DEF DemoteAdmin, Refuse, Ignore
<1>10. CASE Disconnect(m)
  <2>1. \A g \in Groups :
          /\ shm'.groups[g].state = shm.groups[g].state
          /\ shm.groups[g].admins \subseteq shm'.groups[g].admins
    BY <1>10, SMT
    DEF MemoryInv, SharedMemory, GroupSlots, Disconnect, UserRemove
  <2> QED
    BY <2>1, AdminsOnlyGrow
<1>11. CASE Connect(m)
  BY <1>11 DEF Connect, UserAdd, HasAdmins, GroupFound
<1>12. CASE Public(m) \/ Private(m) \/ ListUsers(m) \/ ListGroups(m)
  BY <1>12 DEF Public, Private, ListUsers, ListGroups, Refuse
<1> QED
  BY <1>2, <1>3, <1>4, <1>5, <1>6, <1>7, <1>8, <1>9, <1>10, <1>11, <1>12
  DEF HandleClientMessage

\* An active group always has an administrator, as long as no user has the
\* empty name, to which group_create gives no rights.
THEOREM AdminsRemain ==
  ASSUME EmptyName \notin Names
  PROVE  Spec => []EveryGroupKeepsAnAdmin
<1>1. Init => HasAdmins(shm)
  BY DEF Init, EmptyMemory, NoGroupSlot, HasAdmins, GroupFound
<1>2. ServerInv /\ HasAdmins(shm) /\ [Next]_serverVars => HasAdmins(shm)'
  <2> SUFFICES ASSUME ServerInv, HasAdmins(shm), [Next]_serverVars
               PROVE  HasAdmins(shm')
    OBVIOUS
  <2>1. CASE Restart
    BY <2>1 DEF Restart, Deactivated, HasAdmins, GroupFound
  <2>2. ASSUME NEW m \in Requests, Receive(m)
        PROVE  HasAdmins(shm')
    BY <2>2, HasAdminsStep DEF ServerInv, Receive
  <2>3. CASE UNCHANGED serverVars
    BY <2>3 DEF serverVars
  <2> QED
    BY <2>1, <2>2, <2>3 DEF Next
<1>3. HasAdmins(shm) => EveryGroupKeepsAnAdmin
  BY DEF HasAdmins, EveryGroupKeepsAnAdmin
<1> QED
  BY <1>1, <1>2, <1>3, InvAlways, PTL DEF Spec

=============================================================================
