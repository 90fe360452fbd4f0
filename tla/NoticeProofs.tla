---------------------------- MODULE NoticeProofs ----------------------------
(***************************************************************************)
(* What the server tells its users is true and complete: confirmations,    *)
(* evictions, and the group that /users shows, for every set of users and  *)
(* groups and every MAX_CLIENTS and MAX_GROUPS.                            *)
(***************************************************************************)
EXTENDS GovernanceProofs

-----------------------------------------------------------------------------
(* Confirmations.                                                          *)

\* A join confirmation, as opposed to the notice that others get.
Confirmation(d) == d.type = "JOIN" /\ d.content # Nothing

Truthful(d) ==
    /\ IsMember(shm', d.group, d.sender)
    /\ UserFound(shm', d.sender)
    /\ d.to = shm'.users[d.sender].addr
    /\ d.content = shm'.groups[d.group].color

\* Only SendTo of a "JOIN" with a content makes one.
LEMMA NoConfirmation ==
  ASSUME NEW s, NEW users, NEW sender, NEW g, NEW type, NEW content,
         type # "JOIN" \/ content = Nothing
  PROVE  /\ \A d \in SendTo(s, users, type, sender, g, content) : ~Confirmation(d)
         /\ \A d \in SendToGroup(s, type, sender, g, content) : ~Confirmation(d)
  BY DEF SendTo, SendToGroup, Datagram, Confirmation

\* The confirmation to a member of g is true.
LEMMA TrueConfirmation ==
  ASSUME NEW g, NEW u \in Names, IsMember(shm', g, u),
         NEW d \in SendTo(shm', {u}, "JOIN", u, g, shm'.groups[g].color)
  PROVE  Truthful(d)
  BY DEF SendTo, Datagram, Truthful

\* JOIN.
LEMMA JoinConfirms ==
  ASSUME TableInv(shm), NEW m \in Requests, Join(m), NEW d \in sent',
         Confirmation(d)
  PROVE  Truthful(d)
<1> DEFINE u == m.sender
           g == m.group
           registered == IF UserFound(shm, u) THEN shm
                         ELSE UserAdd(shm, u, m.from)
           prepared == IF GroupFound(registered, g) THEN registered
                       ELSE GroupCreate(registered, g, u)
<1>1. /\ u \in Names /\ m.from \in Addrs /\ g \in Groups
      /\ MemoryInv(shm) /\ Bounded(shm)
  BY RequestType DEF Join, TableInv
<1>2. MemoryInv(prepared)
  BY <1>1, PreparedInv
<1>3. \/ /\ CanJoinGroup(prepared, g, u)
         /\ shm' = GroupAddUser(prepared, g, u)
         /\ sent' = SendToGroup(shm', "JOIN", u, g, Nothing)
                    \cup SendTo(shm', {u}, "JOIN", u, g, shm'.groups[g].color)
      \/ sent' = SendTo(prepared, {u}, "PUBLIC", Serveur, NoGroup, g)
  BY DEF Join
<1> HIDE DEF registered, prepared
<1>4. CASE sent' = SendTo(prepared, {u}, "PUBLIC", Serveur, NoGroup, g)
  <2>1. "PUBLIC" # "JOIN"
    OBVIOUS
  <2> QED
    BY <1>4, <2>1, NoConfirmation
<1>5. CASE /\ CanJoinGroup(prepared, g, u)
           /\ shm' = GroupAddUser(prepared, g, u)
           /\ sent' = SendToGroup(shm', "JOIN", u, g, Nothing)
                      \cup SendTo(shm', {u}, "JOIN", u, g, shm'.groups[g].color)
  <2>1. IsMember(shm', g, u)
    BY <1>1, <1>2, <1>5, AddedIsMember
  <2>2. d \in SendTo(shm', {u}, "JOIN", u, g, shm'.groups[g].color)
    BY <1>5, NoConfirmation
  <2> QED
    BY <1>1, <2>1, <2>2, TrueConfirmation
<1> QED
  BY <1>3, <1>4, <1>5

\* Everybody in the second group is in the first one after a merge.
LEMMA MergedAreMembers ==
  ASSUME TableInv(shm), NEW g1 \in Groups, NEW g2 \in Groups,
         CanMerge(shm, g1, g2), shm' \in GroupMerge(shm, g1, g2)
  PROVE  /\ \A u \in shm.groups[g1].users \cup shm.groups[g2].users :
               IsMember(shm', g1, u)
         /\ \A u \in Names : /\ UserFound(shm', u) <=> UserFound(shm, u)
                             /\ shm'.users[u].addr = shm.users[u].addr
<1>1. /\ LiveGroups(shm') = LiveGroups(shm) \ {g2}
      /\ MembersOf(shm') = [MembersOf(shm) EXCEPT
                              ![g1] = @ \cup MembersOf(shm)[g2], ![g2] = {}]
      /\ SameConnected(shm, shm')
  BY MergeMap
<1>2. g1 # g2 /\ g1 \in LiveGroups(shm)
  BY DEF CanMerge, LiveGroups
<1>3. GroupFound(shm', g1)
  BY <1>1, <1>2 DEF LiveGroups
<1>4. shm'.groups[g1].users = shm.groups[g1].users \cup shm.groups[g2].users
  <2>1. MembersOf(shm')[g1] = MembersOf(shm)[g1] \cup MembersOf(shm)[g2]
    BY <1>1, <1>2 DEF MembersOf
  <2> QED
    BY <2>1 DEF MembersOf
<1>5. PICK users, admins : shm' = MergedWith(shm, g1, g2, users, admins)
  BY DEF GroupMerge
<1>6. \A u \in Names : /\ shm'.users[u].addr = shm.users[u].addr
                       /\ shm'.users[u].state = shm.users[u].state
  BY <1>5, SMT DEF TableInv, MemoryInv, SharedMemory, Users, MergedWith
<1> QED
  BY <1>3, <1>4, <1>6 DEF IsMember, UserFound

\* MERGE_GROUPS.
LEMMA MergeConfirms ==
  ASSUME TableInv(shm), NEW m \in Requests, MergeGroups(m), NEW d \in sent',
         Confirmation(d)
  PROVE  Truthful(d)
<1> DEFINE g1 == m.arg[1]
           g2 == m.arg[2]
<1>1. g1 \in Groups /\ g2 \in Groups
  BY RequestType DEF MergeGroups
<1>2. "PUBLIC" # "JOIN"
  OBVIOUS
<1>3. CASE Refuse(m) \/ Ignore
  BY <1>2, <1>3, NoConfirmation DEF Refuse, Ignore, Tell
<1>4. CASE /\ CanMerge(shm, g1, g2) /\ shm' \in GroupMerge(shm, g1, g2)
           /\ sent' = Announce(shm', g1) \cup
                      UNION {SendTo(shm', {u}, "JOIN", u, g1,
                                    shm'.groups[g1].color) :
                             u \in shm.groups[g2].users}
  <2>1. d \notin Announce(shm', g1)
    BY <1>2, NoConfirmation DEF Announce
  <2>2. PICK u \in shm.groups[g2].users :
           d \in SendTo(shm', {u}, "JOIN", u, g1, shm'.groups[g1].color)
    BY <1>4, <2>1
  <2>3. u \in Names
    BY <1>1 DEF TableInv, MemoryInv, SharedMemory, GroupSlots
  <2>4. IsMember(shm', g1, u)
    BY <1>1, <1>4, MergedAreMembers
  <2> QED
    BY <2>2, <2>3, <2>4, TrueConfirmation
<1> QED
  BY <1>3, <1>4 DEF MergeGroups

\* The other requests send no confirmation.
LEMMA OthersConfirmNothing ==
  ASSUME NEW m, HandleClientMessage(m), ~Join(m), ~MergeGroups(m),
         NEW d \in sent'
  PROVE  ~Confirmation(d)
<1> DEFINE Types == {"LEAVE", "PUBLIC", "PRIVATE", "CHANGE_COLOR",
                     "CREATE_GROUP", "CONNECT_ACK", "LIST_USERS_RESPONSE",
                     "LIST_GROUPS_RESPONSE"}
<1>1. \A s, users, sender, g, content : \A type \in Types :
        /\ \A x \in SendTo(s, users, type, sender, g, content) : x.type \in Types
        /\ \A x \in SendToGroup(s, type, sender, g, content) : x.type \in Types
  BY DEF SendTo, SendToGroup, Datagram
<1>2. \A s, u, g : /\ \A x \in Tell(s, u) : x.type \in Types
                   /\ \A x \in Announce(s, g) : x.type \in Types
  <2>1. "PUBLIC" \in Types
    OBVIOUS
  <2> QED
    BY <1>1, <2>1 DEF Tell, Announce
<1>3. d.type \in Types
  <2>0. /\ "LEAVE" \in Types /\ "PUBLIC" \in Types /\ "PRIVATE" \in Types
        /\ "CHANGE_COLOR" \in Types /\ "CREATE_GROUP" \in Types
        /\ "CONNECT_ACK" \in Types /\ "LIST_USERS_RESPONSE" \in Types
        /\ "LIST_GROUPS_RESPONSE" \in Types
    OBVIOUS
  <2> HIDE DEF Types
  <2>1. CASE Refuse(m) \/ Ignore
    BY <1>2, <2>1 DEF Refuse, Ignore
  <2>2. CASE Leave(m) \/ Public(m)
    BY <1>1, <2>0, <2>2 DEF Leave, Public
  <2>3. CASE Connect(m) \/ ListUsers(m) \/ ListGroups(m) \/ Disconnect(m)
    BY <1>1, <2>0, <2>3 DEF Connect, ListUsers, ListGroups, Disconnect
  <2>4. CASE Private(m) \/ ChangeColor(m) \/ CreateGroup(m)
    BY <1>1, <2>0, <2>1, <2>4 DEF Private, ChangeColor, CreateGroup
  <2>5. CASE KickUser(m)
    BY <1>1, <1>2, <2>0, <2>1, <2>5 DEF KickUser
  <2>6. CASE PromoteAdmin(m) \/ DemoteAdmin(m)
    BY <1>2, <2>1, <2>6 DEF PromoteAdmin, DemoteAdmin
  <2> QED
    BY <2>2, <2>3, <2>4, <2>5, <2>6 DEF HandleClientMessage
<1> QED
  BY <1>3 DEF Confirmation

\* What the server confirms is so: no join that fails and no member that a
\* merge leaves behind is told otherwise.
THEOREM ConfirmationsAreAlwaysTrue == Spec => ConfirmationsAreTrue
<1> DEFINE AllTrue ==
      \A d \in sent' : d.type = "JOIN" /\ d.content # Nothing =>
         /\ IsMember(shm', d.group, d.sender)
         /\ UserFound(shm', d.sender)
         /\ d.to = shm'.users[d.sender].addr
         /\ d.content = shm'.groups[d.group].color
<1>1. Init => TablesInv
  BY InitTables
<1>2. TablesInv /\ [Next]_serverVars => TablesInv'
  BY StepMaps
<1>3. TablesInv /\ [Next]_serverVars => [AllTrue]_serverVars
  <2> SUFFICES ASSUME TablesInv, Next
               PROVE  AllTrue
    OBVIOUS
  <2>1. CASE Restart
    BY <2>1 DEF Restart
  <2>2. ASSUME NEW m \in Requests, Receive(m)
        PROVE  AllTrue
    <3>1. \A d \in sent' : Confirmation(d) => Truthful(d)
      BY <2>2, JoinConfirms, MergeConfirms, OthersConfirmNothing
      DEF TablesInv, Receive
    <3> QED
      BY <3>1 DEF Confirmation, Truthful
  <2> QED
    BY <2>1, <2>2 DEF Next
<1> QED
  BY <1>1, <1>2, <1>3, PTL DEF Spec, ConfirmationsAreTrue

-----------------------------------------------------------------------------
(* Evictions.                                                              *)

\* How u learns of the end of its membership of g, in the step that ends it.
Told(m, g, u) ==
    \/ /\ m.sender = u
       /\ \/ m.type = "LEAVE" /\ m.group = g
          \/ m.type = "DISCONNECT"
    \/ \E d \in sent' :
          /\ d.to = shm.users[u].addr
          /\ \/ d.type = "LEAVE" /\ d.sender = Serveur /\ d.group = g
             \/ /\ d.type = "JOIN" /\ d.sender = u
                /\ IsMember(shm', d.group, u)

\* The datagram that SendTo makes for a connected user.
LEMMA SentTo ==
  ASSUME NEW s, NEW u, UserFound(s, u), NEW type, NEW sender, NEW g,
         NEW content
  PROVE  \E d \in SendTo(s, {u}, type, sender, g, content) :
            /\ d.to = s.users[u].addr
            /\ d.type = type /\ d.sender = sender /\ d.group = g
<1> DEFINE d == Datagram(s.users[u].addr, type, sender, g, content)
<1>1. d \in SendTo(s, {u}, type, sender, g, content)
  BY DEF SendTo
<1>2. /\ d.to = s.users[u].addr
      /\ d.type = type /\ d.sender = sender /\ d.group = g
  BY DEF Datagram
<1> QED
  BY <1>1, <1>2

\* group_kick_user changes the membership of the user it names, and no slot.
LEMMA KickTouches ==
  ASSUME NEW s, MemoryInv(s), NEW h \in Groups, NEW v \in Names
  PROVE  /\ \A g \in Groups : GroupKickUser(s, h, v).groups[g].users \cup {v} =
                              s.groups[g].users \cup {v}
         /\ UserFound(s, v) => UserFound(GroupKickUser(s, h, v), v)
         /\ GroupKickUser(s, h, v).users[v].addr = s.users[v].addr
<1> DEFINE r == GroupRemoveAdmin(s, h, v)
           t == GroupKickUser(s, h, v)
<1>1. MemoryInv(r) /\ t = GroupRemoveUser(r, h, v)
  BY GroupAdminInv DEF GroupKickUser
<1>2. /\ r.users = s.users
      /\ \A g \in Groups : r.groups[g].users = s.groups[g].users
  BY SMT DEF MemoryInv, SharedMemory, GroupSlots, GroupRemoveAdmin
<1> HIDE DEF r, t
<1>3. \A g \in Groups : t.groups[g].users \cup {v} = r.groups[g].users \cup {v}
  <2> TAKE g \in Groups
  <2>1. SameBut(r, t, g, v)
    BY <1>1, MembershipOnly
  <2> QED
    BY <2>1 DEF SameBut
<1>4. t.users[v].state = r.users[v].state /\ t.users[v].addr = r.users[v].addr
  BY <1>1, SMT DEF MemoryInv, SharedMemory, Users, GroupRemoveUser
<1> QED
  BY <1>2, <1>3, <1>4 DEF UserFound, t

\* Every request.
LEMMA ToldStep ==
  ASSUME TableInv(shm), NEW m \in Requests, HandleClientMessage(m),
         NEW g \in Groups, NEW u \in shm.groups[g].users \ shm'.groups[g].users,
         UserFound(shm, u)
  PROVE  Told(m, g, u)
<1>1. /\ MemoryInv(shm) /\ m.sender \in Names /\ m.from \in Addrs
      /\ u \in Names /\ GroupFound(shm, g)
  BY RequestType
  DEF TableInv, NoLeftovers, MemoryInv, SharedMemory, GroupSlots
<1>2. shm' # shm
  OBVIOUS
<1>3. CASE Join(m)
  BY <1>1, <1>3, JoinTouches
<1>4. CASE Leave(m)
  <2>1. m.group \in Groups /\ shm' = GroupRemoveUser(shm, m.group, m.sender)
    BY <1>4, RequestType DEF Leave
  <2>2. u = m.sender
    BY <1>1, <2>1, MembershipOnly DEF SameBut
  <2>3. g = m.group
    BY <1>1, <2>1, OtherGroups
  <2> QED
    BY <1>4, <2>2, <2>3 DEF Leave, Told
<1>5. CASE Disconnect(m)
  <2>1. u = m.sender
    BY <1>1, <1>5, MembershipOnly DEF Disconnect, SameBut
  <2> QED
    BY <1>5, <2>1 DEF Disconnect, Told
<1>6. CASE ChangeColor(m)
  BY <1>1, <1>2, <1>6
  DEF ChangeColor, Refuse, Ignore, MemoryInv, SharedMemory, GroupSlots
<1>7. CASE CreateGroup(m)
  <2>1. m.arg \in Groups
    BY <1>7, RequestType DEF CreateGroup
  <2>2. shm'.groups[g] = shm.groups[g]
    BY <1>1, <1>7, <2>1, OtherGroups
    DEF CreateGroup, Ignore, CanCreateGroup, GroupFound
  <2> QED
    BY <2>2
<1>8. CASE MergeGroups(m)
  <2> DEFINE g1 == m.arg[1]
             g2 == m.arg[2]
  <2>1. g1 \in Groups /\ g2 \in Groups
    BY <1>8, RequestType DEF MergeGroups
  <2>2. /\ CanMerge(shm, g1, g2) /\ shm' \in GroupMerge(shm, g1, g2)
        /\ \A v \in shm.groups[g2].users :
              SendTo(shm', {v}, "JOIN", v, g1, shm'.groups[g1].color)
                 \subseteq sent'
    BY <1>2, <1>8 DEF MergeGroups, Refuse, Ignore
  <2>3. u \in shm.groups[g2].users
    <3>1. g # g1
      BY <2>1, <2>2, MergedAreMembers DEF IsMember
    <3>2. g = g2
      BY <1>1, <2>1, <2>2, <3>1, MergeOthers
    <3> QED
      BY <3>2
  <2>4. /\ IsMember(shm', g1, u) /\ UserFound(shm', u)
        /\ shm'.users[u].addr = shm.users[u].addr
    BY <1>1, <2>1, <2>2, <2>3, MergedAreMembers
  <2>5. \E d \in SendTo(shm', {u}, "JOIN", u, g1, shm'.groups[g1].color) :
           /\ d.to = shm'.users[u].addr
           /\ d.type = "JOIN" /\ d.sender = u /\ d.group = g1
    BY <2>4, SentTo
  <2> QED
    BY <2>2, <2>3, <2>4, <2>5 DEF Told
<1>9. CASE KickUser(m)
  <2>1. m.group \in Groups /\ m.arg \in Names
    BY <1>9, RequestType DEF KickUser
  <2>2. /\ shm' = GroupKickUser(shm, m.group, m.arg)
        /\ IsMember(shm, m.group, m.arg) =>
              SendTo(shm', {m.arg}, "LEAVE", Serveur, m.group, Nothing)
                 \subseteq sent'
    BY <1>2, <1>9 DEF KickUser, Refuse, Ignore
  <2>3. u = m.arg
    BY <1>1, <2>1, <2>2, KickTouches
  <2>4. g = m.group
    BY <2>1, <2>2, <1>1, OtherGroups
  <2>5. UserFound(shm', u) /\ shm'.users[u].addr = shm.users[u].addr
    BY <1>1, <2>1, <2>2, <2>3, KickTouches
  <2>6. \E d \in SendTo(shm', {u}, "LEAVE", Serveur, g, Nothing) :
           /\ d.to = shm'.users[u].addr
           /\ d.type = "LEAVE" /\ d.sender = Serveur /\ d.group = g
    BY <2>5, SentTo
  <2> QED
    BY <1>1, <2>2, <2>3, <2>4, <2>5, <2>6 DEF Told, IsMember
<1>10. CASE PromoteAdmin(m) \/ DemoteAdmin(m)
  <2>1. \/ shm' = GroupAddAdmin(shm, m.group, m.arg)
        \/ shm' = GroupRemoveAdmin(shm, m.group, m.arg)
    BY <1>2, <1>10 DEF PromoteAdmin, DemoteAdmin, Refuse, Ignore
  <2>2. shm'.groups[g].users = shm.groups[g].users
    BY <1>1, <2>1, SMT
    DEF MemoryInv, SharedMemory, GroupSlots, GroupAddAdmin, GroupRemoveAdmin
  <2> QED
    BY <2>2
<1>11. CASE Connect(m)
  BY <1>11 DEF Connect, UserAdd
<1>12. CASE Public(m) \/ Private(m) \/ ListUsers(m) \/ ListGroups(m)
  BY <1>2, <1>12 DEF Public, Private, ListUsers, ListGroups, Refuse
<1> QED
  BY <1>3, <1>4, <1>5, <1>6, <1>7, <1>8, <1>9, <1>10, <1>11, <1>12
  DEF HandleClientMessage

\* A connected user who loses a membership asked for it, or is sent the kick,
\* or the confirmation of the group that it is in now.
THEOREM EvictionsAreTold == Spec => NoSilentEviction
<1> DEFINE AllTold ==
      \A g \in Groups : \A u \in shm.groups[g].users \ shm'.groups[g].users :
         UserFound(shm, u) =>
            \/ /\ msg'.sender = u
               /\ \/ msg'.type = "LEAVE" /\ msg'.group = g
                  \/ msg'.type = "DISCONNECT"
            \/ \E d \in sent' :
                  /\ d.to = shm.users[u].addr
                  /\ \/ d.type = "LEAVE" /\ d.sender = Serveur /\ d.group = g
                     \/ /\ d.type = "JOIN" /\ d.sender = u
                        /\ IsMember(shm', d.group, u)
<1>1. Init => TablesInv
  BY InitTables
<1>2. TablesInv /\ [Next]_serverVars => TablesInv'
  BY StepMaps
<1>3. TablesInv /\ [Next]_serverVars => [AllTold]_serverVars
  <2> SUFFICES ASSUME TablesInv, Next
               PROVE  AllTold
    OBVIOUS
  <2>1. CASE Restart
    <3>1. shm'.groups = shm.groups
      BY <2>1 DEF Restart, Deactivated
    <3> QED
      BY <3>1
  <2>2. ASSUME NEW m \in Requests, Receive(m)
        PROVE  AllTold
    BY <2>2, ToldStep DEF TablesInv, Receive, Told
  <2> QED
    BY <2>1, <2>2 DEF Next
<1> QED
  BY <1>1, <1>2, <1>3, PTL DEF Spec, NoSilentEviction

-----------------------------------------------------------------------------
(* The group that the memory names for a user.                             *)

AtHome(s, u) == \E g \in Groups : IsMember(s, g, u)

GhostFree(s) ==
    \A u \in Names :
        /\ s.users[u].current_group # NoGroup => AtHome(s, u)
        /\ ~UserFound(s, u) => ~AtHome(s, u)

\* An operation after which the same users are connected, and every user has
\* the current group and the memberships it had before.
LEMMA SameHomes ==
  ASSUME NEW s, NEW t, GhostFree(s),
         \A u \in Names :
            /\ t.users[u].current_group = s.users[u].current_group
            /\ UserFound(t, u) <=> UserFound(s, u)
            /\ \A g \in Groups : IsMember(t, g, u) <=> IsMember(s, g, u)
  PROVE  GhostFree(t)
  BY DEF GhostFree, AtHome

\* user_add: a user who was not connected had no group, nor current_group.
LEMMA UserAddGhostFree ==
  ASSUME NEW s, MemoryInv(s), GhostFree(s), NEW u \in Names, NEW a \in Addrs,
         ~UserFound(s, u)
  PROVE  GhostFree(UserAdd(s, u, a))
<1> DEFINE t == UserAdd(s, u, a)
<1>1. /\ t.groups = s.groups
      /\ \A v \in Names :
            /\ t.users[v].current_group = s.users[v].current_group
            /\ UserFound(s, v) => UserFound(t, v)
  BY SMT DEF MemoryInv, SharedMemory, Users, UserAdd, UserFound
<1>2. \A v \in Names : AtHome(t, v) <=> AtHome(s, v)
  BY <1>1 DEF AtHome, IsMember, GroupFound
<1> QED
  BY <1>1, <1>2 DEF GhostFree

\* user_remove: every membership goes, and with it the current_group.
LEMMA UserRemoveGhostFree ==
  ASSUME NEW s, MemoryInv(s), GhostFree(s), NEW u \in Names
  PROVE  GhostFree(UserRemove(s, u))
<1> DEFINE t == UserRemove(s, u)
<1>1. CASE s.users[u].state = "absent"
  BY <1>1 DEF UserRemove
<1>2. CASE s.users[u].state # "absent"
  <2>1. \A g \in Groups :
          /\ t.groups[g].state = s.groups[g].state
          /\ t.groups[g].users = IF IsMember(s, g, u)
                                 THEN s.groups[g].users \ {u}
                                 ELSE s.groups[g].users
    BY <1>2, SMT DEF MemoryInv, SharedMemory, GroupSlots, UserRemove
  <2>2. \A v \in Names \ {u} :
          /\ t.users[v] = s.users[v]
          /\ \A g \in Groups : IsMember(t, g, v) <=> IsMember(s, g, v)
    <3>1. \A v \in Names \ {u} : t.users[v] = s.users[v]
      BY <1>2 DEF MemoryInv, SharedMemory, UserRemove
    <3> QED
      BY <2>1, <3>1 DEF IsMember, GroupFound
  <2>3. ~AtHome(t, u)
    BY <2>1 DEF AtHome, IsMember, GroupFound
  <2>4. t.users[u].current_group =
          IF UserFound(s, u) /\ AtHome(s, u)
          THEN NoGroup ELSE s.users[u].current_group
    <3> DEFINE left == {g \in Groups : IsMember(s, g, u)}
               home == IF UserFound(s, u) /\ left # {}
                       THEN NoGroup ELSE s.users[u].current_group
    <3>1. left # {} <=> AtHome(s, u)
      BY DEF AtHome
    <3>2. t.users = [s.users EXCEPT ![u].state = "inactive",
                                    ![u].current_group = home]
      BY <1>2 DEF UserRemove
    <3> HIDE DEF left
    <3>3. t.users[u].current_group = home
      BY <3>2, SMT DEF MemoryInv, SharedMemory, Users
    <3> QED
      BY <3>1, <3>3
  <2>5. t.users[u].current_group = NoGroup
    BY <2>4 DEF GhostFree
  <2> HIDE DEF t
  <2> QED
    BY <2>2, <2>3, <2>5 DEF GhostFree, AtHome, UserFound, t
<1> QED
  BY <1>1, <1>2

\* group_create: nobody was in the group.
LEMMA GroupCreateGhostFree ==
  ASSUME NEW s, MemoryInv(s), GhostFree(s), NEW g \in Groups, NEW u \in Names,
         ~GroupFound(s, g)
  PROVE  GhostFree(GroupCreate(s, g, u))
<1> DEFINE t == GroupCreate(s, g, u)
<1>1. t.users = s.users
  BY DEF GroupCreate
<1>2. \A h \in Groups, v \in Names : IsMember(t, h, v) <=> IsMember(s, h, v)
  <2>1. CASE CanCreateGroup(s, g)
    <3>1. t.groups[g].users = {}
      BY <2>1 DEF MemoryInv, SharedMemory, GroupCreate
    <3> QED
      BY <3>1, OtherGroups DEF IsMember, GroupFound
  <2>2. CASE ~CanCreateGroup(s, g)
    BY <2>2 DEF GroupCreate
  <2> QED
    BY <2>1, <2>2
<1> HIDE DEF t
<1> QED
  BY <1>1, <1>2, SameHomes DEF UserFound, t

\* group_add_user: the new member is connected, and the group is found.
LEMMA GroupAddUserGhostFree ==
  ASSUME NEW s, MemoryInv(s), GhostFree(s), NEW g \in Groups, NEW u \in Names,
         CanJoinGroup(s, g, u)
  PROVE  GhostFree(GroupAddUser(s, g, u))
<1> DEFINE t == GroupAddUser(s, g, u)
<1>1. \A v \in Names : /\ t.users[v].state = s.users[v].state
                       /\ v # u => t.users[v] = s.users[v]
  BY SMT DEF MemoryInv, SharedMemory, Users, GroupAddUser
<1>2. \A h \in Groups, v \in Names :
        IsMember(t, h, v) <=> IsMember(s, h, v) \/ (h = g /\ v = u)
  BY SMT
  DEF MemoryInv, SharedMemory, GroupSlots, GroupAddUser, IsMember, GroupFound,
      CanJoinGroup
<1>3. UserFound(s, u)
  BY DEF CanJoinGroup
<1> HIDE DEF t
<1> QED
  BY <1>1, <1>2, <1>3 DEF GhostFree, AtHome, UserFound, t

\* group_remove_user: a member is connected, so its current_group is cleared.
LEMMA GroupRemoveUserGhostFree ==
  ASSUME NEW s, MemoryInv(s), GhostFree(s), NEW g \in Groups, NEW u \in Names
  PROVE  GhostFree(GroupRemoveUser(s, g, u))
<1> DEFINE t == GroupRemoveUser(s, g, u)
<1>1. CASE IsMember(s, g, u)
  <2>1. UserFound(s, u)
    BY <1>1 DEF GhostFree, AtHome
  <2>2. /\ t.users[u].current_group = NoGroup
        /\ \A v \in Names : /\ t.users[v].state = s.users[v].state
                            /\ v # u => t.users[v] = s.users[v]
    BY <1>1, <2>1, SMT DEF MemoryInv, SharedMemory, Users, GroupRemoveUser
  <2>3. \A h \in Groups, v \in Names :
          IsMember(t, h, v) <=> IsMember(s, h, v) /\ ~(h = g /\ v = u)
    BY <1>1, SMT
    DEF MemoryInv, SharedMemory, GroupSlots, GroupRemoveUser, IsMember,
        GroupFound
  <2> HIDE DEF t
  <2> QED
    BY <2>1, <2>2, <2>3 DEF GhostFree, AtHome, UserFound, t
<1>2. CASE ~IsMember(s, g, u)
  BY <1>2 DEF GroupRemoveUser
<1> QED
  BY <1>1, <1>2

\* group_merge: whose members are all in the first group afterwards.
LEMMA MergeGhostFree ==
  ASSUME TableInv(shm), GhostFree(shm), NEW g1 \in Groups, NEW g2 \in Groups,
         CanMerge(shm, g1, g2), shm' \in GroupMerge(shm, g1, g2)
  PROVE  GhostFree(shm')
<1>1. \A v \in Names : AtHome(shm', v) <=> AtHome(shm, v)
  <2> TAKE v \in Names
  <2>1. ASSUME NEW g \in Groups, IsMember(shm, g, v) PROVE AtHome(shm', v)
    <3>1. CASE g = g1 \/ g = g2
      BY <2>1, <3>1, MergedAreMembers DEF IsMember, AtHome
    <3>2. CASE g # g1 /\ g # g2
      <4>1. shm'.groups[g] = shm.groups[g]
        BY <3>2, MergeOthers DEF TableInv
      <4> QED
        BY <2>1, <4>1 DEF IsMember, GroupFound, AtHome
    <3> QED
      BY <3>1, <3>2
  <2>2. ASSUME NEW g \in Groups, IsMember(shm', g, v) PROVE AtHome(shm, v)
    <3>1. /\ LiveGroups(shm') = LiveGroups(shm) \ {g2}
          /\ MembersOf(shm') = [MembersOf(shm) EXCEPT
                                  ![g1] = @ \cup MembersOf(shm)[g2],
                                  ![g2] = {}]
      BY MergeMap
    <3>2. GroupFound(shm, g) /\ GroupFound(shm, g2)
      BY <2>2, <3>1 DEF LiveGroups, IsMember, CanMerge
    <3>3. v \in MembersOf(shm)[g] \cup MembersOf(shm)[g2]
      BY <2>2, <3>1 DEF MembersOf, IsMember
    <3> QED
      BY <3>2, <3>3 DEF MembersOf, IsMember, AtHome
  <2> QED
    BY <2>1, <2>2 DEF AtHome
<1>2. PICK users  \in Fitting(shm.groups[g1].users, shm.groups[g2].users),
           admins \in Fitting(shm.groups[g1].admins, shm.groups[g2].admins) :
        shm' = MergedWith(shm, g1, g2, users, admins)
  BY DEF GroupMerge
<1>3. \A v \in users : AtHome(shm, v)
  <2>1. users \subseteq shm.groups[g2].users
    BY <1>2, FittingSubset
  <2> QED
    BY <2>1 DEF AtHome, IsMember, CanMerge
<1>4. \A v \in Names :
        /\ UserFound(shm', v) <=> UserFound(shm, v)
        /\ \/ v \in users
           \/ shm'.users[v].current_group = shm.users[v].current_group
  BY <1>2, SMT
  DEF TableInv, MemoryInv, SharedMemory, Users, MergedWith, UserFound
<1> QED
  BY <1>1, <1>3, <1>4 DEF GhostFree

\* Every request.
LEMMA GhostFreeStep ==
  ASSUME TableInv(shm), GhostFree(shm), NEW m \in Requests,
         HandleClientMessage(m)
  PROVE  GhostFree(shm')
<1>1. MemoryInv(shm) /\ m.sender \in Names /\ m.from \in Addrs
  BY RequestType DEF TableInv
<1>2. CASE Join(m)
  <2> DEFINE registered == IF UserFound(shm, m.sender) THEN shm
                           ELSE UserAdd(shm, m.sender, m.from)
             prepared == IF GroupFound(registered, m.group) THEN registered
                         ELSE GroupCreate(registered, m.group, m.sender)
  <2>1. m.group \in Groups
    BY <1>2, RequestType DEF Join
  <2>2. MemoryInv(registered) /\ GhostFree(registered)
    BY <1>1, UserAddInv, UserAddGhostFree
  <2>3. MemoryInv(prepared) /\ GhostFree(prepared)
    BY <1>1, <2>1, <2>2, GroupCreateInv, GroupCreateGhostFree
  <2>4. CanJoinGroup(prepared, m.group, m.sender) =>
          GhostFree(GroupAddUser(prepared, m.group, m.sender))
    BY <1>1, <2>1, <2>3, GroupAddUserGhostFree
  <2> QED
    BY <1>2, <2>3, <2>4 DEF Join
<1>3. CASE Leave(m)
  BY <1>1, <1>3, RequestType, GroupRemoveUserGhostFree DEF Leave
<1>4. CASE ChangeColor(m)
  <2>1. CASE shm' = [users  |-> shm.users,
                     groups |-> [shm.groups EXCEPT ![m.group].color = m.arg]]
    <3>1. /\ shm'.users = shm.users
          /\ \A g \in Groups : /\ shm'.groups[g].state = shm.groups[g].state
                               /\ shm'.groups[g].users = shm.groups[g].users
      BY <1>1, <2>1, SMT DEF MemoryInv, SharedMemory, GroupSlots
    <3> QED
      BY <3>1, SameHomes DEF UserFound, IsMember, GroupFound
  <2> QED
    BY <1>4, <2>1 DEF ChangeColor, Refuse, Ignore
<1>5. CASE CreateGroup(m)
  BY <1>1, <1>5, RequestType, GroupCreateGhostFree
  DEF CreateGroup, Ignore, CanCreateGroup, GroupFound
<1>6. CASE MergeGroups(m)
  BY <1>6, RequestType, MergeGhostFree DEF MergeGroups, Refuse, Ignore
<1>7. ASSUME NEW s, MemoryInv(s), GhostFree(s), NEW g \in Groups,
             NEW u \in Names
      PROVE  GhostFree(GroupAddAdmin(s, g, u)) /\ GhostFree(GroupRemoveAdmin(s, g, u))
  <2> DEFINE t == GroupAddAdmin(s, g, u)
             r == GroupRemoveAdmin(s, g, u)
  <2>1. /\ t.users = s.users /\ r.users = s.users
        /\ \A h \in Groups : /\ t.groups[h].state = s.groups[h].state
                             /\ t.groups[h].users = s.groups[h].users
                             /\ r.groups[h].state = s.groups[h].state
                             /\ r.groups[h].users = s.groups[h].users
    BY <1>7, SMT DEF MemoryInv, SharedMemory, GroupSlots, GroupAddAdmin,
                     GroupRemoveAdmin
  <2> HIDE DEF t, r
  <2>2. GhostFree(t) /\ GhostFree(r)
    BY <1>7, <2>1, SameHomes DEF UserFound, IsMember, GroupFound
  <2> QED
    BY <2>2 DEF t, r
<1>8. CASE KickUser(m) \/ PromoteAdmin(m) \/ DemoteAdmin(m)
  <2>1. m.group \in Groups /\ m.arg \in Names
    BY <1>8, RequestType DEF KickUser, PromoteAdmin, DemoteAdmin
  <2>2. /\ GhostFree(GroupAddAdmin(shm, m.group, m.arg))
        /\ GhostFree(GroupRemoveAdmin(shm, m.group, m.arg))
        /\ MemoryInv(GroupRemoveAdmin(shm, m.group, m.arg))
    BY <1>1, <1>7, <2>1, GroupAdminInv
  <2>3. GhostFree(GroupKickUser(shm, m.group, m.arg))
    BY <2>1, <2>2, GroupRemoveUserGhostFree DEF GroupKickUser
  <2> QED
    BY <1>8, <2>2, <2>3 DEF KickUser, PromoteAdmin, DemoteAdmin, Refuse, Ignore
<1>9. CASE Disconnect(m)
  BY <1>1, <1>9, UserRemoveGhostFree DEF Disconnect
<1>10. CASE Connect(m)
  BY <1>1, <1>10, UserAddGhostFree DEF Connect
<1>11. CASE Public(m) \/ Private(m) \/ ListUsers(m) \/ ListGroups(m)
  BY <1>11 DEF Public, Private, ListUsers, ListGroups, Refuse
<1> QED
  BY <1>2, <1>3, <1>4, <1>5, <1>6, <1>8, <1>9, <1>10, <1>11
  DEF HandleClientMessage

\* As long as the server is up, the memory names no group for a user who is
\* in none, and a user who is not connected is in none.
THEOREM NoGhostsWhileUp ==
  ASSUME Restarts = FALSE
  PROVE  Spec => []NoGhosts
<1>1. Init => TablesInv
  BY InitTables
<1>2. TablesInv /\ [Next]_serverVars => TablesInv'
  BY StepMaps
<1>3. Init => GhostFree(shm)
  BY DEF Init, EmptyMemory, NoUser, NoGroupSlot, GhostFree, AtHome, IsMember,
         GroupFound
<1>4. TablesInv /\ GhostFree(shm) /\ [Next]_serverVars => GhostFree(shm)'
  <2> SUFFICES ASSUME TablesInv, GhostFree(shm), [Next]_serverVars
               PROVE  GhostFree(shm')
    OBVIOUS
  <2>1. CASE UNCHANGED serverVars
    BY <2>1 DEF serverVars
  <2>2. ASSUME NEW m \in Requests, Receive(m)
        PROVE  GhostFree(shm')
    BY <2>2, GhostFreeStep DEF TablesInv, Receive
  <2> QED
    BY <2>1, <2>2 DEF Next, Restart
<1>5. GhostFree(shm) => NoGhosts
  BY DEF GhostFree, AtHome, NoGhosts
<1> QED
  BY <1>1, <1>2, <1>3, <1>4, <1>5, PTL DEF Spec
=============================================================================
