---------------------------- MODULE PromptProofs ----------------------------
(***************************************************************************)
(* What a client shows is true once the network is quiet, and its user is  *)
(* in no other group, for any number of users, processes and groups, and   *)
(* for queues of any length.  The invariant is NoClientDrifts of Prompt,   *)
(* with the types and slots of ChatProofs.                                 *)
(***************************************************************************)
EXTENDS ChatProofs, NoticeProofs

-----------------------------------------------------------------------------
(* What a request does to the memberships of one user.                     *)

Keeps(s, t, u) == \A g \in Groups : IsMember(t, g, u) <=> IsMember(s, g, u)

KeepsButFor(s, t, u, g) ==
    \A h \in Groups : IsMember(t, h, u) <=> IsMember(s, h, u) /\ h # g

\* The groups of u keep their colours.
KeepsColors(s, t, u) ==
    \A g \in Groups :
        IsMember(s, g, u) => t.groups[g].color = s.groups[g].color

\* A user is a member after a join if it was, or if it is its own.
LEMMA JoinMembers ==
  ASSUME MemoryInv(shm), NEW m \in Requests, Join(m), NEW g \in Groups,
         NEW u \in Names, IsMember(shm', g, u)
  PROVE  IsMember(shm, g, u) \/ (u = m.sender /\ g = m.group)
<1> DEFINE v == m.sender
           h == m.group
           registered == IF UserFound(shm, v) THEN shm
                         ELSE UserAdd(shm, v, m.from)
           prepared == IF GroupFound(registered, h) THEN registered
                       ELSE GroupCreate(registered, h, v)
<1>1. v \in Names /\ m.from \in Addrs /\ h \in Groups
  BY RequestType DEF Join
<1>2. MemoryInv(registered)
  BY <1>1, UserAddInv
<1>3. MemoryInv(prepared)
  BY <1>1, <1>2, GroupCreateInv
<1>4. registered.groups = shm.groups
  BY DEF UserAdd
<1>5. IsMember(prepared, g, u) => IsMember(shm, g, u)
  <2>1. CASE GroupFound(registered, h)
    BY <1>4, <2>1 DEF IsMember, GroupFound
  <2>2. CASE ~GroupFound(registered, h) /\ g # h
    <3>1. prepared.groups[g] = registered.groups[g]
      BY <1>1, <1>2, <2>2, OtherGroups
    <3> QED
      BY <1>4, <3>1 DEF IsMember, GroupFound
  <2>3. CASE ~GroupFound(registered, h) /\ g = h
    <3>1. registered.groups \in [Groups -> GroupSlots]
      BY <1>2 DEF MemoryInv, SharedMemory
    <3> HIDE DEF registered
    <3>2. \/ GroupCreate(registered, h, v).groups[h].users = {}
          \/ GroupCreate(registered, h, v) = registered
      BY <1>1, <3>1 DEF GroupCreate
    <3> QED
      BY <2>3, <3>2 DEF IsMember
  <2> QED
    BY <2>1, <2>2, <2>3
<1>6. shm' = GroupAddUser(prepared, h, v) \/ shm' = prepared
  BY DEF Join
<1> HIDE DEF registered, prepared
<1>7. GroupFound(shm', g) <=> GroupFound(prepared, g)
  BY <1>1, <1>3, <1>6, MembershipOnly DEF SameBut, GroupFound
<1>8. CASE g = h
  <2>1. shm'.groups[g].users \subseteq prepared.groups[g].users \cup {v}
    BY <1>1, <1>3, <1>6, <1>8, MembershipOnly DEF SameBut
  <2> QED
    BY <1>5, <1>7, <1>8, <2>1 DEF IsMember
<1>9. CASE g # h
  <2>1. shm'.groups[g].users = prepared.groups[g].users
    BY <1>1, <1>3, <1>6, <1>9, SMT
    DEF MemoryInv, SharedMemory, GroupSlots, GroupAddUser
  <2> QED
    BY <1>5, <1>7, <2>1 DEF IsMember
<1> QED
  BY <1>8, <1>9

\* Users stay where they are, whatever others do, kicks and merges apart;
\* of their own requests only JOIN, LEAVE and DISCONNECT move them.
LEMMA StayingPut ==
  ASSUME MemoryInv(shm), NEW m \in Requests, HandleClientMessage(m),
         NEW u \in Names,
         m.type \notin {"MERGE_GROUPS", "CREATE_GROUP", "KICK_USER",
                        "CHANGE_COLOR"},
         m.sender # u \/ m.type \notin {"JOIN", "LEAVE", "DISCONNECT"}
  PROVE  Keeps(shm, shm', u) /\ KeepsColors(shm, shm', u)
<1>1. m.sender \in Names /\ m.from \in Addrs
  BY RequestType
<1>2. ASSUME \A g \in Groups : SameBut(shm, shm', g, m.sender), m.sender # u
      PROVE  Keeps(shm, shm', u) /\ KeepsColors(shm, shm', u)
  BY <1>2 DEF SameBut, Keeps, KeepsColors, IsMember, GroupFound
<1>3. CASE shm'.groups = shm.groups
  BY <1>3 DEF Keeps, KeepsColors, IsMember, GroupFound
<1>4. CASE Join(m)
  <2>1. ASSUME NEW g \in Groups
        PROVE  IsMember(shm', g, u) => IsMember(shm, g, u)
    BY <1>4, JoinMembers DEF Join
  <2>2. ASSUME NEW g \in Groups, IsMember(shm, g, u)
        PROVE  /\ IsMember(shm', g, u)
               /\ shm'.groups[g].color = shm.groups[g].color
    BY <1>4, <2>2, JoinTouches DEF SameBut, IsMember, GroupFound
  <2> QED
    BY <2>1, <2>2 DEF Keeps, KeepsColors
<1>5. CASE Leave(m)
  BY <1>1, <1>2, <1>5, RequestType, MembershipOnly DEF Leave
<1>6. CASE Disconnect(m)
  BY <1>1, <1>2, <1>6, MembershipOnly DEF Disconnect
<1>7. CASE Connect(m)
  BY <1>3, <1>7 DEF Connect, UserAdd
<1>8. CASE PromoteAdmin(m) \/ DemoteAdmin(m)
  <2>1. m.group \in Groups /\ m.arg \in Names
    BY <1>8, RequestType DEF PromoteAdmin, DemoteAdmin
  <2>2. CASE shm' = shm
    BY <1>3, <2>2
  <2>3. CASE \/ shm' = GroupAddAdmin(shm, m.group, m.arg)
             \/ shm' = GroupRemoveAdmin(shm, m.group, m.arg)
    <3>1. ASSUME NEW g \in Groups
          PROVE  /\ shm'.groups[g].state = shm.groups[g].state
                 /\ shm'.groups[g].users = shm.groups[g].users
                 /\ shm'.groups[g].color = shm.groups[g].color
      <4>1. shm.groups \in [Groups -> GroupSlots]
        BY DEF MemoryInv, SharedMemory
      <4>2. CASE shm' = GroupAddAdmin(shm, m.group, m.arg)
        BY <2>1, <4>1, <4>2 DEF GroupSlots, GroupAddAdmin
      <4>3. CASE shm' = GroupRemoveAdmin(shm, m.group, m.arg)
        BY <2>1, <4>1, <4>3 DEF GroupSlots, GroupRemoveAdmin
      <4> QED
        BY <2>3, <4>2, <4>3
    <3> QED
      BY <3>1 DEF Keeps, KeepsColors, IsMember, GroupFound
  <2> QED
    BY <1>8, <2>2, <2>3 DEF PromoteAdmin, DemoteAdmin, Refuse, Ignore
<1>9. CASE Public(m) \/ Private(m) \/ ListUsers(m) \/ ListGroups(m)
  BY <1>3, <1>9 DEF Public, Private, ListUsers, ListGroups, Refuse
<1> QED
  BY <1>4, <1>5, <1>6, <1>7, <1>8, <1>9
  DEF HandleClientMessage, ChangeColor, CreateGroup, MergeGroups, KickUser

\* Leaving a group.
LEMMA RemovedFrom ==
  ASSUME NEW s, MemoryInv(s), NEW g \in Groups, NEW u \in Names
  PROVE  LET t == GroupRemoveUser(s, g, u)
         IN  KeepsButFor(s, t, u, g) /\ KeepsColors(s, t, u)
<1> DEFINE t == GroupRemoveUser(s, g, u)
<1>1. KeepsColors(s, t, u)
  BY MembershipOnly DEF SameBut, KeepsColors
<1>2. ASSUME NEW h \in Groups
      PROVE  GroupFound(t, h) <=> GroupFound(s, h)
  BY MembershipOnly DEF SameBut, GroupFound
<1>3. ASSUME NEW h \in Groups \ {g}
      PROVE  t.groups[h] = s.groups[h]
  BY OtherGroups
<1>4. IsMember(s, g, u) => u \notin t.groups[g].users
  BY SMT DEF MemoryInv, SharedMemory, GroupSlots, GroupRemoveUser
<1>5. ~IsMember(s, g, u) => t = s
  BY DEF GroupRemoveUser
<1> HIDE DEF t
<1> QED
  BY <1>1, <1>2, <1>3, <1>4, <1>5 DEF KeepsButFor, IsMember, t

\* A kick takes its victim out of the group, or nobody.
LEMMA KickMembers ==
  ASSUME MemoryInv(shm), NEW m \in Requests, KickUser(m), NEW u \in Names
  PROVE  /\ KeepsColors(shm, shm', u)
         /\ IF /\ IsAdmin(shm, m.group, m.sender) /\ m.sender # u
               /\ u = m.arg /\ IsMember(shm, m.group, u)
            THEN KeepsButFor(shm, shm', u, m.group)
            ELSE Keeps(shm, shm', u)
<1>1. m.group \in Groups /\ m.arg \in Names
  BY RequestType DEF KickUser
<1> DEFINE s == GroupRemoveAdmin(shm, m.group, m.arg)
           t == GroupRemoveUser(s, m.group, m.arg)
<1>2. MemoryInv(s)
  BY <1>1, GroupAdminInv
<1>3. \A g \in Groups : /\ s.groups[g].state = shm.groups[g].state
                        /\ s.groups[g].users = shm.groups[g].users
                        /\ s.groups[g].color = shm.groups[g].color
  BY <1>1, SMT DEF MemoryInv, SharedMemory, GroupSlots, GroupRemoveAdmin
<1> HIDE DEF s
<1>4. \A g \in Groups : IsMember(s, g, u) <=> IsMember(shm, g, u)
  BY <1>3 DEF IsMember, GroupFound
<1>5. CASE shm' = shm
  <2>1. ~(/\ IsAdmin(shm, m.group, m.sender) /\ m.sender # u
          /\ u = m.arg /\ IsMember(shm, m.group, u))
         \/ shm' = t
    BY DEF KickUser, IsAdmin, GroupKickUser, s
  <2>2. CASE shm' = t /\ u = m.arg
    BY <1>1, <1>2, <1>3, <1>4, <1>5, <2>2, RemovedFrom
    DEF KeepsButFor, Keeps, KeepsColors, IsMember
  <2> QED
    BY <1>5, <2>1, <2>2 DEF Keeps, KeepsColors
<1>6. CASE shm' = t /\ IsAdmin(shm, m.group, m.sender) /\ m.arg # m.sender
  <2>1. CASE u = m.arg
    <3>1. KeepsButFor(s, shm', u, m.group) /\ KeepsColors(s, shm', u)
      BY <1>1, <1>2, <1>6, <2>1, RemovedFrom
    <3> QED
      BY <1>3, <1>4, <1>6, <2>1, <3>1 DEF KeepsButFor, Keeps, KeepsColors
  <2>2. CASE u # m.arg
    <3>1. \A g \in Groups : SameBut(s, t, g, m.arg)
      BY <1>1, <1>2, MembershipOnly
    <3> QED
      BY <1>3, <1>6, <2>2, <3>1
      DEF SameBut, Keeps, KeepsColors, IsMember, GroupFound
  <2> QED
    BY <2>1, <2>2
<1> QED
  BY <1>5, <1>6 DEF KickUser, Refuse, Ignore, GroupKickUser, s

\* A change of colour, when it is accepted, is one for all members.
LEMMA ColorMembers ==
  ASSUME MemoryInv(shm), NEW m \in Requests, ChangeColor(m), NEW u \in Names
  PROVE  /\ Keeps(shm, shm', u)
         /\ \A g \in Groups :
              shm'.groups[g].color =
                IF IsAdmin(shm, m.group, m.sender) /\ g = m.group
                THEN m.arg ELSE shm.groups[g].color
<1>1. m.group \in Groups
  BY RequestType DEF ChangeColor
<1>2. CASE shm' = shm /\ ~IsAdmin(shm, m.group, m.sender)
  BY <1>2 DEF Keeps
<1>3. CASE /\ IsAdmin(shm, m.group, m.sender)
           /\ shm' = [users  |-> shm.users,
                      groups |-> [shm.groups EXCEPT ![m.group].color = m.arg]]
  <2>1. ASSUME NEW g \in Groups
        PROVE  /\ shm'.groups[g].state = shm.groups[g].state
               /\ shm'.groups[g].users = shm.groups[g].users
               /\ shm'.groups[g].color = IF g = m.group THEN m.arg
                                         ELSE shm.groups[g].color
    BY <1>1, <1>3, SMT DEF MemoryInv, SharedMemory, GroupSlots
  <2> QED
    BY <1>3, <2>1 DEF Keeps, IsMember, GroupFound
<1> QED
  BY <1>2, <1>3 DEF ChangeColor, Refuse, Ignore, IsAdmin

-----------------------------------------------------------------------------
(* What a client with a slot learns of it.                                 *)

Silent == {"CONNECT_ACK", "LIST_USERS_RESPONSE", "LIST_GROUPS_RESPONSE"}

Unaffected(c) ==
    /\ Keeps(shm, shm', NameOf[c]) /\ KeepsColors(shm, shm', NameOf[c])
    /\ \A d \in Arriving(sent', c) : d.type \in Silent

Evicted(c, g) ==
    /\ IsMember(shm, g, NameOf[c])
    /\ KeepsButFor(shm, shm', NameOf[c], g)
    /\ KeepsColors(shm, shm', NameOf[c])
    /\ \E d : Arriving(sent', c) = {d} /\ d.type = "LEAVE"

Recoloured(c, g) ==
    /\ IsMember(shm, g, NameOf[c])
    /\ Keeps(shm, shm', NameOf[c])
    /\ \A h \in Groups \ {g} : shm'.groups[h].color = shm.groups[h].color
    /\ \E d : /\ Arriving(sent', c) = {d} /\ d.type = "CHANGE_COLOR"
              /\ d.content = shm'.groups[g].color

\* What happens to a user is what its client hears of, the user's own joins
\* and leaves apart.
LEMMA Outcome ==
  ASSUME Serveur \notin Names,
         MemoryInv(shm), MemoryInv(shm'), OwnAddrs(shm), OwnAddrs(shm'),
         NEW m \in Requests, HandleClientMessage(m),
         m.type \notin {"MERGE_GROUPS", "CREATE_GROUP"},
         NEW c \in Addrs, HasSlot(shm, c), HasSlot(shm', c),
         m.sender # NameOf[c] \/ m.type \notin {"JOIN", "LEAVE", "DISCONNECT"}
  PROVE  \/ Unaffected(c)
         \/ \E g \in Groups : Evicted(c, g) \/ Recoloured(c, g)
<1> DEFINE u == NameOf[c]
<1>1. u \in Names /\ m.sender \in Names /\ m.sender # Serveur
  BY AddrsAssumption, RequestType
<1>2. CASE Join(m)
  <2>1. Keeps(shm, shm', u) /\ KeepsColors(shm, shm', u)
    BY <1>1, <1>2, StayingPut DEF Join
  <2>2. m.sender # u
    BY <1>2 DEF Join
  <2>3. Arriving(sent', c) = {}
    BY <1>2, <2>2, JoinArrives DEF Only
  <2> QED
    BY <2>1, <2>3 DEF Unaffected
<1>3. CASE ~Join(m)
  <2>1. Arriving(sent', c) = News(m, c)
    BY <1>3, NewsArrive
  <2>2. CASE m.type = "KICK_USER"
    <3>1. KickUser(m) /\ m.group \in Groups
      BY <2>2, RequestType
      DEF HandleClientMessage, Join, Leave, Public, Private, ChangeColor,
          CreateGroup, MergeGroups, PromoteAdmin, DemoteAdmin, Disconnect,
          Connect, ListUsers, ListGroups
    <3>2. CASE /\ IsAdmin(shm, m.group, m.sender) /\ m.sender # u
               /\ u = m.arg /\ IsMember(shm, m.group, u)
      <4>1. Arriving(sent', c) =
              {Datagram(c, "LEAVE", Serveur, m.group, Nothing)}
        BY <2>1, <2>2, <3>2 DEF News, Only
      <4>2. Datagram(c, "LEAVE", Serveur, m.group, Nothing).type = "LEAVE"
        BY DEF Datagram
      <4> QED
        BY <1>1, <3>1, <3>2, <4>1, <4>2, KickMembers DEF Evicted
    <3>3. CASE ~(/\ IsAdmin(shm, m.group, m.sender) /\ m.sender # u
                 /\ u = m.arg /\ IsMember(shm, m.group, u))
      <4>1. Arriving(sent', c) = {}
        BY <2>1, <2>2, <3>3 DEF News, Only
      <4> QED
        BY <1>1, <3>1, <3>3, <4>1, KickMembers DEF Unaffected
    <3> QED
      BY <3>2, <3>3
  <2>3. CASE m.type = "CHANGE_COLOR"
    <3>1. ChangeColor(m) /\ m.group \in Groups
      BY <2>3, RequestType
      DEF HandleClientMessage, Join, Leave, Public, Private, KickUser,
          CreateGroup, MergeGroups, PromoteAdmin, DemoteAdmin, Disconnect,
          Connect, ListUsers, ListGroups
    <3> DEFINE d == Datagram(c, "CHANGE_COLOR", m.sender, m.group, m.arg)
    <3>2. CASE IsAdmin(shm, m.group, m.sender) /\ IsMember(shm, m.group, u)
      <4>1. Arriving(sent', c) = {d}
        BY <2>1, <2>3, <3>2 DEF News, Only
      <4>2. d.type = "CHANGE_COLOR" /\ d.content = m.arg
        BY DEF Datagram
      <4> HIDE DEF d
      <4>3. /\ Keeps(shm, shm', u)
            /\ shm'.groups[m.group].color = m.arg
            /\ \A h \in Groups \ {m.group} :
                 shm'.groups[h].color = shm.groups[h].color
        BY <1>1, <3>1, <3>2, ColorMembers
      <4> QED
        BY <3>1, <3>2, <4>1, <4>2, <4>3 DEF Recoloured
    <3>3. CASE ~(IsAdmin(shm, m.group, m.sender) /\ IsMember(shm, m.group, u))
      <4>1. Arriving(sent', c) = {}
        BY <2>1, <2>3, <3>3 DEF News, Only
      <4>2. Keeps(shm, shm', u) /\ KeepsColors(shm, shm', u)
        BY <1>1, <3>1, <3>3, ColorMembers DEF KeepsColors
      <4> QED
        BY <4>1, <4>2 DEF Unaffected
    <3> QED
      BY <3>2, <3>3
  <2>4. CASE m.type \notin {"KICK_USER", "CHANGE_COLOR"}
    <3>1. Keeps(shm, shm', u) /\ KeepsColors(shm, shm', u)
      BY <1>1, <2>4, StayingPut
    <3>2. \A d \in News(m, c) : d.type \in Silent
      BY <1>1, <2>4 DEF News, Only, Datagram, Silent
    <3> QED
      BY <2>1, <3>1, <3>2 DEF Unaffected
  <2> QED
    BY <2>2, <2>3, <2>4
<1> QED
  BY <1>2, <1>3

\* The user's own leave.
LEMMA OwnLeave ==
  ASSUME Serveur \notin Names,
         MemoryInv(shm), MemoryInv(shm'), OwnAddrs(shm), OwnAddrs(shm'),
         NEW m \in Requests, HandleClientMessage(m), m.type = "LEAVE",
         NEW c \in Addrs, m.sender = NameOf[c]
  PROVE  /\ KeepsButFor(shm, shm', NameOf[c], m.group)
         /\ Arriving(sent', c) = {}
<1>1. Leave(m)
  BY DEF HandleClientMessage, Join, ChangeColor, Public, Private, KickUser,
         CreateGroup, MergeGroups, PromoteAdmin, DemoteAdmin, Disconnect,
         Connect, ListUsers, ListGroups
<1>2. m.group \in Groups /\ m.sender \in Names
  BY RequestType
<1>3. KeepsButFor(shm, shm', NameOf[c], m.group)
  BY <1>1, <1>2, RemovedFrom DEF Leave
<1>4. Arriving(sent', c) = News(m, c)
  BY NewsArrive DEF Join
<1> QED
  BY <1>2, <1>3, <1>4 DEF News, Only

\* The user's own join, when there is a slot for every group.
LEMMA OwnJoin ==
  ASSUME Cardinality(Groups) <= MaxGroups,
         TableInv(shm), MemoryInv(shm'), OwnAddrs(shm'),
         NEW m \in Requests, Join(m),
         NEW c \in Addrs, m.sender = NameOf[c],
         ~IsMember(shm, m.group, NameOf[c]),
         HasSlot(shm, c), HasSlot(shm', c)
  PROVE  /\ IsMember(shm', m.group, NameOf[c])
         /\ \A h \in Groups : IsMember(shm', h, NameOf[c]) =>
                                IsMember(shm, h, NameOf[c]) \/ h = m.group
         /\ Arriving(sent', c) =
              {Datagram(c, "JOIN", NameOf[c], m.group,
                        shm'.groups[m.group].color)}
<1> DEFINE u == NameOf[c]
           g == m.group
<1>1. MemoryInv(shm) /\ u \in Names /\ g \in Groups
  BY AddrsAssumption, RequestType DEF TableInv, Join
<1>2. \A h \in Groups : IsMember(shm', h, u) => IsMember(shm, h, u) \/ h = g
  BY <1>1, JoinMembers
<1>3. IsMember(shm', g, u)
  <2>1. JoinedOrFull(g, u)
    BY JoinOutcome
  <2>2. shm.users[u].state # "absent"
    BY DEF HasSlot, UserFound
  <2>3. CASE shm.groups[g].state = "absent"
    <3>1. /\ GroupSlotsUsed(shm) \subseteq Groups \ {g}
      BY <2>3 DEF GroupSlotsUsed
    <3>2. /\ IsFiniteSet(Groups \ {g})
          /\ Cardinality(Groups \ {g}) = Cardinality(Groups) - 1
      BY <1>1, GroupsAssumption, FS_RemoveElement
    <3>3. Cardinality(GroupSlotsUsed(shm)) <= Cardinality(Groups) - 1
      BY <3>1, <3>2, FS_Subset
    <3>4. /\ Cardinality(Groups) \in Nat
          /\ Cardinality(GroupSlotsUsed(shm)) \in Nat
          /\ MaxGroups \in Nat
      BY <3>1, <3>2, GroupsAssumption, FS_Subset, FS_CardinalityType,
         LimitsAssumption
    <3>5. Cardinality(GroupSlotsUsed(shm)) # MaxGroups
      BY <3>3, <3>4
    <3> QED
      BY <2>1, <2>2, <3>5 DEF JoinedOrFull
  <2> QED
    BY <2>1, <2>2, <2>3 DEF JoinedOrFull
<1>4. Arriving(sent', c) =
        {Datagram(c, "JOIN", u, g, shm'.groups[g].color)}
  BY <1>1, <1>3, JoinArrives DEF Only, TableInv
<1> QED
  BY <1>2, <1>3, <1>4

-----------------------------------------------------------------------------
(* Queues.                                                                 *)

\* r is queue q without its head; r is q with d at its end.
Rest(q, r) ==
    /\ Len(q) \in Nat /\ Len(r) \in Nat /\ Len(q) = Len(r) + 1
    /\ \A j \in 1 .. Len(r) : r[j] = q[j + 1]

Longer(q, r, d) ==
    /\ Len(q) \in Nat /\ Len(r) \in Nat /\ Len(r) = Len(q) + 1
    /\ \A j \in 1 .. Len(q) : r[j] = q[j]
    /\ r[Len(r)] = d

\* Receiving, in order.
LEMMA RestOfQueue ==
  ASSUME NEW S, NEW q \in Seq(S), NEW i \in Arrivable(q), ~Unreliable
  PROVE  i = 1 /\ Rest(q, RemoveAt(q, i))
<1>1. i = 1 /\ i \in 1 .. Len(q) /\ Len(q) \in Nat
  BY DEF Arrivable
<1>2. /\ RemoveAt(q, i) \in Seq(S)
      /\ Len(RemoveAt(q, i)) = Len(q) - 1
      /\ \A j \in 1 .. Len(q) - 1 :
           RemoveAt(q, i)[j] = IF j < i THEN q[j] ELSE q[j + 1]
  BY <1>1, RemoveAtQueue
<1> DEFINE r == RemoveAt(q, i)
<1> HIDE DEF r
<1>3. r \in Seq(S) /\ Len(r) = Len(q) - 1
  BY <1>2 DEF r
<1>4. \A j \in 1 .. Len(q) - 1 : r[j] = q[j + 1]
  BY <1>1, <1>2 DEF r
<1>5. Rest(q, r)
  BY <1>1, <1>3, <1>4 DEF Rest
<1> QED
  BY <1>1, <1>5 DEF r

\* Sending.
LEMMA LongerQueue ==
  ASSUME NEW S, NEW q \in Seq(S), NEW d
  PROVE  Longer(q, Append(q, d), d) /\ Longer(q, q \o <<d>>, d)
<1>1. q \o <<d>> = Append(q, d)
  OBVIOUS
<1>2. Longer(q, Append(q, d), d)
  BY DEF Longer
<1> QED
  BY <1>1, <1>2

LEMMA HasRest ==
  ASSUME NEW q, NEW r, Rest(q, r), NEW type
  PROVE  Has(q, type) <=> Has(r, type) \/ q[1].type = type
<1>1. ASSUME Has(q, type)
      PROVE  Has(r, type) \/ q[1].type = type
  <2>1. PICK i \in 1 .. Len(q) : q[i].type = type
    BY <1>1 DEF Has
  <2>2. CASE i = 1
    BY <2>1, <2>2
  <2>3. CASE i # 1
    <3>1. i - 1 \in 1 .. Len(r) /\ (i - 1) + 1 = i
      BY <2>3 DEF Rest
    <3> QED
      BY <2>1, <3>1 DEF Rest, Has
  <2> QED
    BY <2>2, <2>3
<1>2. ASSUME Has(r, type)
      PROVE  Has(q, type)
  <2>1. PICK i \in 1 .. Len(r) : r[i].type = type
    BY <1>2 DEF Has
  <2>2. i + 1 \in 1 .. Len(q) /\ q[i + 1] = r[i]
    BY DEF Rest
  <2> QED
    BY <2>1, <2>2 DEF Has
<1>3. 1 \in 1 .. Len(q)
  BY DEF Rest
<1> QED
  BY <1>1, <1>2, <1>3 DEF Has

LEMMA HasLonger ==
  ASSUME NEW q, NEW r, NEW d, Longer(q, r, d), NEW type
  PROVE  Has(r, type) <=> Has(q, type) \/ d.type = type
<1>1. /\ \A i \in 1 .. Len(r) : i \in 1 .. Len(q) \/ i = Len(r)
      /\ 1 .. Len(q) \subseteq 1 .. Len(r) /\ Len(r) \in 1 .. Len(r)
  BY DEF Longer
<1> QED
  BY <1>1 DEF Longer, Has

\* Requests to leave are added, and served.
LEMMA WillLeaveLonger ==
  ASSUME NEW s, NEW u, NEW q, NEW r, NEW d, Longer(q, r, d),
         WillLeave(s, u, q)
  PROVE  WillLeave(s, u, r)
<1>1. 1 .. Len(q) \subseteq 1 .. Len(r) /\ \A i \in 1 .. Len(q) : r[i] = q[i]
  BY DEF Longer
<1> QED
  BY <1>1 DEF WillLeave

LEMMA WillLeaveRest ==
  ASSUME NEW s, NEW t, NEW u, NEW q, NEW r, Rest(q, r), WillLeave(s, u, q),
         \A g \in Groups : IsMember(t, g, u) =>
            IsMember(s, g, u) /\ ~(q[1].type = "LEAVE" /\ q[1].group = g)
  PROVE  WillLeave(t, u, r)
<1> SUFFICES ASSUME NEW g \in Groups, IsMember(t, g, u)
             PROVE  \E i \in 1 .. Len(r) : r[i].type = "LEAVE" /\ r[i].group = g
  BY DEF WillLeave
<1>1. PICK i \in 1 .. Len(q) : q[i].type = "LEAVE" /\ q[i].group = g
  BY DEF WillLeave
<1>2. i # 1
  BY <1>1
<1>3. i - 1 \in 1 .. Len(r) /\ (i - 1) + 1 = i
  BY <1>2 DEF Rest
<1>4. r[i - 1] = q[i]
  BY <1>3 DEF Rest
<1> QED
  BY <1>1, <1>3, <1>4

-----------------------------------------------------------------------------
(* The news that a client still has to read.                               *)

\* The head of an inbox is read.
LEMMA EndsWithRest ==
  ASSUME NEW q, NEW r, Rest(q, r), NEW k \in 1 .. Len(q), NEW x, NEW y,
         EndsWith(q, k, x, y)
  PROVE  EndsWith(r, k - 1, x, y)
<1>1. /\ Len(q) \in Nat /\ Len(r) \in Nat /\ Len(q) = Len(r) + 1 /\ k \in Nat
      /\ \A j \in 1 .. Len(r) : j + 1 \in 1 .. Len(q) /\ r[j] = q[j + 1]
  BY DEF Rest
<1>2. CASE /\ x = y
           /\ \A i \in k + 1 .. Len(q) : q[i].type # "CHANGE_COLOR"
  <2>1. ASSUME NEW i \in (k - 1) + 1 .. Len(r)
        PROVE  r[i].type # "CHANGE_COLOR"
    <3>1. i + 1 \in k + 1 .. Len(q) /\ i \in 1 .. Len(r)
      BY <1>1
    <3> QED
      BY <1>1, <1>2, <3>1
  <2> QED
    BY <1>2, <2>1 DEF EndsWith
<1>3. CASE \E i \in k + 1 .. Len(q) :
             /\ q[i].type = "CHANGE_COLOR" /\ q[i].content = y
             /\ \A j \in i + 1 .. Len(q) : q[j].type # "CHANGE_COLOR"
  <2>1. PICK i \in k + 1 .. Len(q) :
             /\ q[i].type = "CHANGE_COLOR" /\ q[i].content = y
             /\ \A j \in i + 1 .. Len(q) : q[j].type # "CHANGE_COLOR"
    BY <1>3
  <2> DEFINE h == i - 1
  <2>2. /\ h \in (k - 1) + 1 .. Len(r) /\ h \in 1 .. Len(r) /\ h + 1 = i
    BY <1>1
  <2> HIDE DEF h
  <2>3. r[h] = q[i]
    BY <1>1, <2>2
  <2>4. ASSUME NEW j \in h + 1 .. Len(r)
        PROVE  r[j].type # "CHANGE_COLOR"
    <3>1. j + 1 \in i + 1 .. Len(q) /\ j \in 1 .. Len(r)
      BY <1>1, <2>2
    <3> QED
      BY <1>1, <2>1, <3>1
  <2> QED
    BY <2>1, <2>2, <2>3, <2>4 DEF EndsWith
<1> QED
  BY <1>2, <1>3 DEF EndsWith

LEMMA SettlesRest ==
  ASSUME NEW q, NEW r, Rest(q, r), NEW k \in 1 .. Len(q), NEW s, NEW u,
         NEW g, NEW x, Settles(s, u, q, k, g, x)
  PROVE  Settles(s, u, r, k - 1, g, x)
<1>1. /\ Len(q) \in Nat /\ Len(r) \in Nat /\ Len(q) = Len(r) + 1 /\ k \in Nat
      /\ \A j \in 1 .. Len(r) : j + 1 \in 1 .. Len(q) /\ r[j] = q[j + 1]
  BY DEF Rest
<1>2. CASE IsMember(s, g, u)
  <2>1. /\ \A i \in k + 1 .. Len(q) : q[i].type # "LEAVE"
        /\ EndsWith(q, k, x, s.groups[g].color)
    BY <1>2 DEF Settles
  <2>2. EndsWith(r, k - 1, x, s.groups[g].color)
    BY <2>1, EndsWithRest
  <2>3. ASSUME NEW i \in (k - 1) + 1 .. Len(r)
        PROVE  r[i].type # "LEAVE"
    <3>1. i + 1 \in k + 1 .. Len(q) /\ i \in 1 .. Len(r)
      BY <1>1
    <3> QED
      BY <1>1, <2>1, <3>1
  <2> QED
    BY <1>2, <2>2, <2>3 DEF Settles
<1>3. CASE ~IsMember(s, g, u)
  <2>1. PICK i \in k + 1 .. Len(q) : q[i].type = "LEAVE"
    BY <1>3 DEF Settles
  <2> DEFINE h == i - 1
  <2>2. h \in (k - 1) + 1 .. Len(r) /\ h \in 1 .. Len(r) /\ h + 1 = i
    BY <1>1
  <2> HIDE DEF h
  <2>3. r[h].type = "LEAVE"
    BY <1>1, <2>1, <2>2
  <2> QED
    BY <1>3, <2>2, <2>3 DEF Settles
<1> QED
  BY <1>2, <1>3

LEMMA SettlesRead ==
  ASSUME NEW q, NEW r, Rest(q, r), NEW s, NEW u, NEW g, NEW x,
         Settles(s, u, q, 0, g, x)
  PROVE  /\ q[1].type = "LEAVE" => \A h \in Groups : ~IsMember(s, h, u)
         /\ q[1].type = "CHANGE_COLOR" => Settles(s, u, r, 0, g, q[1].content)
         /\ q[1].type \notin {"LEAVE", "CHANGE_COLOR"} =>
              Settles(s, u, r, 0, g, x)
<1>1. /\ Len(q) \in Nat /\ 1 \in 1 .. Len(q) /\ 0 + 1 = 1 /\ 1 - 1 = 0
      /\ \A i \in 1 .. Len(q) : i = 1 \/ i \in 1 + 1 .. Len(q)
      /\ 1 + 1 .. Len(q) \subseteq 1 .. Len(q)
  BY DEF Rest
<1>2. q[1].type = "LEAVE" => \A h \in Groups : ~IsMember(s, h, u)
  BY <1>1 DEF Settles
<1>3. ASSUME q[1].type # "LEAVE", NEW y,
             \A z : EndsWith(q, 0, x, z) => EndsWith(q, 1, y, z)
      PROVE  Settles(s, u, r, 0, g, y)
  <2>1. Settles(s, u, q, 1, g, y)
    BY <1>1, <1>3 DEF Settles
  <2> QED
    BY <1>1, <2>1, SettlesRest
<1>4. CASE q[1].type = "CHANGE_COLOR"
  <2>1. ASSUME NEW z, EndsWith(q, 0, x, z)
        PROVE  EndsWith(q, 1, q[1].content, z)
    <3>1. PICK i \in 0 + 1 .. Len(q) :
            /\ q[i].type = "CHANGE_COLOR" /\ q[i].content = z
            /\ \A j \in i + 1 .. Len(q) : q[j].type # "CHANGE_COLOR"
      BY <1>1, <1>4, <2>1 DEF EndsWith
    <3> QED
      BY <1>1, <3>1 DEF EndsWith
  <2> QED
    BY <1>2, <1>3, <1>4, <2>1
<1>5. CASE q[1].type \notin {"LEAVE", "CHANGE_COLOR"}
  <2>1. ASSUME NEW z, EndsWith(q, 0, x, z)
        PROVE  EndsWith(q, 1, x, z)
    BY <1>1, <1>5, <2>1 DEF EndsWith
  <2> QED
    BY <1>2, <1>3, <1>5, <2>1
<1> QED
  BY <1>2, <1>4, <1>5

\* A datagram is added that concerns neither the group nor its colour.
LEMMA SettlesSilent ==
  ASSUME NEW q, NEW r, NEW d, Longer(q, r, d), d.type \in Silent,
         NEW k \in 0 .. Len(q), NEW s, NEW t, NEW u, NEW g \in Groups, NEW x,
         Keeps(s, t, u), KeepsColors(s, t, u), Settles(s, u, q, k, g, x)
  PROVE  Settles(t, u, r, k, g, x)
<1>1. d.type # "LEAVE" /\ d.type # "CHANGE_COLOR"
  BY DEF Silent
<1>2. /\ Len(q) \in Nat /\ Len(r) = Len(q) + 1 /\ k \in Nat
      /\ \A i \in 1 .. Len(q) : r[i] = q[i]
      /\ r[Len(r)] = d
  BY DEF Longer
<1>3. ASSUME NEW i \in Nat, i >= 1
      PROVE  /\ i .. Len(q) \subseteq i .. Len(r)
             /\ \A j \in i .. Len(r) : j \in i .. Len(q) \/ j = Len(r)
             /\ \A j \in i .. Len(q) : r[j] = q[j]
  BY <1>2, <1>3
<1>4. \A y : EndsWith(q, k, x, y) => EndsWith(r, k, x, y)
  <2> SUFFICES ASSUME NEW y, EndsWith(q, k, x, y)
               PROVE  EndsWith(r, k, x, y)
    OBVIOUS
  <2>1. k + 1 \in Nat /\ k + 1 >= 1
    BY <1>2
  <2>2. CASE /\ x = y
             /\ \A i \in k + 1 .. Len(q) : q[i].type # "CHANGE_COLOR"
    BY <1>1, <1>2, <1>3, <2>1, <2>2 DEF EndsWith
  <2>3. CASE \E i \in k + 1 .. Len(q) :
               /\ q[i].type = "CHANGE_COLOR" /\ q[i].content = y
               /\ \A j \in i + 1 .. Len(q) : q[j].type # "CHANGE_COLOR"
    <3>1. PICK i \in k + 1 .. Len(q) :
               /\ q[i].type = "CHANGE_COLOR" /\ q[i].content = y
               /\ \A j \in i + 1 .. Len(q) : q[j].type # "CHANGE_COLOR"
      BY <2>3
    <3>2. i + 1 \in Nat /\ i + 1 >= 1
      BY <2>1
    <3>3. \A j \in i + 1 .. Len(r) : r[j].type # "CHANGE_COLOR"
      BY <1>1, <1>2, <1>3, <3>1, <3>2
    <3>4. i \in k + 1 .. Len(r) /\ r[i] = q[i]
      BY <1>3, <2>1
    <3> QED
      BY <3>1, <3>3, <3>4 DEF EndsWith
  <2> QED
    BY <2>2, <2>3 DEF EndsWith
<1>5. k + 1 \in Nat /\ k + 1 >= 1
  BY <1>2
<1>6. CASE IsMember(s, g, u)
  <2>1. IsMember(t, g, u) /\ t.groups[g].color = s.groups[g].color
    BY <1>6 DEF Keeps, KeepsColors
  <2>2. \A i \in k + 1 .. Len(r) : r[i].type # "LEAVE"
    BY <1>1, <1>2, <1>3, <1>5, <1>6 DEF Settles
  <2> QED
    BY <1>4, <1>6, <2>1, <2>2 DEF Settles, Keeps
<1>7. CASE ~IsMember(s, g, u)
  <2>1. PICK i \in k + 1 .. Len(q) : q[i].type = "LEAVE"
    BY <1>7 DEF Settles
  <2>2. i \in k + 1 .. Len(r) /\ r[i].type = "LEAVE"
    BY <1>3, <1>5, <2>1
  <2> QED
    BY <1>7, <2>2 DEF Settles, Keeps
<1> QED
  BY <1>6, <1>7

\* None is added.
LEMMA SettlesSame ==
  ASSUME NEW q, NEW k, NEW s, NEW t, NEW u, NEW g \in Groups, NEW x,
         Keeps(s, t, u), KeepsColors(s, t, u), Settles(s, u, q, k, g, x)
  PROVE  Settles(t, u, q, k, g, x)
  BY DEF Settles, Keeps, KeepsColors

\* The user is kicked, or its group gets another colour.
LEMMA SettlesEvicted ==
  ASSUME NEW q, NEW r, NEW d, Longer(q, r, d), d.type = "LEAVE",
         NEW k \in 0 .. Len(q), NEW s, NEW t, NEW u, NEW g \in Groups, NEW x,
         NEW h \in Groups, IsMember(s, h, u), KeepsButFor(s, t, u, h),
         Settles(s, u, q, k, g, x)
  PROVE  Settles(t, u, r, k, g, x)
<1>1. h = g
  BY DEF Settles
<1>2. \A f \in Groups : ~IsMember(t, f, u)
  BY <1>1 DEF KeepsButFor, Settles
<1>3. Len(r) \in k + 1 .. Len(r) /\ r[Len(r)].type = "LEAVE"
  BY DEF Longer
<1> QED
  BY <1>2, <1>3 DEF Settles

LEMMA SettlesRecoloured ==
  ASSUME NEW q, NEW r, NEW d, Longer(q, r, d), d.type = "CHANGE_COLOR",
         NEW k \in 0 .. Len(q), NEW s, NEW t, NEW u, NEW g \in Groups, NEW x,
         NEW h \in Groups, IsMember(s, h, u), Keeps(s, t, u),
         d.content = t.groups[h].color, Settles(s, u, q, k, g, x)
  PROVE  Settles(t, u, r, k, g, x)
<1>1. h = g /\ IsMember(t, g, u)
  BY DEF Settles, Keeps
<1>2. /\ Len(q) \in Nat /\ Len(r) = Len(q) + 1 /\ k \in Nat
      /\ \A i \in 1 .. Len(q) : r[i] = q[i]
      /\ r[Len(r)] = d
  BY DEF Longer
<1>3. /\ Len(r) \in k + 1 .. Len(r)
      /\ \A j \in k + 1 .. Len(r) : j \in k + 1 .. Len(q) \/ j = Len(r)
      /\ \A j \in k + 1 .. Len(q) : r[j] = q[j]
      /\ Len(r) + 1 .. Len(r) = {}
  BY <1>2
<1>4. EndsWith(r, k, x, t.groups[g].color)
  BY <1>1, <1>2, <1>3 DEF EndsWith
<1>5. \A i \in k + 1 .. Len(r) : r[i].type # "LEAVE"
  BY <1>1, <1>2, <1>3 DEF Settles
<1> QED
  BY <1>1, <1>4, <1>5 DEF Settles, Keeps

\* The user has just joined.
LEMMA SettlesAtOnce ==
  ASSUME NEW q, Len(q) \in Nat, NEW s, NEW u, NEW g, IsMember(s, g, u),
         \A h \in Groups : IsMember(s, h, u) => h = g
  PROVE  Settles(s, u, q, Len(q), g, s.groups[g].color)
<1>1. Len(q) + 1 .. Len(q) = {}
  OBVIOUS
<1> QED
  BY <1>1 DEF Settles, EndsWith

-----------------------------------------------------------------------------
(* A turn of the server.                                                   *)

PromptInv ==
    /\ ChatTypeInv /\ ChatInv
    /\ TablesInv /\ GhostFree(shm)
    /\ NoClientDrifts

\* A prefix of one request is served, and the answers are delivered.
Turn(c, m) ==
    /\ m \in Requests /\ m.from = c /\ m.sender = NameOf[c]
    /\ HandleClientMessage(m)
    /\ m.type \notin {"MERGE_GROUPS", "CREATE_GROUP"}
    /\ out[c][1] = m /\ Rest(out[c], out'[c]) /\ out'[c] \in Seq(Requests)
    /\ \A d \in Addrs \ {c} : out'[d] = out[d]
    /\ UNCHANGED clientVars
    /\ \A d \in Addrs :
         /\ pc[d] = "off" \/ Arriving(sent', d) = {} => inbox'[d] = inbox[d]
         /\ pc[d] # "off" => \A x : Arriving(sent', d) = {x} =>
                                      Longer(inbox[d], inbox'[d], x)

Memories ==
    /\ TableInv(shm) /\ MemoryInv(shm) /\ MemoryInv(shm')
    /\ OwnAddrs(shm) /\ OwnAddrs(shm') /\ GhostFree(shm)

LEMMA ServeTurn ==
  ASSUME Calm, PromptInv, NEW c \in Addrs, Serve(c)
  PROVE  /\ Memories
         /\ \E m \in Requests : Turn(c, m) /\ ConnectionStep(shm, shm', m)
<1>1. /\ Queues /\ Requesting(c, out[c]) /\ out[c] \in Seq(Requests)
      /\ MemoryInv(shm) /\ OwnAddrs(shm) /\ TableInv(shm) /\ GhostFree(shm)
      /\ Orderly(c) /\ ServerInv
  BY DEF PromptInv, ChatTypeInv, ServerSide, ServerInv, Queues, TablesInv,
         Requesting, NoClientDrifts
<1>2. PICK i \in Arrivable(out[c]) :
        /\ Receive(out[c][i])
        /\ out' = [out EXCEPT ![c] = RemoveAt(@, i)]
  BY DEF Serve
<1>3. /\ i = 1 /\ Rest(out[c], RemoveAt(out[c], i)) /\ 1 \in 1 .. Len(out[c])
      /\ RemoveAt(out[c], i) \in Seq(Requests)
  <2>1. i = 1 /\ Rest(out[c], RemoveAt(out[c], i))
    BY <1>1, RestOfQueue DEF Calm
  <2>2. 1 \in 1 .. Len(out[c])
    BY <2>1 DEF Arrivable
  <2> QED
    BY <1>1, <2>1, <2>2, RemoveAtQueue
<1> DEFINE m == out[c][1]
<1>4. m \in Requests /\ m.from = c
  BY <1>1, <1>3 DEF Requesting
<1>5. m.type \notin {"MERGE_GROUPS", "CREATE_GROUP"}
  BY <1>1, <1>3 DEF Orderly
<1> HIDE DEF m
<1>6. HandleClientMessage(m) /\ Next /\ m.sender = NameOf[c]
  BY <1>2, <1>3, <1>4, RequestSender DEF Receive, Next, m
<1>7. MemoryInv(shm')
  BY <1>1, <1>6, StepInv DEF ServerInv
<1>8. ConnectionStep(shm, shm', m)
  BY <1>1, <1>4, <1>6, RequestConnections
<1>9. OwnAddrs(shm')
  BY <1>1, <1>4, <1>6, <1>8 DEF OwnAddrs, ConnectionStep
<1>10. /\ Rest(out[c], out'[c]) /\ out'[c] \in Seq(Requests)
       /\ \A d \in Addrs \ {c} : out'[d] = out[d]
       /\ UNCHANGED clientVars
       /\ inbox' = [d \in Addrs |->
                      IF pc[d] = "off" THEN inbox[d]
                      ELSE inbox[d] \o SetToSeq(Arriving(sent', d))]
  BY <1>1, <1>2, <1>3 DEF Queues, Serve, Arriving
<1>11. ASSUME NEW d \in Addrs
       PROVE  /\ pc[d] = "off" \/ Arriving(sent', d) = {} => inbox'[d] = inbox[d]
              /\ pc[d] # "off" => \A x : Arriving(sent', d) = {x} =>
                                           Longer(inbox[d], inbox'[d], x)
  <2>1. PICK S : inbox[d] \in Seq(S)
    BY <1>1 DEF Queues, Mail
  <2>2. inbox[d] \o <<>> = inbox[d]
    BY <2>1
  <2>3. \A x : Longer(inbox[d], inbox[d] \o <<x>>, x)
    BY <2>1, LongerQueue
  <2> QED
    BY <1>10, <2>2, <2>3, SetToSeqOne
<1>12. Turn(c, m)
  BY <1>4, <1>5, <1>6, <1>10, <1>11 DEF Turn, m
<1>13. Memories
  BY <1>1, <1>7, <1>9 DEF Memories
<1> QED
  BY <1>4, <1>8, <1>12, <1>13

\* Processes of one name: while one has the slot the others, which were not
\* acknowledged, have only asked to be connected.
LEMMA OneVoice ==
  ASSUME PromptInv, NEW c \in Addrs, NEW m, Turn(c, m),
         NEW d \in Addrs, NameOf[c] = NameOf[d], m.type # "CONNECT"
  PROVE  /\ HasSlot(shm, c)
         /\ HasSlot(shm, d) => c = d
<1>1. Orderly(c) /\ ClientInv(c)
  BY DEF PromptInv, NoClientDrifts, ChatInv
<1>2. 1 \in 1 .. Len(out[c]) /\ out[c][1].type # "CONNECT"
  BY DEF Turn, Rest
<1>3. pc[c] \in Running \/ Has(out[c], "DISCONNECT")
  BY <1>1, <1>2 DEF Orderly
<1>4. HasSlot(shm, c)
  BY <1>1, <1>3 DEF ClientInv, Claims
<1> QED
  BY <1>4 DEF HasSlot

\* A slot is kept, but for a DISCONNECT of the process that has it.
LEMMA SlotKept ==
  ASSUME PromptInv, NEW c \in Addrs, NEW m, Turn(c, m),
         ConnectionStep(shm, shm', m), NEW d \in Addrs, HasSlot(shm, d),
         ~(c = d /\ m.type = "DISCONNECT")
  PROVE  HasSlot(shm', d)
<1>1. NameOf[d] \in Names
  BY AddrsAssumption
<1>2. ~(m.type = "DISCONNECT" /\ m.sender = NameOf[d])
  BY OneVoice DEF Turn
<1> QED
  BY <1>1, <1>2 DEF ConnectionStep, HasSlot

\* A JOIN at the head of a queue is alone in it, unless its process has quit.
LEMMA JoinAtHead ==
  ASSUME PromptInv, NEW c \in Addrs, NEW m, Turn(c, m), m.type = "JOIN",
         ~Has(out[c], "DISCONNECT")
  PROVE  /\ Asking(c) /\ Len(out[c]) = 1 /\ Len(out'[c]) = 0
         /\ \A g \in Groups : ~IsMember(shm, g, NameOf[c])
<1>1. Len(out[c]) \in Nat /\ 1 \in 1 .. Len(out[c]) /\ out[c][1] = m
  BY DEF Turn, Rest
<1>2. Has(out[c], "JOIN")
  BY <1>1 DEF Has
<1>3. Asking(c)
  <2>1. ~Confirmed(c)
    BY <1>1 DEF Confirmed
  <2> QED
    BY <1>2, <2>1 DEF PromptInv, NoClientDrifts, Idle, Settled
<1>4. Len(out[c]) = 1
  BY <1>1, <1>3 DEF Asking
<1>5. \A g \in Groups : ~IsMember(shm, g, NameOf[c])
  BY <1>1, <1>3, <1>4 DEF Asking, WillLeave
<1>6. Len(out'[c]) = 0
  BY <1>4 DEF Turn, Rest
<1> QED
  BY <1>3, <1>4, <1>5, <1>6

\* A join that is served is answered at its process, by a confirmation.
LEMMA JoinHeard ==
  ASSUME Calm, PromptInv, Memories, NEW c \in Addrs, NEW m, Turn(c, m),
         ConnectionStep(shm, shm', m), Join(m), NEW d \in Addrs,
         pc[d] # "off", Arriving(sent', d) # {}
  PROVE  /\ c = d /\ ~Has(out[c], "DISCONNECT")
         /\ IsMember(shm', m.group, NameOf[c])
         /\ \A h \in Groups : IsMember(shm', h, NameOf[c]) => h = m.group
         /\ \E x : /\ Arriving(sent', c) = {x}
                   /\ x.type = "JOIN" /\ x.group = m.group
                   /\ x.content = shm'.groups[m.group].color
<1>1. m \in Requests /\ m.sender = NameOf[c] /\ m.type = "JOIN"
  BY DEF Turn, Join
<1>2. m.sender = NameOf[d] /\ HasSlot(shm', d)
  BY <1>1, JoinArrives DEF Only, Memories
<1>3. HasSlot(shm, c) /\ HasSlot(shm', c)
  BY <1>1, <1>2, OneVoice, SlotKept
<1>4. c = d
  BY <1>1, <1>2, <1>3 DEF HasSlot
<1>5. ~Has(out[c], "DISCONNECT")
  BY <1>4 DEF PromptInv, ChatInv, ClientInv
<1>6. \A g \in Groups : ~IsMember(shm, g, NameOf[c])
  BY <1>1, <1>5, JoinAtHead
<1>7. m.group \in Groups
  BY <1>1, RequestType
<1>8. /\ IsMember(shm', m.group, NameOf[c])
      /\ \A h \in Groups : IsMember(shm', h, NameOf[c]) =>
                             IsMember(shm, h, NameOf[c]) \/ h = m.group
      /\ Arriving(sent', c) =
           {Datagram(c, "JOIN", NameOf[c], m.group,
                     shm'.groups[m.group].color)}
  BY <1>1, <1>3, <1>6, <1>7, OwnJoin DEF Memories, Calm
<1> DEFINE x == Datagram(c, "JOIN", NameOf[c], m.group,
                         shm'.groups[m.group].color)
<1>9. /\ x.type = "JOIN" /\ x.group = m.group
      /\ x.content = shm'.groups[m.group].color
  BY DEF Datagram
<1> HIDE DEF x
<1> QED
  BY <1>4, <1>5, <1>6, <1>8, <1>9 DEF x

\* Nothing else that arrives is a confirmation, or a refusal.
LEMMA OthersHeard ==
  ASSUME PromptInv, Memories, NEW c \in Addrs, NEW m, Turn(c, m),
         ~Join(m), NEW d \in Addrs, NEW x \in Arriving(sent', d)
  PROVE  x.type \notin {"JOIN", "PUBLIC"}
<1>1. /\ m \in Requests /\ HandleClientMessage(m)
      /\ m.type \notin {"MERGE_GROUPS", "CREATE_GROUP"}
  BY DEF Turn
<1>2. x \in News(m, d)
  BY <1>1, NewsArrive DEF Memories
<1> QED
  BY <1>1, <1>2 DEF News, Only, Datagram

\* The rules of order.
LEMMA OrderlyTurn ==
  ASSUME Calm, PromptInv, Memories, NEW c \in Addrs, NEW m, Turn(c, m),
         ConnectionStep(shm, shm', m), NEW d \in Addrs
  PROVE  Orderly(d)'
<1>1. Orderly(d) /\ UNCHANGED <<pc, joining, current_group>>
  BY DEF PromptInv, NoClientDrifts, Turn, clientVars
<1>2. ASSUME NEW i \in 1 .. Len(out'[d])
      PROVE  /\ out'[d][i].type \notin {"MERGE_GROUPS", "CREATE_GROUP"}
             /\ out'[d][i].type = "DISCONNECT" => i = Len(out'[d])
             /\ pc[d] \notin Running /\ ~Has(out'[d], "DISCONNECT") =>
                  out'[d][i].type = "CONNECT"
  <2>1. CASE d # c
    BY <1>1, <2>1 DEF Turn, Orderly
  <2>2. CASE d = c
    <3>1. /\ Rest(out[d], out'[d])
          /\ i + 1 \in 1 .. Len(out[d]) /\ 1 \in 1 .. Len(out[d])
          /\ out'[d][i] = out[d][i + 1]
          /\ i + 1 = Len(out[d]) => i = Len(out'[d])
          /\ 1 # Len(out[d])
      BY <2>2 DEF Turn, Rest
    <3>2. out[d][1].type # "DISCONNECT"
      BY <1>1, <3>1 DEF Orderly
    <3>3. Has(out'[d], "DISCONNECT") <=> Has(out[d], "DISCONNECT")
      BY <3>1, <3>2, HasRest
    <3> QED
      BY <1>1, <3>1, <3>3 DEF Orderly
  <2> QED
    BY <2>1, <2>2
<1>3. ~Has(inbox'[d], "PUBLIC")
  <2>1. CASE pc[d] = "off" \/ Arriving(sent', d) = {}
    BY <1>1, <2>1 DEF Turn, Orderly
  <2>2. CASE pc[d] # "off" /\ Arriving(sent', d) # {}
    <3>1. PICK x : Arriving(sent', d) = {x}
      BY <2>2, OneArrives DEF Turn, Memories
    <3>2. x.type # "PUBLIC"
      BY <2>2, <3>1, JoinHeard, OthersHeard
    <3>3. Longer(inbox[d], inbox'[d], x)
      BY <2>2, <3>1 DEF Turn
    <3> QED
      BY <1>1, <3>2, <3>3, HasLonger DEF Orderly
  <2> QED
    BY <2>1, <2>2
<1> QED
  BY <1>1, <1>2, <1>3 DEF Orderly

-----------------------------------------------------------------------------
(* The states in a turn.                                                   *)

States(c) == Idle(c) \/ Settled(c) \/ Asking(c) \/ Confirmed(c)

\* The DISCONNECT of process d itself.
LEMMA FarewellTurn ==
  ASSUME PromptInv, Memories, NEW c \in Addrs, NEW m, Turn(c, m),
         NEW d \in Addrs, Has(out[d], "DISCONNECT"),
         ~Has(out'[d], "DISCONNECT")
  PROVE  Idle(d)'
<1>1. Orderly(d) /\ ClientInv(d) /\ UNCHANGED <<pc, joining, current_group>>
  BY DEF PromptInv, NoClientDrifts, ChatInv, Turn, clientVars
<1>2. /\ pc[d] = "off" /\ inbox[d] = <<>> /\ inbox'[d] = <<>>
      /\ joining[d] = NoGroup /\ current_group[d] = NoGroup
  BY <1>1 DEF ClientInv, Orderly, Turn
<1>3. c = d
  BY DEF Turn
<1>4. /\ Rest(out[d], out'[d]) /\ out[d][1] = m /\ 1 \in 1 .. Len(out[d])
      /\ 1 = Len(out[d]) => Len(out'[d]) = 0
  <2>1. Rest(out[d], out'[d]) /\ out[d][1] = m
    BY <1>3 DEF Turn
  <2> QED
    BY <2>1 DEF Rest
<1>5. m.type = "DISCONNECT"
  BY <1>4, HasRest
<1>6. Len(out'[d]) = 0
  BY <1>1, <1>4, <1>5 DEF Orderly
<1>7. ~Has(out'[d], "JOIN") /\ ~Has(inbox'[d], "JOIN")
  BY <1>2, <1>6 DEF Has
<1>8. ~UserFound(shm', NameOf[d])
  <2>1. m.sender = NameOf[d] /\ Disconnect(m) /\ NameOf[d] \in Names
    BY <1>3, <1>5, AddrsAssumption
    DEF Turn, HandleClientMessage, Join, Leave, Public, Private, ChangeColor,
        CreateGroup, MergeGroups, KickUser, PromoteAdmin, DemoteAdmin, Connect,
        ListUsers, ListGroups
  <2>2. shm.users \in [Names -> Users]
    BY DEF Memories, MemoryInv, SharedMemory
  <2> QED
    BY <2>1, <2>2 DEF Disconnect, UserRemove, UserFound, Users
<1> QED
  BY <1>1, <1>2, <1>7, <1>8 DEF Idle, HasSlot

\* A process without a slot, which may get one.
LEMMA NoSlotTurn ==
  ASSUME Calm, PromptInv, Memories, NEW c \in Addrs, NEW m, Turn(c, m),
         ConnectionStep(shm, shm', m), NEW d \in Addrs, ~HasSlot(shm, d),
         ~Has(out[d], "DISCONNECT")
  PROVE  Idle(d)'
<1>1. /\ Orderly(d) /\ ClientInv(d)
      /\ UNCHANGED <<pc, joining, current_group>>
  BY DEF PromptInv, NoClientDrifts, ChatInv, Turn, clientVars
<1>2. pc[d] \notin Running
  BY <1>1 DEF ClientInv, Claims
<1>3. Idle(d)
  BY <1>2 DEF PromptInv, NoClientDrifts, Settled, Asking, Confirmed, Running
<1>4. c = d => m.type = "CONNECT"
  BY <1>1, <1>2 DEF Turn, Rest, Orderly
<1>5. ~Has(out'[d], "JOIN")
  BY <1>3, HasRest DEF Turn, Idle
<1>6. ~Has(inbox'[d], "JOIN")
  <2>1. CASE pc[d] = "off" \/ Arriving(sent', d) = {}
    BY <1>3, <2>1 DEF Turn, Idle
  <2>2. CASE pc[d] # "off" /\ Arriving(sent', d) # {}
    <3>1. PICK x : Arriving(sent', d) = {x}
      BY <2>2, OneArrives DEF Turn, Memories
    <3>2. ~Join(m)
      BY <1>4, <2>2, JoinHeard DEF Join
    <3>3. x.type # "JOIN"
      BY <3>1, <3>2, OthersHeard
    <3>4. Longer(inbox[d], inbox'[d], x)
      BY <2>2, <3>1 DEF Turn
    <3> QED
      BY <1>3, <3>3, <3>4, HasLonger DEF Idle
  <2> QED
    BY <2>1, <2>2
<1>7. HasSlot(shm', d) => WillLeave(shm', NameOf[d], out'[d])
  <2> SUFFICES ASSUME HasSlot(shm', d)
               PROVE  \A g \in Groups : ~IsMember(shm', g, NameOf[d])
    BY DEF WillLeave
  <2>1. NameOf[d] \in Names
    BY AddrsAssumption
  <2>2. NameOf[d] = m.sender /\ m.from = d
    BY <2>1 DEF ConnectionStep, HasSlot
  <2>3. m.type = "CONNECT" /\ m \in Requests /\ HandleClientMessage(m)
    BY <1>4, <2>2 DEF Turn
  <2>4. ~UserFound(shm, NameOf[d])
    BY <2>1, <2>3 DEF ConnectionStep, HasSlot
  <2>5. \A g \in Groups : ~IsMember(shm, g, NameOf[d])
    BY <2>1, <2>4 DEF Memories, GhostFree, AtHome
  <2>6. Keeps(shm, shm', NameOf[d])
    BY <2>1, <2>3, StayingPut DEF Memories
  <2> QED
    BY <2>5, <2>6 DEF Keeps
<1> QED
  BY <1>1, <1>3, <1>5, <1>6, <1>7 DEF Idle

\* A JOIN at the head of the queue of d becomes a confirmation.
LEMMA JoinTurn ==
  ASSUME Calm, PromptInv, Memories, NEW d \in Addrs, NEW m, Turn(d, m),
         ConnectionStep(shm, shm', m), m.type = "JOIN",
         HasSlot(shm, d), ~Has(out[d], "DISCONNECT")
  PROVE  Confirmed(d)'
<1>1. /\ Asking(d) /\ Len(out[d]) = 1 /\ Len(out'[d]) = 0
      /\ \A g \in Groups : ~IsMember(shm, g, NameOf[d])
  BY JoinAtHead
<1>2. /\ m \in Requests /\ m.sender = NameOf[d] /\ Join(m)
      /\ UNCHANGED <<pc, joining>> /\ out[d][1] = m
  BY DEF Turn, HandleClientMessage, Join, Leave, Public, Private, ChangeColor,
         CreateGroup, MergeGroups, KickUser, PromoteAdmin, DemoteAdmin,
         Connect, Disconnect, ListUsers, ListGroups, clientVars
<1>3. m.group \in Groups /\ m.group = joining[d] /\ pc[d] = "ready"
  <2>1. m.group \in Groups
    BY <1>2, RequestType
  <2> QED
    BY <1>1, <1>2, <2>1 DEF Asking
<1>4. HasSlot(shm', d)
  BY <1>2, SlotKept
<1> DEFINE x == Datagram(d, "JOIN", NameOf[d], m.group,
                         shm'.groups[m.group].color)
<1>5. /\ IsMember(shm', m.group, NameOf[d])
      /\ \A h \in Groups : IsMember(shm', h, NameOf[d]) => h = m.group
      /\ Arriving(sent', d) = {x}
  BY <1>1, <1>2, <1>3, <1>4, OwnJoin DEF Memories, Calm
<1>6. x.type = "JOIN" /\ x.group = m.group
      /\ x.content = shm'.groups[m.group].color
  BY DEF Datagram
<1> HIDE DEF x
<1>7. Longer(inbox[d], inbox'[d], x)
  BY <1>3, <1>5 DEF Turn
<1>8. out'[d] = <<>>
  <2>1. out'[d] \in Seq(Requests)
    BY DEF Turn
  <2> QED
    BY <1>1, <2>1
<1> DEFINE k == Len(inbox'[d])
<1>9. /\ k \in 1 .. Len(inbox'[d]) /\ Len(inbox'[d]) \in Nat
      /\ inbox'[d][k] = x
      /\ \A i \in 1 .. Len(inbox'[d]) : inbox'[d][i].type = "JOIN" <=> i = k
  <2>1. \A i \in 1 .. Len(inbox[d]) : inbox[d][i].type # "JOIN"
    BY <1>1 DEF Asking, Has
  <2>2. /\ k \in 1 .. Len(inbox'[d]) /\ k = Len(inbox[d]) + 1
        /\ Len(inbox[d]) \in Nat /\ inbox'[d][k] = x
        /\ \A i \in 1 .. Len(inbox[d]) : inbox'[d][i] = inbox[d][i]
    BY <1>7 DEF Longer
  <2>3. \A i \in 1 .. Len(inbox'[d]) : i = k \/ i \in 1 .. Len(inbox[d])
    BY <2>2
  <2> HIDE DEF k
  <2>4. k \notin 1 .. Len(inbox[d])
    BY <2>2
  <2>5. \A i \in 1 .. Len(inbox'[d]) : inbox'[d][i].type = "JOIN" <=> i = k
    BY <1>6, <2>1, <2>2, <2>3, <2>4, Zenon
  <2> QED
    BY <2>2, <2>5 DEF k
<1>10. Settles(shm', NameOf[d], inbox'[d], k, m.group,
               shm'.groups[m.group].color)
  BY <1>5, <1>9, SettlesAtOnce
<1> HIDE DEF k
<1> QED
  BY <1>2, <1>3, <1>6, <1>8, <1>9, <1>10, GroupsAssumption DEF Confirmed

\* What the turn does to the user of d and tells its process.
Notified(d) ==
    \/ Unaffected(d)
    \/ \E g \in Groups : Evicted(d, g) \/ Recoloured(d, g)

\* The turn is not about a join or leave that d asked for.
LEMMA NotifiedTurn ==
  ASSUME Calm, PromptInv, Memories, NEW c \in Addrs, NEW m, Turn(c, m),
         ConnectionStep(shm, shm', m), NEW d \in Addrs, HasSlot(shm, d),
         ~Has(out[d], "DISCONNECT"),
         c # d \/ m.type \notin {"JOIN", "LEAVE"}
  PROVE  Notified(d)
<1>1. /\ m \in Requests /\ m.sender = NameOf[c] /\ HandleClientMessage(m)
      /\ m.type \notin {"MERGE_GROUPS", "CREATE_GROUP"}
      /\ out[c][1] = m /\ 1 \in 1 .. Len(out[c])
  BY DEF Turn, Rest
<1>2. c = d => m.type # "DISCONNECT"
  BY <1>1 DEF Has
<1>3. HasSlot(shm', d)
  BY <1>2, SlotKept
<1>4. m.sender # NameOf[d] \/ m.type \notin {"JOIN", "LEAVE", "DISCONNECT"}
  BY <1>1, <1>2, OneVoice
<1> QED
  BY <1>1, <1>3, <1>4, Outcome DEF Notified, Memories, Calm

\* The inbox of d is as it was or has one datagram more, which is no JOIN.
LEMMA ToldInbox ==
  ASSUME PromptInv, Memories, NEW c \in Addrs, NEW m, Turn(c, m),
         NEW d \in Addrs, Notified(d)
  PROVE  \/ inbox'[d] = inbox[d]
         \/ \E x : Longer(inbox[d], inbox'[d], x) /\ x.type # "JOIN"
<1>1. CASE pc[d] = "off" \/ Arriving(sent', d) = {}
  BY <1>1 DEF Turn
<1>2. CASE pc[d] # "off" /\ Arriving(sent', d) # {}
  <2>1. PICK x : Arriving(sent', d) = {x}
    BY <1>2, OneArrives DEF Turn, Memories
  <2>2. x.type # "JOIN"
    BY <2>1 DEF Notified, Unaffected, Evicted, Recoloured, Silent
  <2> QED
    BY <1>2, <2>1, <2>2 DEF Turn
<1> QED
  BY <1>1, <1>2

LEMMA ToldMembers ==
  ASSUME NEW d \in Addrs, Notified(d), NEW g \in Groups,
         IsMember(shm', g, NameOf[d])
  PROVE  IsMember(shm, g, NameOf[d])
  BY DEF Notified, Unaffected, Evicted, Recoloured, Keeps, KeepsButFor

\* A client that settles still does.
LEMMA ToldSettles ==
  ASSUME PromptInv, Memories, NEW c \in Addrs, NEW m, Turn(c, m),
         NEW d \in Addrs, pc[d] # "off", Notified(d),
         NEW k \in 0 .. Len(inbox[d]), NEW g \in Groups, NEW x,
         Settles(shm, NameOf[d], inbox[d], k, g, x)
  PROVE  Settles(shm', NameOf[d], inbox'[d], k, g, x)
<1> DEFINE u == NameOf[d]
<1>1. \A y : Arriving(sent', d) = {y} => Longer(inbox[d], inbox'[d], y)
  BY DEF Turn
<1>2. CASE Unaffected(d)
  <2>1. Keeps(shm, shm', u) /\ KeepsColors(shm, shm', u)
    BY <1>2 DEF Unaffected
  <2>2. CASE Arriving(sent', d) = {}
    <3>1. inbox'[d] = inbox[d]
      BY <2>2 DEF Turn
    <3> QED
      BY <2>1, <3>1, SettlesSame
  <2>3. CASE Arriving(sent', d) # {}
    <3>1. PICK y : Arriving(sent', d) = {y}
      BY <2>3, OneArrives DEF Turn, Memories
    <3>2. y.type \in Silent /\ Longer(inbox[d], inbox'[d], y)
      BY <1>1, <1>2, <3>1 DEF Unaffected
    <3> QED
      BY <2>1, <3>2, SettlesSilent
  <2> QED
    BY <2>2, <2>3
<1>3. ASSUME NEW h \in Groups, Evicted(d, h)
      PROVE  Settles(shm', u, inbox'[d], k, g, x)
  <2>1. PICK y : Arriving(sent', d) = {y} /\ y.type = "LEAVE"
    BY <1>3 DEF Evicted
  <2>2. IsMember(shm, h, u) /\ KeepsButFor(shm, shm', u, h)
    BY <1>3 DEF Evicted
  <2> QED
    BY <1>1, <2>1, <2>2, SettlesEvicted
<1>4. ASSUME NEW h \in Groups, Recoloured(d, h)
      PROVE  Settles(shm', u, inbox'[d], k, g, x)
  <2>1. PICK y : /\ Arriving(sent', d) = {y} /\ y.type = "CHANGE_COLOR"
                 /\ y.content = shm'.groups[h].color
    BY <1>4 DEF Recoloured
  <2>2. IsMember(shm, h, u) /\ Keeps(shm, shm', u)
    BY <1>4 DEF Recoloured
  <2> QED
    BY <1>1, <2>1, <2>2, SettlesRecoloured
<1> QED
  BY <1>2, <1>3, <1>4 DEF Notified

\* The queue of d, unless its JOIN is served.
LEMMA QueueTurn ==
  ASSUME NEW c \in Addrs, NEW m, Turn(c, m), NEW d \in Addrs,
         c = d => m.type # "JOIN"
  PROVE  /\ \A type : Has(out'[d], type) => Has(out[d], type)
         /\ Asking(d) =>
              /\ out'[d] # <<>>
              /\ \A i \in 1 .. Len(out'[d]) :
                   out'[d][i].type = "JOIN" <=> i = Len(out'[d])
              /\ out'[d][Len(out'[d])].group = joining[d]
<1>1. CASE c # d
  BY <1>1 DEF Turn, Asking
<1>2. CASE c = d
  <2>1. Rest(out[d], out'[d]) /\ out[d][1] = m /\ out'[d] \in Seq(Requests)
    BY <1>2 DEF Turn
  <2>2. ASSUME Asking(d)
        PROVE  /\ out'[d] # <<>>
               /\ \A i \in 1 .. Len(out'[d]) :
                    out'[d][i].type = "JOIN" <=> i = Len(out'[d])
               /\ out'[d][Len(out'[d])].group = joining[d]
    <3>1. /\ \A i \in 1 .. Len(out[d]) :
               out[d][i].type = "JOIN" <=> i = Len(out[d])
          /\ out[d][Len(out[d])].group = joining[d]
      BY <2>2 DEF Asking
    <3>2. /\ Len(out[d]) \in Nat /\ Len(out'[d]) \in Nat
          /\ Len(out[d]) = Len(out'[d]) + 1
          /\ \A j \in 1 .. Len(out'[d]) : out'[d][j] = out[d][j + 1]
      BY <2>1 DEF Rest
    <3>3. Len(out[d]) # 1
      BY <1>2, <2>1, <3>1, <3>2
    <3>4. out'[d] # <<>>
      BY <3>2, <3>3
    <3>5. \A i \in 1 .. Len(out'[d]) :
            /\ i + 1 \in 1 .. Len(out[d])
            /\ i + 1 = Len(out[d]) <=> i = Len(out'[d])
      BY <3>2
    <3>6. Len(out'[d]) \in 1 .. Len(out'[d])
      BY <3>2, <3>3
    <3>7. out'[d][Len(out'[d])].group = joining[d]
      BY <3>1, <3>2, <3>6
    <3>8. \A i \in 1 .. Len(out'[d]) :
            out'[d][i].type = "JOIN" <=> i = Len(out'[d])
      BY <3>1, <3>2, <3>5
    <3> QED
      BY <3>4, <3>7, <3>8
  <2> QED
    BY <2>1, <2>2, HasRest
<1> QED
  BY <1>1, <1>2

\* What d is about to leave, when the turn adds no membership.
LEMMA WillLeaveTurn ==
  ASSUME NEW c \in Addrs, NEW m, Turn(c, m), NEW d \in Addrs,
         \A g \in Groups : IsMember(shm', g, NameOf[d]) =>
            /\ IsMember(shm, g, NameOf[d])
            /\ ~(c = d /\ m.type = "LEAVE" /\ m.group = g),
         WillLeave(shm, NameOf[d], out[d])
  PROVE  WillLeave(shm', NameOf[d], out'[d])
<1>1. CASE c # d
  BY <1>1 DEF Turn, WillLeave
<1>2. CASE c = d
  <2>1. Rest(out[d], out'[d]) /\ out[d][1] = m
    BY <1>2 DEF Turn
  <2> QED
    BY <1>2, <2>1, WillLeaveRest
<1> QED
  BY <1>1, <1>2

\* A LEAVE that d asked for.
LEMMA LeaveTurn ==
  ASSUME Calm, PromptInv, Memories, NEW d \in Addrs, NEW m, Turn(d, m),
         ConnectionStep(shm, shm', m), m.type = "LEAVE",
         HasSlot(shm, d), ~Has(out[d], "DISCONNECT")
  PROVE  States(d)'
<1>1. /\ m \in Requests /\ m.sender = NameOf[d] /\ HandleClientMessage(m)
      /\ out[d][1] = m /\ 1 \in 1 .. Len(out[d])
      /\ UNCHANGED <<pc, joining, current_group>>
  BY DEF Turn, Rest, clientVars
<1>2. /\ KeepsButFor(shm, shm', NameOf[d], m.group)
      /\ Arriving(sent', d) = {}
  BY <1>1, OwnLeave DEF Memories, Calm
<1>3. inbox'[d] = inbox[d]
  BY <1>2 DEF Turn
<1>4. WillLeave(shm, NameOf[d], out[d]) =>
        WillLeave(shm', NameOf[d], out'[d])
  BY <1>2, WillLeaveTurn DEF KeepsButFor
<1>5. Idle(d) \/ Asking(d)
  <2>1. ~Settled(d)
    BY <1>1 DEF Settled, Has
  <2>2. ~Confirmed(d)
    BY <1>1 DEF Confirmed
  <2> QED
    BY <2>1, <2>2 DEF PromptInv, NoClientDrifts
<1>6. CASE Idle(d)
  <2>1. Idle(d)'
    BY <1>1, <1>3, <1>4, <1>6, QueueTurn DEF Idle
  <2> QED
    BY <2>1 DEF States
<1>7. CASE Asking(d)
  <2>1. Asking(d)'
    BY <1>1, <1>3, <1>4, <1>7, QueueTurn DEF Asking
  <2> QED
    BY <2>1 DEF States
<1> QED
  BY <1>5, <1>6, <1>7

\* Any other turn.
LEMMA OtherTurn ==
  ASSUME Calm, PromptInv, Memories, NEW c \in Addrs, NEW m, Turn(c, m),
         ConnectionStep(shm, shm', m), NEW d \in Addrs, HasSlot(shm, d),
         ~Has(out[d], "DISCONNECT"),
         c # d \/ m.type \notin {"JOIN", "LEAVE"}
  PROVE  States(d)'
<1>1. Notified(d) /\ UNCHANGED <<pc, joining, current_group, color>>
  BY NotifiedTurn DEF Turn, clientVars
<1>2. \A g \in Groups : IsMember(shm', g, NameOf[d]) =>
                          IsMember(shm, g, NameOf[d])
  BY <1>1, ToldMembers
<1>3. WillLeave(shm, NameOf[d], out[d]) =>
        WillLeave(shm', NameOf[d], out'[d])
  BY <1>2, WillLeaveTurn
<1>4. \/ inbox'[d] = inbox[d]
      \/ \E x : Longer(inbox[d], inbox'[d], x) /\ x.type # "JOIN"
  BY <1>1, ToldInbox
<1>5. Has(inbox'[d], "JOIN") => Has(inbox[d], "JOIN")
  BY <1>4, HasLonger
<1>6. \A type : Has(out'[d], type) => Has(out[d], type)
  BY QueueTurn
<1>7. Globals /\ Mail(inbox[d])
  BY DEF PromptInv, ChatTypeInv, Queues
<1>8. CASE Idle(d)
  <2>1. Idle(d)'
    BY <1>1, <1>3, <1>5, <1>6, <1>8 DEF Idle
  <2> QED
    BY <2>1 DEF States
<1>9. CASE Settled(d)
  <2>1. pc[d] # "off" /\ current_group[d] \in Groups
    BY <1>7, <1>9 DEF Settled, Running, Globals
  <2>2. 0 \in 0 .. Len(inbox[d])
    BY <1>7 DEF Mail
  <2>3. Settles(shm', NameOf[d], inbox'[d], 0, current_group[d], color[d])
    BY <1>1, <1>9, <2>1, <2>2, ToldSettles DEF Settled
  <2>4. Settled(d)'
    BY <1>1, <1>5, <1>6, <1>9, <2>3 DEF Settled
  <2> QED
    BY <2>4 DEF States
<1>10. CASE Asking(d)
  <2>1. Asking(d)'
    BY <1>1, <1>3, <1>5, <1>10, QueueTurn DEF Asking
  <2> QED
    BY <2>1 DEF States
<1>11. CASE Confirmed(d)
  <2>1. /\ joining[d] \in Groups /\ pc[d] # "off" /\ out'[d] = <<>>
        /\ Len(inbox[d]) \in Nat
    <3>1. c # d
      BY <1>11 DEF Confirmed, Turn, Rest
    <3> QED
      BY <1>7, <1>11, <3>1 DEF Confirmed, Globals, Mail, Turn
  <2>2. PICK k \in 1 .. Len(inbox[d]) :
          /\ \A i \in 1 .. Len(inbox[d]) : inbox[d][i].type = "JOIN" <=> i = k
          /\ inbox[d][k].group = joining[d]
          /\ Settles(shm, NameOf[d], inbox[d], k, joining[d],
                     inbox[d][k].content)
    BY <1>11 DEF Confirmed
  <2>3. Settles(shm', NameOf[d], inbox'[d], k, joining[d], inbox[d][k].content)
    <3> DEFINE x == inbox[d][k].content
    <3>1. Settles(shm, NameOf[d], inbox[d], k, joining[d], x)
      BY <2>2
    <3>2. k \in 0 .. Len(inbox[d])
      BY <2>1
    <3> HIDE DEF x
    <3>3. Settles(shm', NameOf[d], inbox'[d], k, joining[d], x)
      BY <1>1, <2>1, <3>1, <3>2, ToldSettles, Zenon
    <3> QED
      BY <3>3 DEF x
  <2>4. /\ k \in 1 .. Len(inbox'[d]) /\ inbox'[d][k] = inbox[d][k]
        /\ \A i \in 1 .. Len(inbox'[d]) :
             inbox'[d][i].type = "JOIN" <=> i = k
    <3>1. CASE inbox'[d] = inbox[d]
      BY <2>2, <3>1
    <3>2. ASSUME NEW x, Longer(inbox[d], inbox'[d], x), x.type # "JOIN"
          PROVE  /\ k \in 1 .. Len(inbox'[d]) /\ inbox'[d][k] = inbox[d][k]
                 /\ \A i \in 1 .. Len(inbox'[d]) :
                      inbox'[d][i].type = "JOIN" <=> i = k
      BY <2>1, <2>2, <3>2 DEF Longer
    <3> QED
      BY <1>4, <3>1, <3>2
  <2>5. Confirmed(d)'
    BY <1>1, <1>11, <2>1, <2>2, <2>3, <2>4 DEF Confirmed
  <2> QED
    BY <2>5 DEF States
<1> QED
  BY <1>8, <1>9, <1>10, <1>11 DEF PromptInv, NoClientDrifts

\* No turn lets a client drift.
LEMMA ServeDrift ==
  ASSUME Calm, PromptInv, NEW c \in Addrs, Serve(c)
  PROVE  NoClientDrifts'
<1>1. /\ Memories
      /\ \E m \in Requests : Turn(c, m) /\ ConnectionStep(shm, shm', m)
  BY ServeTurn
<1>2. PICK m \in Requests : Turn(c, m) /\ ConnectionStep(shm, shm', m)
  BY <1>1
<1>3. ASSUME NEW d \in Addrs
      PROVE  (Has(out[d], "DISCONNECT") \/ States(d))'
  <2>1. CASE Has(out[d], "DISCONNECT")
    BY <1>1, <1>2, <2>1, FarewellTurn DEF States
  <2>2. CASE ~Has(out[d], "DISCONNECT") /\ ~HasSlot(shm, d)
    BY <1>1, <1>2, <2>2, NoSlotTurn DEF States
  <2>3. CASE ~Has(out[d], "DISCONNECT") /\ HasSlot(shm, d)
    <3>1. CASE c = d /\ m.type = "JOIN"
      BY <1>1, <1>2, <2>3, <3>1, JoinTurn DEF States
    <3>2. CASE c = d /\ m.type = "LEAVE"
      BY <1>1, <1>2, <2>3, <3>2, LeaveTurn
    <3>3. CASE c # d \/ m.type \notin {"JOIN", "LEAVE"}
      BY <1>1, <1>2, <2>3, <3>3, OtherTurn
    <3> QED
      BY <3>1, <3>2, <3>3
  <2> QED
    BY <2>1, <2>2, <2>3
<1>4. \A d \in Addrs : Orderly(d)'
  BY <1>1, <1>2, OrderlyTurn
<1> QED
  BY <1>3, <1>4 DEF NoClientDrifts, States

-----------------------------------------------------------------------------
(* The steps of a client process.                                          *)

\* What NoClientDrifts says of one client.
Fine(c) == Orderly(c) /\ (Has(out[c], "DISCONNECT") \/ States(c))

\* Process c moves; the server and the other processes do not.
Local(c) ==
    /\ UNCHANGED serverVars
    /\ \A d \in Addrs \ {c} :
         /\ pc'[d] = pc[d] /\ joining'[d] = joining[d]
         /\ current_group'[d] = current_group[d] /\ color'[d] = color[d]
         /\ out'[d] = out[d] /\ inbox'[d] = inbox[d]

LEMMA LocalDrift ==
  ASSUME NoClientDrifts, NEW c \in Addrs, Local(c), Fine(c)'
  PROVE  NoClientDrifts'
<1>1. ASSUME NEW d \in Addrs \ {c}
      PROVE  Fine(d)'
  <2>1. Fine(d) /\ shm' = shm
    BY DEF NoClientDrifts, Fine, States, Local, serverVars
  <2>2. Orderly(d)'
    BY <2>1 DEF Fine, Local, Orderly
  <2>3. Idle(d) => Idle(d)'
    BY <2>1 DEF Local, Idle, HasSlot, WillLeave
  <2>4. Settled(d) => Settled(d)'
    BY <2>1 DEF Local, Settled
  <2>5. Asking(d) => Asking(d)'
    BY <2>1 DEF Local, Asking
  <2>6. Confirmed(d) => Confirmed(d)'
    BY <2>1 DEF Local, Confirmed
  <2> QED
    BY <2>1, <2>2, <2>3, <2>4, <2>5, <2>6 DEF Fine, States, Local
<1> QED
  BY <1>1 DEF NoClientDrifts, Fine, States

\* What the receiving thread makes of a datagram that is no refusal.
Reads(c, d) ==
    /\ d.type = "JOIN" =>
         /\ current_group'[c] = d.group /\ color'[c] = d.content
         /\ joining'[c] = IF joining[c] = d.group THEN NoGroup ELSE joining[c]
    /\ d.type = "LEAVE" =>
         current_group'[c] = NoGroup /\ joining'[c] = joining[c]
    /\ d.type = "CHANGE_COLOR" =>
         /\ current_group'[c] = current_group[c] /\ color'[c] = d.content
         /\ joining'[c] = joining[c]
    /\ d.type \notin {"JOIN", "LEAVE", "CHANGE_COLOR"} =>
         /\ current_group'[c] = current_group[c] /\ color'[c] = color[c]
         /\ joining'[c] = joining[c]

LEMMA ReceiveReads ==
  ASSUME Calm, PromptInv, NEW c \in Addrs, ReceiveThread(c)
  PROVE  /\ Local(c) /\ Rest(inbox[c], inbox'[c])
         /\ Reads(c, inbox[c][1])
         /\ inbox[c][1].type # "PUBLIC"
         /\ pc[c] # "off" /\ UNCHANGED <<shm, pc, out>>
<1>1. Globals /\ Queues /\ Mail(inbox[c]) /\ Orderly(c) /\ ClientInv(c)
  BY DEF PromptInv, ChatTypeInv, Queues, NoClientDrifts, ChatInv
<1>2. PICK i \in Arrivable(inbox[c]) :
        /\ inbox' = [inbox EXCEPT ![c] = RemoveAt(@, i)]
        /\ \/ ReceiveAck(c, inbox[c][i])  \/ ReceiveJoin(c, inbox[c][i])
           \/ ReceiveKick(c, inbox[c][i]) \/ ReceiveList(c, inbox[c][i])
           \/ ReceiveColor(c, inbox[c][i]) \/ ReceiveRefusal(c, inbox[c][i])
  BY DEF ReceiveThread
<1>3. /\ i = 1 /\ Rest(inbox[c], RemoveAt(inbox[c], i))
      /\ 1 \in 1 .. Len(inbox[c])
  <2>1. i = 1 /\ Rest(inbox[c], RemoveAt(inbox[c], i))
    BY <1>1, RestOfQueue DEF Mail, Calm
  <2> QED
    BY <2>1 DEF Arrivable
<1>4. inbox[c][1].type # "PUBLIC" /\ pc[c] # "off"
  <2>1. inbox[c] # <<>>
    BY <1>3
  <2> QED
    BY <1>1, <1>3, <2>1 DEF Orderly, Has, ClientInv
<1>5. /\ inbox'[c] = RemoveAt(inbox[c], 1)
      /\ \A d \in Addrs \ {c} : inbox'[d] = inbox[d]
  BY <1>1, <1>2, <1>3 DEF Queues
<1>6. UNCHANGED serverVars /\ UNCHANGED <<shm, pc, out>>
  BY DEF ReceiveThread, serverVars
<1> DEFINE d == inbox[c][1]
<1>7. \/ ReceiveAck(c, d)  \/ ReceiveJoin(c, d)
      \/ ReceiveKick(c, d) \/ ReceiveList(c, d)
      \/ ReceiveColor(c, d) \/ ReceiveRefusal(c, d)
  BY <1>2, <1>3
<1>8. d.type # "PUBLIC"
  BY <1>4
<1> HIDE DEF d
<1>9. /\ Reads(c, d)
      /\ \A e \in Addrs \ {c} :
           /\ joining'[e] = joining[e] /\ color'[e] = color[e]
           /\ current_group'[e] = current_group[e]
  <2>1. CASE ReceiveJoin(c, d)
    BY <1>1, <2>1 DEF ReceiveJoin, Globals, Reads
  <2>2. CASE ReceiveKick(c, d)
    BY <1>1, <2>2 DEF ReceiveKick, Globals, Reads
  <2>3. CASE ReceiveColor(c, d)
    BY <1>1, <2>3 DEF ReceiveColor, Globals, Reads
  <2>4. CASE ReceiveAck(c, d)
    BY <2>4 DEF ReceiveAck, Reads
  <2>5. CASE ReceiveList(c, d)
    BY <2>5 DEF ReceiveList, Reads
  <2> QED
    BY <1>7, <1>8, <2>1, <2>2, <2>3, <2>4, <2>5 DEF ReceiveRefusal
<1>10. Local(c)
  BY <1>5, <1>6, <1>9 DEF Local
<1> QED
  BY <1>3, <1>4, <1>5, <1>6, <1>9, <1>10 DEF d

LEMMA ReceiveDrift ==
  ASSUME Calm, PromptInv, NEW c \in Addrs, ReceiveThread(c)
  PROVE  NoClientDrifts'
<1> DEFINE d == inbox[c][1]
<1>1. /\ Local(c) /\ Rest(inbox[c], inbox'[c]) /\ Reads(c, d)
      /\ d.type # "PUBLIC" /\ pc[c] # "off" /\ UNCHANGED <<shm, pc, out>>
  BY ReceiveReads
<1>2. Fine(c) /\ ~Has(out[c], "DISCONNECT") /\ NoClientDrifts
  BY <1>1 DEF PromptInv, NoClientDrifts, Fine, States, ChatInv, ClientInv
<1>3. States(c) /\ Orderly(c)
  BY <1>2 DEF Fine
<1>4. \A type : Has(inbox[c], type) <=> Has(inbox'[c], type) \/ d.type = type
  BY <1>1, HasRest
<1> HIDE DEF d
<1>5. Orderly(c)'
  BY <1>1, <1>3, <1>4 DEF Orderly
<1>6. States(c)'
  <2>1. CASE Idle(c)
    <3>1. d.type # "JOIN" /\ ~Has(inbox'[c], "JOIN")
      BY <1>4, <2>1 DEF Idle
    <3>2. /\ joining'[c] = NoGroup
          /\ pc[c] # "leaving" => current_group'[c] = NoGroup
      BY <1>1, <2>1, <3>1 DEF Idle, Reads
    <3>3. Idle(c)'
      BY <1>1, <2>1, <3>1, <3>2 DEF Idle, HasSlot, WillLeave
    <3> QED
      BY <3>3 DEF States
  <2>2. CASE Settled(c)
    <3>1. d.type # "JOIN" /\ ~Has(inbox'[c], "JOIN")
      BY <1>4, <2>2 DEF Settled
    <3>2. Settles(shm, NameOf[c], inbox[c], 0, current_group[c], color[c])
      BY <2>2 DEF Settled
    <3>3. CASE d.type = "LEAVE"
      <4>1. \A h \in Groups : ~IsMember(shm, h, NameOf[c])
        BY <1>1, <3>2, <3>3, SettlesRead DEF d
      <4>2. WillLeave(shm', NameOf[c], out'[c])
        BY <1>1, <4>1 DEF WillLeave
      <4>3. joining'[c] = NoGroup /\ current_group'[c] = NoGroup
        BY <1>1, <2>2, <3>3 DEF Settled, Reads
      <4>4. Idle(c)'
        BY <1>1, <2>2, <3>1, <4>2, <4>3 DEF Idle, Settled
      <4> QED
        BY <4>4 DEF States
    <3>4. CASE d.type # "LEAVE"
      <4>1. Settles(shm, NameOf[c], inbox'[c], 0, current_group[c], color'[c])
        <5>1. CASE d.type = "CHANGE_COLOR"
          <6>1. Settles(shm, NameOf[c], inbox'[c], 0, current_group[c], d.content)
            BY <1>1, <3>2, <5>1, SettlesRead DEF d
          <6> QED
            BY <1>1, <5>1, <6>1 DEF Reads
        <5>2. CASE d.type # "CHANGE_COLOR"
          <6>1. Settles(shm, NameOf[c], inbox'[c], 0, current_group[c], color[c])
            BY <1>1, <3>2, <3>4, <5>2, SettlesRead DEF d
          <6> QED
            BY <1>1, <3>1, <3>4, <5>2, <6>1 DEF Reads
        <5> QED
          BY <5>1, <5>2
      <4>2. joining'[c] = NoGroup /\ current_group'[c] = current_group[c]
        BY <1>1, <2>2, <3>1, <3>4 DEF Settled, Reads
      <4>3. Settled(c)'
        BY <1>1, <2>2, <3>1, <4>1, <4>2 DEF Settled
      <4> QED
        BY <4>3 DEF States
    <3> QED
      BY <3>3, <3>4
  <2>3. CASE Asking(c)
    <3>1. d.type # "JOIN" /\ ~Has(inbox'[c], "JOIN")
      BY <1>4, <2>3 DEF Asking
    <3>2. joining'[c] = joining[c]
      BY <1>1, <3>1 DEF Reads
    <3>3. Asking(c)'
      BY <1>1, <2>3, <3>1, <3>2 DEF Asking
    <3> QED
      BY <3>3 DEF States
  <2>4. CASE Confirmed(c)
    <3>1. PICK k \in 1 .. Len(inbox[c]) :
            /\ \A i \in 1 .. Len(inbox[c]) : inbox[c][i].type = "JOIN" <=> i = k
            /\ inbox[c][k].group = joining[c]
            /\ Settles(shm, NameOf[c], inbox[c], k, joining[c],
                       inbox[c][k].content)
      BY <2>4 DEF Confirmed
    <3>2. Settles(shm, NameOf[c], inbox'[c], k - 1, joining[c],
                  inbox[c][k].content)
      <4> DEFINE x == inbox[c][k].content
      <4>1. Settles(shm, NameOf[c], inbox[c], k, joining[c], x)
        BY <3>1
      <4> HIDE DEF x
      <4>2. Settles(shm, NameOf[c], inbox'[c], k - 1, joining[c], x)
        BY <1>1, <4>1, SettlesRest, Zenon
      <4> QED
        BY <4>2 DEF x
    <3>3. /\ Len(inbox[c]) \in Nat /\ Len(inbox'[c]) \in Nat
          /\ Len(inbox[c]) = Len(inbox'[c]) + 1
          /\ \A j \in 1 .. Len(inbox'[c]) : inbox'[c][j] = inbox[c][j + 1]
      BY <1>1 DEF Rest
    <3>4. CASE k = 1
      <4>1. d.type = "JOIN" /\ d.group = joining[c] /\ d = inbox[c][k]
        <5>1. inbox[c][k].type = "JOIN" /\ inbox[c][k].group = joining[c]
          BY <3>1
        <5> QED
          BY <3>4, <5>1 DEF d
      <4>2. \A j \in 1 .. Len(inbox'[c]) : inbox'[c][j].type # "JOIN"
        <5>1. \A i \in 1 .. Len(inbox[c]) : inbox[c][i].type = "JOIN" <=> i = 1
          BY <3>1, <3>4
        <5> TAKE j \in 1 .. Len(inbox'[c])
        <5>2. j + 1 \in 1 .. Len(inbox[c]) /\ j + 1 # 1
          BY <3>3
        <5> QED
          BY <3>3, <5>1, <5>2
      <4>3. /\ joining'[c] = NoGroup /\ current_group'[c] = joining[c]
            /\ color'[c] = inbox[c][k].content
        BY <1>1, <4>1 DEF Reads
      <4>4. Settles(shm', NameOf[c], inbox'[c], 0, current_group'[c], color'[c])
        BY <1>1, <3>2, <3>4, <4>3
      <4>5. ~Has(out'[c], "JOIN") /\ ~Has(out'[c], "LEAVE")
        BY <1>1, <2>4 DEF Confirmed, Has
      <4>6. pc'[c] \in Running \ {"leaving"} /\ current_group'[c] # NoGroup
        BY <1>1, <2>4, <4>3 DEF Confirmed, Running
      <4>7. Settled(c)'
        BY <4>2, <4>3, <4>4, <4>5, <4>6 DEF Settled, Has
      <4> QED
        BY <4>7 DEF States
    <3>5. CASE k # 1
      <4>1. 1 \in 1 .. Len(inbox[c]) /\ d.type # "JOIN"
        BY <3>1, <3>3, <3>5 DEF d
      <4>2. joining'[c] = joining[c]
        BY <1>1, <4>1 DEF Reads
      <4>3. k - 1 \in 1 .. Len(inbox'[c]) /\ inbox'[c][k - 1] = inbox[c][k]
        BY <3>3, <3>5
      <4>4. \A i \in 1 .. Len(inbox'[c]) :
              inbox'[c][i].type = "JOIN" <=> i = k - 1
        <5> TAKE i \in 1 .. Len(inbox'[c])
        <5>1. i + 1 \in 1 .. Len(inbox[c]) /\ inbox'[c][i] = inbox[c][i + 1]
          BY <3>3
        <5>2. i + 1 = k <=> i = k - 1
          OBVIOUS
        <5> QED
          BY <3>1, <5>1, <5>2
      <4> DEFINE n == k - 1
      <4>5. /\ n \in 1 .. Len(inbox'[c])
            /\ \A i \in 1 .. Len(inbox'[c]) : inbox'[c][i].type = "JOIN" <=> i = n
            /\ inbox'[c][n].group = joining'[c]
            /\ Settles(shm', NameOf[c], inbox'[c], n, joining'[c],
                       inbox'[c][n].content)
        BY <1>1, <3>1, <3>2, <4>2, <4>3, <4>4
      <4> HIDE DEF n
      <4>6. Confirmed(c)'
        BY <1>1, <2>4, <4>2, <4>5 DEF Confirmed
      <4> QED
        BY <4>6 DEF States
    <3> QED
      BY <3>4, <3>5
  <2> QED
    BY <1>3, <2>1, <2>2, <2>3, <2>4 DEF States
<1>7. Fine(c)'
  BY <1>5, <1>6 DEF Fine
<1> QED
  BY <1>1, <1>2, <1>7, LocalDrift

\* A process that sends one datagram, or none.
LEMMA SendLonger ==
  ASSUME Queues, NEW c \in Addrs, NEW type, NEW g, NEW x,
         Send(c, Datagrams(c, type, g, x))
  PROVE  /\ \E d : /\ Longer(out[c], out'[c], d)
                   /\ d.type = type /\ d.group = g
         /\ \A e \in Addrs \ {c} : out'[e] = out[e]
<1> DEFINE d == [type |-> type, from |-> c, sender |-> NameOf[c],
                 group |-> g, arg |-> x]
<1>1. Datagrams(c, type, g, x) = <<d>> /\ d.type = type /\ d.group = g
  BY DEF Datagrams
<1> HIDE DEF d
<1>2. /\ out'[c] = out[c] \o <<d>> /\ out[c] \in Seq(Requests)
      /\ \A e \in Addrs \ {c} : out'[e] = out[e]
  BY <1>1 DEF Queues, Send, Requesting
<1>3. Longer(out[c], out'[c], d)
  BY <1>2, LongerQueue
<1> QED
  BY <1>1, <1>2, <1>3

\* A process that runs sends nothing out of order.
LEMMA RunningOrderly ==
  ASSUME NEW c, pc'[c] \in Running, ~Has(inbox'[c], "PUBLIC"),
         \A type \in {"MERGE_GROUPS", "CREATE_GROUP", "DISCONNECT"} :
            ~Has(out'[c], type)
  PROVE  Orderly(c)'
  BY DEF Orderly, Has, Running

LEMMA OrderlyHas ==
  ASSUME NEW c, Orderly(c), ~Has(out[c], "DISCONNECT"),
         NEW type \in {"MERGE_GROUPS", "CREATE_GROUP", "DISCONNECT"}
  PROVE  ~Has(out[c], type)
  BY DEF Orderly, Has

\* What is known of a client whose main() is connected.
LEMMA RunningClient ==
  ASSUME PromptInv, NEW c \in Addrs, pc[c] \in Running
  PROVE  /\ Globals /\ Queues /\ NoClientDrifts
         /\ Orderly(c) /\ States(c) /\ HasSlot(shm, c)
         /\ ~Has(inbox[c], "PUBLIC")
         /\ \A type \in {"MERGE_GROUPS", "CREATE_GROUP", "DISCONNECT"} :
              ~Has(out[c], type)
<1>1. Globals /\ Queues /\ NoClientDrifts /\ ClientInv(c)
  BY DEF PromptInv, ChatTypeInv, ChatInv
<1>2. ~Has(out[c], "DISCONNECT") /\ HasSlot(shm, c)
  BY <1>1 DEF ClientInv, Claims, Running
<1>3. Orderly(c) /\ States(c)
  BY <1>1, <1>2 DEF NoClientDrifts, States
<1>4. ~Has(inbox[c], "PUBLIC")
  BY <1>3 DEF Orderly
<1> QED
  BY <1>1, <1>2, <1>3, <1>4, OrderlyHas

\* A command that changes none of the globals the prompt shows.
LEMMA PlainDrift ==
  ASSUME PromptInv, NEW c \in Addrs, Local(c),
         pc[c] \in Running \ {"leaving"}, pc'[c] \in Running \ {"leaving"},
         pc[c] = "ready" => joining[c] = NoGroup,
         joining'[c] = joining[c], current_group'[c] = current_group[c],
         color'[c] = color[c], inbox'[c] = inbox[c],
         \/ out'[c] = out[c]
         \/ \E d : /\ Longer(out[c], out'[c], d)
                   /\ d.type \notin {"JOIN", "LEAVE", "MERGE_GROUPS",
                                     "CREATE_GROUP", "DISCONNECT"}
  PROVE  NoClientDrifts'
<1>1. /\ NoClientDrifts /\ States(c) /\ HasSlot(shm, c)
      /\ ~Has(inbox[c], "PUBLIC")
      /\ \A type \in {"MERGE_GROUPS", "CREATE_GROUP", "DISCONNECT"} :
           ~Has(out[c], type)
      /\ shm' = shm
  BY RunningClient DEF Local, serverVars
<1>2. \A type \in {"JOIN", "LEAVE", "MERGE_GROUPS", "CREATE_GROUP",
                   "DISCONNECT"} : Has(out'[c], type) => Has(out[c], type)
  BY HasLonger
<1>3. Orderly(c)'
  BY <1>1, <1>2, RunningOrderly
<1>4. Idle(c) \/ Settled(c)
  BY <1>1 DEF States, Asking, Confirmed
<1>5. Idle(c) => Idle(c)'
  <2>1. Idle(c) => WillLeave(shm, NameOf[c], out'[c])
    BY <1>1, WillLeaveLonger DEF Idle
  <2> QED
    BY <1>1, <1>2, <2>1 DEF Idle
<1>6. Settled(c) => Settled(c)'
  BY <1>1, <1>2 DEF Settled
<1>7. Fine(c)'
  BY <1>3, <1>4, <1>5, <1>6 DEF Fine, States
<1> QED
  BY <1>1, <1>7, LocalDrift

\* /join: the LEAVE of the group that is shown goes first.
LEMMA JoinDrift ==
  ASSUME Calm, PromptInv, NEW c \in Addrs, NEW g \in Groups, CmdJoin(c, g)
  PROVE  NoClientDrifts'
<1>1. /\ pc[c] = "ready" /\ joining[c] = NoGroup /\ pc[c] \in Running
      /\ UNCHANGED <<serverVars, shm, pc, current_group, color, inbox>>
      /\ joining' = [joining EXCEPT ![c] = g]
  BY DEF CmdJoin, Types, Calm, Running, serverVars
<1>2. /\ Globals /\ Queues /\ NoClientDrifts /\ States(c) /\ HasSlot(shm, c)
      /\ ~Has(inbox[c], "PUBLIC")
      /\ \A type \in {"MERGE_GROUPS", "CREATE_GROUP", "DISCONNECT"} :
           ~Has(out[c], type)
  BY <1>1, RunningClient
<1>3. Idle(c) \/ Settled(c)
  BY <1>1, <1>2 DEF States, Asking, Confirmed
<1>4. joining'[c] = g /\ g # NoGroup
  BY <1>1, <1>2, GroupsAssumption DEF Globals
<1> DEFINE leave == IF current_group[c] = NoGroup THEN <<>>
                    ELSE Datagrams(c, "LEAVE", current_group[c], Nothing)
           join == Datagrams(c, "JOIN", g, Nothing)
           l == [type |-> "LEAVE", from |-> c, sender |-> NameOf[c],
                 group |-> current_group[c], arg |-> Nothing]
           j == [type |-> "JOIN", from |-> c, sender |-> NameOf[c],
                 group |-> g, arg |-> Nothing]
           q == out[c] \o leave
<1>5. leave = IF current_group[c] = NoGroup THEN <<>> ELSE <<l>>
  BY DEF Datagrams
<1>6. join = <<j>>
  BY DEF Datagrams
<1>7. /\ l.type = "LEAVE" /\ l.group = current_group[c]
      /\ j.type = "JOIN" /\ j.group = g
  OBVIOUS
<1>8. Send(c, leave \o join)
  BY DEF CmdJoin
<1> HIDE DEF leave, join, l, j
<1>9. /\ out'[c] = out[c] \o (leave \o <<j>>)
      /\ \A e \in Addrs \ {c} : out'[e] = out[e]
  BY <1>2, <1>6, <1>8 DEF Queues, Send
<1>10. PICK S : out[c] \in Seq(S) /\ l \in S /\ j \in S
  <2>1. out[c] \in Seq(Requests \cup {l, j})
    BY <1>2 DEF Queues, Requesting
  <2> QED
    BY <2>1
<1>11. /\ q \in Seq(S) /\ out'[c] = q \o <<j>>
       /\ current_group[c] = NoGroup => q = out[c]
       /\ current_group[c] # NoGroup => q = out[c] \o <<l>>
  <2>1. /\ <<>> \in Seq(S) /\ <<l>> \in Seq(S) /\ <<j>> \in Seq(S)
        /\ out[c] \o <<>> = out[c]
    BY <1>10
  <2>2. leave \in Seq(S)
    BY <1>5, <2>1
  <2>3. out[c] \o (leave \o <<j>>) = (out[c] \o leave) \o <<j>>
    <3> DEFINE r == <<j>>
    <3>1. r \in Seq(S)
      BY <2>1
    <3> HIDE DEF r
    <3>2. ASSUME NEW s \in Seq(S), NEW t \in Seq(S), NEW u \in Seq(S)
          PROVE  (s \o t) \o u = s \o (t \o u)
      BY ConcatAssociative
    <3>3. out[c] \o (leave \o r) = (out[c] \o leave) \o r
      BY <1>10, <2>2, <3>1, <3>2, Zenon
    <3> QED
      BY <3>3 DEF r
  <2>4. out[c] \o leave \in Seq(S)
    BY <1>10, <2>2, ConcatProperties
  <2> QED
    BY <1>5, <1>9, <2>1, <2>3, <2>4
<1> HIDE DEF q
<1>12. Longer(q, out'[c], j)
  BY <1>11, LongerQueue
<1>13. current_group[c] # NoGroup => Longer(out[c], q, l)
  BY <1>10, <1>11, LongerQueue
<1>14. \A type : type # "LEAVE" => (Has(q, type) <=> Has(out[c], type))
  BY <1>7, <1>11, <1>13, HasLonger
<1>15. Orderly(c)'
  <2>1. \A type \in {"MERGE_GROUPS", "CREATE_GROUP", "DISCONNECT"} :
          ~Has(out'[c], type)
    BY <1>2, <1>7, <1>12, <1>14, HasLonger
  <2> QED
    BY <1>1, <1>2, <2>1, RunningOrderly
<1>16. ~Has(q, "JOIN") /\ ~Has(inbox[c], "JOIN")
  BY <1>3, <1>14 DEF Idle, Settled
<1>17. WillLeave(shm, NameOf[c], q)
  <2>1. CASE Idle(c)
    BY <1>1, <1>2, <1>11, <2>1 DEF Idle
  <2>2. CASE Settled(c)
    <3>1. /\ current_group[c] # NoGroup
          /\ \A h \in Groups : IsMember(shm, h, NameOf[c]) =>
                                 h = current_group[c]
      BY <2>2 DEF Settled, Settles
    <3>2. \E i \in 1 .. Len(q) : q[i] = l
      BY <1>13, <3>1 DEF Longer
    <3> QED
      BY <1>7, <3>1, <3>2 DEF WillLeave
  <2> QED
    BY <1>3, <2>1, <2>2
<1>18. Asking(c)'
  <2>1. WillLeave(shm', NameOf[c], out'[c])
    BY <1>1, <1>12, <1>17, WillLeaveLonger
  <2>2. /\ Len(out'[c]) \in 1 .. Len(out'[c]) /\ Len(q) \in Nat
        /\ Len(out'[c]) = Len(q) + 1
        /\ out'[c][Len(out'[c])] = j
        /\ \A i \in 1 .. Len(q) : out'[c][i] = q[i]
    BY <1>12 DEF Longer
  <2>3. \A i \in 1 .. Len(out'[c]) :
          out'[c][i].type = "JOIN" <=> i = Len(out'[c])
    <3>1. \A i \in 1 .. Len(q) : q[i].type # "JOIN"
      BY <1>16 DEF Has
    <3> QED
      BY <1>7, <2>2, <3>1
  <2>4. out'[c] # <<>>
    BY <2>2
  <2>5. out'[c][Len(out'[c])].group = joining'[c]
    BY <1>4, <1>7, <2>2
  <2> QED
    BY <1>1, <1>4, <1>16, <2>1, <2>3, <2>4, <2>5 DEF Asking
<1>19. Local(c)
  BY <1>1, <1>2, <1>9 DEF Local, Globals
<1>20. Fine(c)'
  BY <1>15, <1>18 DEF Fine, States
<1> QED
  BY <1>2, <1>19, <1>20, LocalDrift

\* /leave, and what main() does after it.
LEMMA LeaveDrift ==
  ASSUME Calm, PromptInv, NEW c \in Addrs, CmdLeave(c) \/ ClearGroup(c)
  PROVE  NoClientDrifts'
<1>1. pc[c] \in {"ready", "leaving"} /\ pc[c] \in Running
  BY DEF CmdLeave, ClearGroup, Types, Running
<1>2. /\ Globals /\ Queues /\ NoClientDrifts /\ States(c) /\ HasSlot(shm, c)
      /\ ~Has(inbox[c], "PUBLIC")
      /\ \A type \in {"MERGE_GROUPS", "CREATE_GROUP", "DISCONNECT"} :
           ~Has(out[c], type)
  BY <1>1, RunningClient
<1>3. UNCHANGED <<serverVars, shm, joining, inbox>>
  BY DEF CmdLeave, ClearGroup, serverVars
<1>4. Local(c) /\ Fine(c)'
  <2>1. CASE CmdLeave(c)
    <3>1. /\ pc[c] = "ready" /\ joining[c] = NoGroup
          /\ current_group[c] # NoGroup /\ current_group'[c] = current_group[c]
          /\ pc' = [pc EXCEPT ![c] = "leaving"]
          /\ UNCHANGED <<current_group, color>>
          /\ Send(c, Datagrams(c, "LEAVE", current_group[c], Nothing))
      BY <2>1 DEF CmdLeave, Types, Calm
    <3>2. Settled(c)
      BY <1>2, <3>1 DEF States, Idle, Asking, Confirmed
    <3>3. PICK d : /\ Longer(out[c], out'[c], d)
                   /\ d.type = "LEAVE" /\ d.group = current_group[c]
      BY <1>2, <3>1, SendLonger
    <3>4. \A e \in Addrs \ {c} : out'[e] = out[e]
      BY <1>2, <3>1, SendLonger
    <3>5. Local(c) /\ pc'[c] = "leaving"
      BY <1>2, <1>3, <3>1, <3>4 DEF Local, Globals
    <3>6. \A type : type # "LEAVE" => (Has(out'[c], type) <=> Has(out[c], type))
      BY <3>3, HasLonger
    <3>7. Orderly(c)'
      <4>1. pc'[c] \in Running
        BY <3>5 DEF Running
      <4> QED
        BY <1>2, <1>3, <3>6, <4>1, RunningOrderly
    <3>8. WillLeave(shm', NameOf[c], out'[c])
      <4>1. \A h \in Groups : IsMember(shm', h, NameOf[c]) =>
                                h = current_group[c]
        BY <1>3, <3>2 DEF Settled, Settles
      <4>2. \E i \in 1 .. Len(out'[c]) : out'[c][i] = d
        BY <3>3 DEF Longer
      <4> QED
        BY <3>3, <4>1, <4>2 DEF WillLeave
    <3>9. Idle(c)'
      BY <1>3, <3>1, <3>2, <3>5, <3>6, <3>8 DEF Idle, Settled
    <3> QED
      BY <3>5, <3>7, <3>9 DEF Fine, States
  <2>2. CASE ClearGroup(c)
    <3>1. /\ pc[c] = "leaving" /\ pc'[c] = "ready" /\ current_group'[c] = NoGroup
          /\ out' = out /\ Local(c)
      BY <1>2, <1>3, <2>2 DEF ClearGroup, Globals, Local
    <3>2. Idle(c)
      BY <1>2, <3>1 DEF States, Settled, Asking, Confirmed
    <3>3. Idle(c)'
      BY <1>3, <3>1, <3>2 DEF Idle
    <3>4. pc'[c] \in Running
      BY <3>1 DEF Running
    <3>5. Orderly(c)'
      BY <1>2, <1>3, <3>1, <3>4, RunningOrderly
    <3> QED
      BY <3>1, <3>3, <3>5 DEF Fine, States
  <2> QED
    BY <2>1, <2>2
<1> QED
  BY <1>2, <1>4, LocalDrift

\* A command that sends one request of another kind.
LEMMA PlainRequest ==
  ASSUME Calm, PromptInv, NEW c \in Addrs,
         UNCHANGED <<serverVars, current_group, color, joining, inbox>>,
         NEW command, Types(c, command, 1),
         pc' = pc \/ pc' = [pc EXCEPT ![c] = "LIST_USERS"]
                  \/ pc' = [pc EXCEPT ![c] = "LIST_GROUPS"],
         NEW type, NEW g, NEW x, Send(c, Datagrams(c, type, g, x)),
         type \notin {"JOIN", "LEAVE", "MERGE_GROUPS", "CREATE_GROUP",
                      "DISCONNECT"}
  PROVE  NoClientDrifts'
<1>1. pc[c] = "ready" /\ joining[c] = NoGroup
  BY DEF Types, Calm
<1>2. Globals /\ Queues
  BY DEF PromptInv, ChatTypeInv
<1>3. /\ pc[c] \in Running \ {"leaving"} /\ pc'[c] \in Running \ {"leaving"}
      /\ \A e \in Addrs \ {c} : pc'[e] = pc[e]
  BY <1>1, <1>2 DEF Running, Globals
<1>4. PICK d : Longer(out[c], out'[c], d) /\ d.type = type
  BY <1>2, SendLonger
<1>5. \A e \in Addrs \ {c} : out'[e] = out[e]
  BY <1>2, SendLonger
<1>6. Local(c)
  BY <1>3, <1>5 DEF Local
<1> QED
  BY <1>1, <1>3, <1>4, <1>6, PlainDrift

LEMMA CommandDrift ==
  ASSUME Calm, PromptInv, NEW c \in Addrs, ProcessCommand(c)
  PROVE  NoClientDrifts'
<1>1. ASSUME NEW command, NEW type, NEW x, OnCurrentGroup(c, command, type, x),
             type \in {"CHANGE_COLOR", "KICK_USER", "PROMOTE_ADMIN",
                       "DEMOTE_ADMIN", "PUBLIC"}
      PROVE  NoClientDrifts'
  <2>1. /\ UNCHANGED <<serverVars, current_group, color, joining, inbox>>
        /\ Types(c, command, 1) /\ pc' = pc
        /\ Send(c, Datagrams(c, type, current_group[c], x))
    BY <1>1 DEF OnCurrentGroup, clientVars
  <2> QED
    BY <1>1, <2>1, PlainRequest
<1>2. ASSUME NEW x \in Colors, CmdColor(c, x)
      PROVE  NoClientDrifts'
  BY <1>1, <1>2 DEF CmdColor
<1>3. ASSUME NEW u \in Names, CmdKick(c, u) \/ CmdPromote(c, u) \/ CmdDemote(c, u)
      PROVE  NoClientDrifts'
  BY <1>1, <1>3 DEF CmdKick, CmdPromote, CmdDemote
<1>4. CASE CmdText(c)
  BY <1>1, <1>4 DEF CmdText
<1>5. ASSUME NEW u \in Names, CmdMsg(c, u)
      PROVE  NoClientDrifts'
  <2>1. /\ UNCHANGED <<serverVars, current_group, color, joining, inbox>>
        /\ Types(c, "msg", 1) /\ pc' = pc
        /\ Send(c, Datagrams(c, "PRIVATE", NoGroup, u))
    BY <1>5 DEF CmdMsg, clientVars
  <2> QED
    BY <2>1, PlainRequest
<1>6. ASSUME NEW command, NEW type \in {"LIST_USERS", "LIST_GROUPS"},
             CmdList(c, command, type)
      PROVE  NoClientDrifts'
  <2>1. /\ UNCHANGED <<serverVars, current_group, color, joining, inbox>>
        /\ Types(c, command, 1) /\ pc' = [pc EXCEPT ![c] = type]
        /\ Send(c, Datagrams(c, type, NoGroup, Nothing))
    BY <1>6 DEF CmdList
  <2> QED
    BY <2>1, PlainRequest
<1>7. CASE ResetListReceived(c) \/ ShowList(c) \/ ListTimeout(c)
  <2>1. Globals
    BY DEF PromptInv, ChatTypeInv
  <2>2. /\ pc[c] \in Running \ {"leaving", "ready"}
        /\ pc'[c] \in Running \ {"leaving"}
        /\ \A e \in Addrs \ {c} : pc'[e] = pc[e]
    BY <1>7, <2>1
    DEF ResetListReceived, ShowList, ListTimeout, Running, Globals
  <2>3. UNCHANGED <<serverVars, current_group, color, joining, inbox, out>>
    BY <1>7 DEF ResetListReceived, ShowList, ListTimeout
  <2>4. Local(c)
    BY <2>2, <2>3 DEF Local
  <2> QED
    BY <2>2, <2>3, <2>4, PlainDrift
<1>8. \A g1, g2 \in Groups : ~CmdMerge(c, g1, g2)
  BY DEF CmdMerge, Types, Calm
<1> QED
  BY <1>2, <1>3, <1>4, <1>5, <1>6, <1>7, <1>8, JoinDrift, LeaveDrift
  DEF ProcessCommand

\* Before main() is connected, and after it.
LEMMA ConnectionDrift ==
  ASSUME Calm, PromptInv, NEW c \in Addrs, Connection(c)
  PROVE  NoClientDrifts'
<1>1. /\ Globals /\ Queues /\ NoClientDrifts /\ ClientInv(c) /\ Orderly(c)
      /\ UNCHANGED <<serverVars, shm>>
  BY DEF PromptInv, ChatTypeInv, ChatInv, NoClientDrifts, Connection, Start,
         ResetConnected, Connected, ConnectTimeout, GiveUp, Quit, Crash, End,
         serverVars
<1>2. pc[c] \notin Running /\ ~Has(out[c], "DISCONNECT") => Idle(c)
  BY <1>1 DEF NoClientDrifts, Settled, Asking, Confirmed, Running
<1>3. CASE Start(c)
  <2>1. /\ pc[c] = "off" /\ out[c] = <<>> /\ pc' = [pc EXCEPT ![c] = "connect_sent"]
        /\ UNCHANGED <<current_group, color, joining, inbox>>
        /\ Send(c, Datagrams(c, "CONNECT", NoGroup, Nothing))
    BY <1>3 DEF Start
  <2>2. PICK d : Longer(out[c], out'[c], d) /\ d.type = "CONNECT"
    BY <1>1, <2>1, SendLonger
  <2>3. \A e \in Addrs \ {c} : out'[e] = out[e]
    BY <1>1, <2>1, SendLonger
  <2>4. Local(c) /\ pc'[c] = "connect_sent"
    BY <1>1, <2>1, <2>3 DEF Local, Globals
  <2>5. \A type : ~Has(out[c], type)
    BY <2>1 DEF Has
  <2>6. Idle(c)
    BY <1>2, <2>1, <2>5 DEF Running
  <2>7. /\ ~Has(out'[c], "JOIN") /\ current_group'[c] = NoGroup
        /\ HasSlot(shm, c) => WillLeave(shm, NameOf[c], out'[c])
    BY <2>1, <2>2, <2>5, <2>6, HasLonger, WillLeaveLonger DEF Idle
  <2>8. Idle(c)'
    BY <1>1, <2>1, <2>6, <2>7 DEF Idle
  <2>9. \A i \in 1 .. Len(out'[c]) : out'[c][i].type = "CONNECT"
    BY <2>1, <2>2 DEF Longer
  <2>10. Orderly(c)'
    BY <1>1, <2>1, <2>4, <2>9 DEF Orderly
  <2> QED
    BY <1>1, <2>4, <2>8, <2>10, LocalDrift DEF Fine, States
<1>4. CASE ResetConnected(c) \/ Connected(c) \/ ConnectTimeout(c)
  <2>1. /\ pc[c] \in {"connect_sent", "connecting"}
        /\ pc'[c] \in {"connecting", "ready", "unreachable"}
        /\ \A e \in Addrs \ {c} : pc'[e] = pc[e]
        /\ UNCHANGED <<current_group, color, joining, inbox, out>>
    BY <1>1, <1>4 DEF ResetConnected, Connected, ConnectTimeout, Globals
  <2>2. ~Has(out[c], "DISCONNECT") /\ pc[c] \notin Running /\ Idle(c)
    BY <1>1, <1>2, <2>1 DEF ClientInv, Running
  <2>3. Local(c)
    BY <1>1, <2>1 DEF Local
  <2>4. Idle(c)'
    BY <1>1, <2>1, <2>2 DEF Idle
  <2>5. Orderly(c)'
    BY <1>1, <2>1, <2>2 DEF Orderly
  <2> QED
    BY <1>1, <2>3, <2>4, <2>5, LocalDrift DEF Fine, States
<1>5. ASSUME End(c)
      PROVE  /\ pc'[c] = "off" /\ joining'[c] = NoGroup
             /\ current_group'[c] = NoGroup /\ inbox'[c] = <<>>
             /\ \A e \in Addrs \ {c} :
                  /\ pc'[e] = pc[e] /\ joining'[e] = joining[e]
                  /\ current_group'[e] = current_group[e]
                  /\ color'[e] = color[e] /\ inbox'[e] = inbox[e]
  BY <1>1, <1>5 DEF End, Globals, Queues
<1>6. CASE GiveUp(c)
  <2>1. pc[c] = "unreachable" /\ End(c) /\ out' = out
    BY <1>6 DEF GiveUp
  <2>2. ~Has(out[c], "DISCONNECT") /\ pc[c] \notin Running /\ Idle(c)
    BY <1>1, <1>2, <2>1 DEF ClientInv, Running
  <2>3. Local(c)
    BY <1>1, <1>5, <2>1 DEF Local
  <2>4. Idle(c)'
    BY <1>1, <1>5, <2>1, <2>2 DEF Idle, Has
  <2>5. Orderly(c)'
    BY <1>1, <1>5, <2>1, <2>2 DEF Orderly, Has
  <2> QED
    BY <1>1, <2>3, <2>4, <2>5, LocalDrift DEF Fine, States
<1>7. CASE Quit(c)
  <2>1. /\ pc[c] \in Running /\ End(c)
        /\ Send(c, Datagrams(c, "DISCONNECT", NoGroup, Nothing))
    BY <1>1, <1>7 DEF Quit, Calm, Globals, Positions
  <2>2. PICK d : Longer(out[c], out'[c], d) /\ d.type = "DISCONNECT"
    BY <1>1, <2>1, SendLonger
  <2>3. \A e \in Addrs \ {c} : out'[e] = out[e]
    BY <1>1, <2>1, SendLonger
  <2>4. Local(c)
    BY <1>1, <1>5, <2>1, <2>3 DEF Local
  <2>5. /\ Has(out'[c], "DISCONNECT")
        /\ ~Has(out'[c], "MERGE_GROUPS") /\ ~Has(out'[c], "CREATE_GROUP")
    BY <2>1, <2>2, RunningClient, HasLonger
  <2>6. \A i \in 1 .. Len(out'[c]) :
          out'[c][i].type = "DISCONNECT" => i = Len(out'[c])
    <3>1. \A i \in 1 .. Len(out[c]) : out[c][i].type # "DISCONNECT"
      BY <2>1, RunningClient DEF Has
    <3> QED
      BY <2>2, <3>1 DEF Longer
  <2>7. Orderly(c)'
    BY <1>5, <2>1, <2>5, <2>6 DEF Orderly, Has
  <2> QED
    BY <1>1, <2>4, <2>5, <2>7, LocalDrift DEF Fine
<1> QED
  BY <1>3, <1>4, <1>6, <1>7 DEF Connection, Crash, Calm

-----------------------------------------------------------------------------
(* The theorems.                                                           *)

LEMMA ChatInitPrompt ==
  ASSUME Calm, ChatInit
  PROVE  PromptInv
<1>1. ChatTypeInv /\ ChatInv /\ TablesInv
  BY ChatInitTypes, ChatInitInv, InitTables DEF ChatInit
<1>2. GhostFree(shm) /\ \A c \in Addrs : ~HasSlot(shm, c)
  BY AddrsAssumption
  DEF ChatInit, Init, EmptyMemory, NoUser, NoGroupSlot, GhostFree, AtHome,
      IsMember, GroupFound, HasSlot, UserFound
<1>3. ASSUME NEW c \in Addrs
      PROVE  Orderly(c) /\ Idle(c)
  <2>1. /\ out[c] = <<>> /\ inbox[c] = <<>> /\ joining[c] = NoGroup
        /\ current_group[c] = NoGroup
    BY DEF ChatInit
  <2>2. \A type : ~Has(out[c], type) /\ ~Has(inbox[c], type)
    BY <2>1 DEF Has
  <2>3. Orderly(c)
    BY <2>1, <2>2 DEF Orderly
  <2> QED
    BY <1>2, <2>1, <2>2, <2>3 DEF Idle
<1> QED
  BY <1>1, <1>2, <1>3 DEF PromptInv, NoClientDrifts

\* The tables of the server, turn by turn.
LEMMA TablesStep ==
  ASSUME TablesInv, GhostFree(shm), Queues, NEW c \in Addrs, Serve(c)
  PROVE  TablesInv' /\ GhostFree(shm')
<1>1. PICK i \in 1 .. Len(out[c]) : Receive(out[c][i])
  BY DEF Serve, Arrivable
<1> DEFINE m == out[c][i]
<1>2. m \in Requests
  BY DEF Queues, Requesting
<1> HIDE DEF m
<1>3. Receive(m)
  BY <1>1 DEF m
<1>4. Next /\ HandleClientMessage(m)
  BY <1>2, <1>3 DEF Next, Receive
<1> QED
  BY <1>2, <1>4, StepMaps, GhostFreeStep DEF TablesInv

LEMMA ChatStepPrompt ==
  ASSUME Calm, PromptInv, [ChatNext]_vars
  PROVE  PromptInv'
<1>1. ChatTypeInv' /\ ChatInv'
  BY ChatStepTypes, ChatStepInv DEF PromptInv, Calm
<1>2. CASE UNCHANGED vars
  <2>1. TablesInv' /\ GhostFree(shm')
    BY <1>2 DEF PromptInv, TablesInv, ServerInv, vars, serverVars
  <2>2. NoClientDrifts'
    BY <1>2 DEF PromptInv, NoClientDrifts, Orderly, Idle, Settled, Asking,
                Confirmed, vars, serverVars, clientVars
  <2> QED
    BY <1>1, <2>1, <2>2 DEF PromptInv
<1>3. ASSUME NEW c \in Addrs, Serve(c)
      PROVE  PromptInv'
  <2>1. TablesInv' /\ GhostFree(shm')
    BY <1>3, TablesStep DEF PromptInv, ChatTypeInv
  <2>2. NoClientDrifts'
    BY <1>3, ServeDrift
  <2> QED
    BY <1>1, <2>1, <2>2 DEF PromptInv
<1>4. ASSUME NEW c \in Addrs,
             ReceiveThread(c) \/ Connection(c) \/ ProcessCommand(c)
      PROVE  PromptInv'
  <2>1. NoClientDrifts'
    BY <1>4, ReceiveDrift, ConnectionDrift, CommandDrift
  <2>2. UNCHANGED serverVars
    BY <1>1, <1>4
    DEF ReceiveThread, Connection, Start, ResetConnected, Connected,
        ConnectTimeout, GiveUp, Quit, Crash, End, ProcessCommand, CmdJoin,
        CmdLeave, ClearGroup, CmdMerge, CmdColor, CmdKick, CmdPromote,
        CmdDemote, CmdText, OnCurrentGroup, CmdMsg, CmdList,
        ResetListReceived, ShowList, ListTimeout
  <2>3. TablesInv' /\ GhostFree(shm')
    BY <2>2 DEF PromptInv, TablesInv, ServerInv, serverVars
  <2> QED
    BY <1>1, <2>1, <2>3 DEF PromptInv
<1>5. \A c \in Addrs : ~Lose(c)
  BY DEF Lose, Calm
<1> QED
  BY <1>2, <1>3, <1>4, <1>5 DEF ChatNext

\* Whatever crosses on the way, a client that has not quit is idle, settled
\* in its group, asking for one or about to be confirmed (client.c:60-150).
THEOREM ClientsNeverDrift ==
  ASSUME Calm
  PROVE  ChatSpec => []NoClientDrifts
<1>1. ChatInit => PromptInv
  BY ChatInitPrompt
<1>2. PromptInv /\ [ChatNext]_vars => PromptInv'
  BY ChatStepPrompt
<1>3. PromptInv => NoClientDrifts
  BY DEF PromptInv
<1> QED
  BY <1>1, <1>2, <1>3, PTL DEF ChatSpec

\* A client at rest is idle or settled.
LEMMA RestingStates ==
  ASSUME PromptInv, NEW c \in Addrs, AtRest(c)
  PROVE  /\ current_group[c] = NoGroup =>
              \A g \in Groups : ~IsMember(shm, g, NameOf[c])
         /\ current_group[c] # NoGroup =>
              Settles(shm, NameOf[c], inbox[c], 0, current_group[c], color[c])
<1>1. pc[c] = "ready" /\ out[c] = <<>> /\ inbox[c] = <<>> /\ pc[c] \in Running
  BY DEF AtRest, Running
<1>2. States(c) /\ HasSlot(shm, c)
  BY <1>1, RunningClient
<1>3. ~Asking(c) /\ ~Confirmed(c)
  BY <1>1 DEF Asking, Confirmed
<1>4. WillLeave(shm, NameOf[c], out[c]) =>
        \A g \in Groups : ~IsMember(shm, g, NameOf[c])
  BY <1>1 DEF WillLeave
<1> QED
  BY <1>1, <1>2, <1>3, <1>4 DEF States, Idle, Settled

\* Once the network is quiet the prompt is true: the user is a member of the
\* group it names, in the colour it has.
THEOREM PromptsAreTrue ==
  ASSUME Calm
  PROVE  ChatSpec => []PromptIsTrue
<1>1. ChatInit => PromptInv
  BY ChatInitPrompt
<1>2. PromptInv /\ [ChatNext]_vars => PromptInv'
  BY ChatStepPrompt
<1>3. PromptInv => PromptIsTrue
  <2> SUFFICES ASSUME PromptInv, NEW c \in Addrs, AtRest(c),
                      current_group[c] # NoGroup
               PROVE  /\ IsMember(shm, current_group[c], NameOf[c])
                      /\ color[c] = shm.groups[current_group[c]].color
    BY DEF PromptIsTrue
  <2>1. /\ Settles(shm, NameOf[c], inbox[c], 0, current_group[c], color[c])
        /\ inbox[c] = <<>>
    BY RestingStates DEF AtRest
  <2> QED
    BY <2>1 DEF Settles, EndsWith
<1> QED
  BY <1>1, <1>2, <1>3, PTL DEF ChatSpec

\* README:158: and it is in no other group.
THEOREM NobodyIsHidden ==
  ASSUME Calm
  PROVE  ChatSpec => []NoHiddenMembership
<1>1. ChatInit => PromptInv
  BY ChatInitPrompt
<1>2. PromptInv /\ [ChatNext]_vars => PromptInv'
  BY ChatStepPrompt
<1>3. PromptInv => NoHiddenMembership
  BY RestingStates DEF Settles, NoHiddenMembership
<1> QED
  BY <1>1, <1>2, <1>3, PTL DEF ChatSpec
=============================================================================
