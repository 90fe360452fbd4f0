----------------------------- MODULE ChatProofs -----------------------------
(***************************************************************************)
(* A running client keeps the slot of its user, over a good and over a bad *)
(* network, for any number of processes and names, if no Ctrl-C comes      *)
(* before the connection is acknowledged.  Then what arrives at a client   *)
(* when the server serves one request, which is one datagram at most, and  *)
(* the types of the clients' globals and queues.                           *)
(***************************************************************************)
EXTENDS Prompt, ServerProofs, FiniteSetTheorems, SequenceTheorems

-----------------------------------------------------------------------------
(* Queues.                                                                 *)

\* One datagram leaves a queue, the others keep their order.
LEMMA RemoveAtQueue ==
  ASSUME NEW S, NEW s \in Seq(S), NEW i \in 1 .. Len(s)
  PROVE  /\ RemoveAt(s, i) \in Seq(S)
         /\ Len(RemoveAt(s, i)) = Len(s) - 1
         /\ \A j \in 1 .. Len(s) - 1 :
              RemoveAt(s, i)[j] = IF j < i THEN s[j] ELSE s[j + 1]
<1> DEFINE a == SubSeq(s, 1, i - 1)
           b == SubSeq(s, i + 1, Len(s))
<1>1. /\ a \in Seq(S) /\ Len(a) = i - 1
      /\ b \in Seq(S) /\ Len(b) = Len(s) - i
  OBVIOUS
<1>2. \A j \in 1 .. i - 1 : a[j] = s[j]
  OBVIOUS
<1>3. \A j \in 1 .. Len(s) - i : b[j] = s[i + j]
  OBVIOUS
<1>4. RemoveAt(s, i) = a \o b
  BY DEF RemoveAt
<1> HIDE DEF a, b
<1>5. /\ a \o b \in Seq(S)
      /\ Len(a \o b) = Len(s) - 1
      /\ \A j \in 1 .. Len(s) - 1 :
           (a \o b)[j] = IF j <= i - 1 THEN a[j] ELSE b[j - (i - 1)]
  <2>1. Len(a) + Len(b) = Len(s) - 1
    BY <1>1
  <2>2. /\ a \o b \in Seq(S)
        /\ Len(a \o b) = Len(a) + Len(b)
        /\ \A j \in 1 .. Len(a) + Len(b) :
             (a \o b)[j] = IF j <= Len(a) THEN a[j] ELSE b[j - Len(a)]
    BY <1>1, ConcatProperties, Zenon
  <2>3. Len(a) = i - 1
    BY <1>1
  <2> QED
    BY <2>1, <2>2, <2>3, Zenon
<1>6. Len(s) \in Nat /\ i \in Nat
  OBVIOUS
<1>7. ASSUME NEW j \in 1 .. Len(s) - 1
      PROVE  (a \o b)[j] = IF j < i THEN s[j] ELSE s[j + 1]
  <2>1. /\ j \in Nat /\ (j <= i - 1 <=> j < i)
        /\ j < i => j \in 1 .. i - 1
        /\ ~(j < i) => j - (i - 1) \in 1 .. Len(s) - i
        /\ i + (j - (i - 1)) = j + 1
    BY <1>6
  <2>2. (a \o b)[j] = IF j < i THEN a[j] ELSE b[j - (i - 1)]
    BY <1>5, <2>1, Zenon
  <2>3. j < i => a[j] = s[j]
    BY <1>2, <2>1, Zenon
  <2>4. ~(j < i) => b[j - (i - 1)] = s[i + (j - (i - 1))]
    BY <1>3, <2>1, Zenon
  <2> QED
    BY <2>1, <2>2, <2>3, <2>4, Zenon
<1> QED
  BY <1>4, <1>5, <1>7

\* The datagrams sent at once, in some order.
LEMMA SetToSeqQueue ==
  ASSUME NEW S, IsFiniteSet(S)
  PROVE  SetToSeq(S) \in Seq(S)
<1>1. PICK f \in [1 .. Cardinality(S) -> S] : IsInjective(f)
  BY FS_CardinalityType DEF ExistsBijection, Bijection, Injection, IsInjective
<1>2. SetToSeq(S) \in [1 .. Cardinality(S) -> S]
  BY <1>1 DEF SetToSeq
<1> QED
  BY <1>2, FS_CardinalityType

-----------------------------------------------------------------------------
(* Who is connected, and where.                                            *)

\* Operations that leave connections and addresses alone.
SameConnections(s, t) ==
    \A u \in Names : /\ t.users[u].state = s.users[u].state
                     /\ t.users[u].addr = s.users[u].addr

\* The operations of group.c are such operations.
LEMMA GroupOperationsConnections ==
  ASSUME NEW s, MemoryInv(s), NEW g \in Groups, NEW u \in Names
  PROVE  /\ SameConnections(s, GroupCreate(s, g, u))
         /\ SameConnections(s, GroupAddUser(s, g, u))
         /\ SameConnections(s, GroupRemoveUser(s, g, u))
         /\ SameConnections(s, GroupAddAdmin(s, g, u))
         /\ SameConnections(s, GroupRemoveAdmin(s, g, u))
         /\ SameConnections(s, GroupKickUser(s, g, u))
<1>1. s.users \in [Names -> Users]
  BY DEF MemoryInv, SharedMemory
<1>2. SameConnections(s, GroupCreate(s, g, u))
  BY DEF SameConnections, GroupCreate
<1>3. SameConnections(s, GroupAddUser(s, g, u))
  BY <1>1 DEF SameConnections, GroupAddUser, Users
<1>4. ASSUME NEW t, t.users = s.users
      PROVE  SameConnections(s, GroupRemoveUser(t, g, u))
  BY <1>1, <1>4 DEF SameConnections, GroupRemoveUser, Users
<1>5. /\ GroupAddAdmin(s, g, u).users = s.users
      /\ GroupRemoveAdmin(s, g, u).users = s.users
  BY DEF GroupAddAdmin, GroupRemoveAdmin
<1> QED
  BY <1>2, <1>3, <1>4, <1>5 DEF SameConnections, GroupKickUser

\* So is group_merge.
LEMMA GroupMergeConnections ==
  ASSUME NEW s, MemoryInv(s), NEW g1 \in Groups, NEW g2 \in Groups,
         NEW t \in GroupMerge(s, g1, g2)
  PROVE  SameConnections(s, t)
<1>1. PICK users, admins : t = MergedWith(s, g1, g2, users, admins)
  BY DEF GroupMerge
<1>2. s.users \in [Names -> Users]
  BY DEF MemoryInv, SharedMemory
<1> QED
  BY <1>1, <1>2 DEF SameConnections, MergedWith, Users

\* What a request may do to connections: only a CONNECT or JOIN of a user who
\* has none makes one, to the address it came from, and only a DISCONNECT of
\* the user ends one.
ConnectionStep(s, t, m) ==
    \A u \in Names :
        /\ UserFound(t, u) =>
              \/ UserFound(s, u) /\ t.users[u].addr = s.users[u].addr
              \/ u = m.sender /\ t.users[u].addr = m.from
        /\ UserFound(s, u) /\ ~(m.type = "DISCONNECT" /\ m.sender = u) =>
              UserFound(t, u) /\ t.users[u].addr = s.users[u].addr

\* user_add for a user who is not connected.
LEMMA UserAddConnections ==
  ASSUME NEW s, MemoryInv(s), NEW m \in Requests, ~UserFound(s, m.sender)
  PROVE  ConnectionStep(s, UserAdd(s, m.sender, m.from), m)
<1>1. m.sender \in Names /\ s.users \in [Names -> Users]
  BY RequestType DEF MemoryInv, SharedMemory
<1> QED
  BY <1>1 DEF ConnectionStep, UserAdd, UserFound, Users

\* Every request is as ConnectionStep says.
LEMMA RequestConnections ==
  ASSUME MemoryInv(shm), NEW m \in Requests, HandleClientMessage(m)
  PROVE  ConnectionStep(shm, shm', m)
<1>1. m.from \in Addrs /\ m.sender \in Names
  BY RequestType
<1>2. CASE SameConnections(shm, shm')
  BY <1>2 DEF SameConnections, ConnectionStep, UserFound
<1>3. CASE Join(m)
  <2> DEFINE registered == IF UserFound(shm, m.sender) THEN shm
                           ELSE UserAdd(shm, m.sender, m.from)
             prepared == IF GroupFound(registered, m.group) THEN registered
                         ELSE GroupCreate(registered, m.group, m.sender)
  <2>1. m.group \in Groups
    BY <1>3, RequestType DEF Join
  <2>2. MemoryInv(registered)
    BY <1>1, UserAddInv
  <2>3. ConnectionStep(shm, registered, m)
    BY UserAddConnections DEF ConnectionStep
  <2>4. MemoryInv(prepared)
    BY <1>1, <2>1, <2>2, GroupCreateInv
  <2>5. SameConnections(registered, prepared)
    BY <1>1, <2>1, <2>2, GroupOperationsConnections DEF SameConnections
  <2>6. SameConnections(prepared, shm')
    BY <1>1, <1>3, <2>1, <2>4, GroupOperationsConnections
    DEF Join, SameConnections
  <2> HIDE DEF registered, prepared
  <2> QED
    BY <2>3, <2>5, <2>6 DEF SameConnections, ConnectionStep, UserFound
<1>4. CASE Leave(m)
  BY <1>1, <1>2, <1>4, RequestType, GroupOperationsConnections DEF Leave
<1>5. CASE ChangeColor(m)
  BY <1>2, <1>5 DEF ChangeColor, Refuse, Ignore, SameConnections
<1>6. CASE CreateGroup(m)
  <2>1. m.arg \in Groups
    BY <1>6, RequestType DEF CreateGroup
  <2> QED
    BY <1>1, <1>2, <1>6, <2>1, GroupOperationsConnections
    DEF CreateGroup, Ignore, SameConnections
<1>7. CASE MergeGroups(m)
  <2>1. m.arg[1] \in Groups /\ m.arg[2] \in Groups
    BY <1>7, RequestType DEF MergeGroups
  <2> QED
    BY <1>2, <1>7, <2>1, GroupMergeConnections
    DEF MergeGroups, Refuse, Ignore, SameConnections
<1>8. CASE KickUser(m) \/ PromoteAdmin(m) \/ DemoteAdmin(m)
  <2>1. m.group \in Groups /\ m.arg \in Names
    BY <1>8, RequestType DEF KickUser, PromoteAdmin, DemoteAdmin
  <2> QED
    BY <1>2, <1>8, <2>1, GroupOperationsConnections
    DEF KickUser, PromoteAdmin, DemoteAdmin, Refuse, Ignore, SameConnections
<1>9. CASE Disconnect(m)
  <2>1. shm.users \in [Names -> Users]
    BY DEF MemoryInv, SharedMemory
  <2> QED
    BY <1>1, <1>9, <2>1
    DEF Disconnect, UserRemove, ConnectionStep, UserFound, Users
<1>10. CASE Connect(m)
  BY <1>10, UserAddConnections DEF Connect, ConnectionStep
<1>11. CASE Public(m) \/ Private(m) \/ ListUsers(m) \/ ListGroups(m)
  BY <1>2, <1>11
  DEF Public, Private, ListUsers, ListGroups, Refuse, SameConnections
<1> QED
  BY <1>3, <1>4, <1>5, <1>6, <1>7, <1>8, <1>9, <1>10, <1>11
  DEF HandleClientMessage

-----------------------------------------------------------------------------
(* What a request sends.                                                   *)

LEMMA SendToFinite ==
  ASSUME NEW s, NEW users \in SUBSET Names, NEW type, NEW sender, NEW g,
         NEW content
  PROVE  IsFiniteSet(SendTo(s, users, type, sender, g, content))
<1> DEFINE to == {u \in users : UserFound(s, u)}
           f == [u \in to |-> Datagram(s.users[u].addr, type, sender, g, content)]
<1>1. IsFiniteSet(to)
  BY NamesAssumption, FS_Subset
<1>2. f \in Surjection(to, SendTo(s, users, type, sender, g, content))
  BY DEF Surjection, SendTo
<1> QED
  BY <1>1, <1>2, FS_Surjection

\* Groups are sets of names.
LEMMA SendToGroupFinite ==
  ASSUME NEW s, MemoryInv(s), NEW type, NEW sender, NEW g, NEW content
  PROVE  IsFiniteSet(SendToGroup(s, type, sender, g, content))
<1>1. CASE GroupFound(s, g)
  <2>1. s.groups[g].users \ {sender} \in SUBSET Names
    BY <1>1 DEF MemoryInv, SharedMemory, GroupSlots, GroupFound
  <2> QED
    BY <1>1, <2>1, SendToFinite DEF SendToGroup
<1>2. CASE ~GroupFound(s, g)
  BY <1>2, FS_EmptySet DEF SendToGroup
<1> QED
  BY <1>1, <1>2

\* The notices, and the silence of requests that are ignored.
LEMMA NoticesFinite ==
  ASSUME NEW s, MemoryInv(s), NEW u \in Names, NEW g
  PROVE  /\ IsFiniteSet(Tell(s, u))
         /\ IsFiniteSet(Announce(s, g))
         /\ IsFiniteSet(Tell(s, u) \cup Announce(s, g))
         /\ IsFiniteSet({})
<1>1. IsFiniteSet(Tell(s, u)) /\ IsFiniteSet(Announce(s, g))
  BY SendToFinite, SendToGroupFinite DEF Tell, Announce
<1> QED
  BY <1>1, FS_Union, FS_EmptySet

\* A request is answered by a finite number of datagrams, which the network
\* then orders somehow.
LEMMA SentFinite ==
  ASSUME MemoryInv(shm), MemoryInv(shm'), NEW m \in Requests,
         HandleClientMessage(m)
  PROVE  IsFiniteSet(sent')
<1>1. m.sender \in Names /\ {m.sender} \in SUBSET Names
  BY RequestType
<1>2. CASE Refuse(m) \/ Ignore
  BY <1>1, <1>2, NoticesFinite DEF Refuse, Ignore
<1>3. CASE Join(m)
  <2>1. /\ IsFiniteSet(SendToGroup(shm', "JOIN", m.sender, m.group, Nothing))
        /\ IsFiniteSet(SendTo(shm', {m.sender}, "JOIN", m.sender, m.group,
                              shm'.groups[m.group].color))
    BY <1>1, SendToFinite, SendToGroupFinite
  <2>2. \A s : IsFiniteSet(SendTo(s, {m.sender}, "PUBLIC", Serveur, NoGroup,
                                  m.group))
    BY <1>1, SendToFinite
  <2> QED
    BY <1>3, <2>1, <2>2, FS_Union DEF Join
<1>4. CASE Leave(m) \/ Public(m)
  BY <1>4, SendToGroupFinite DEF Leave, Public
<1>5. CASE Private(m)
  <2>1. {m.arg} \in SUBSET Names
    BY <1>5, RequestType DEF Private
  <2> QED
    BY <1>2, <1>5, <2>1, SendToFinite DEF Private
<1>6. CASE ChangeColor(m)
  <2>1. shm.groups[m.group].users \in SUBSET Names
    BY <1>6, RequestType DEF ChangeColor, MemoryInv, SharedMemory, GroupSlots
  <2> QED
    BY <1>2, <1>6, <2>1, SendToFinite DEF ChangeColor
<1>7. CASE CreateGroup(m) \/ ListUsers(m) \/ ListGroups(m) \/ Connect(m)
  BY <1>1, <1>2, <1>7, SendToFinite
  DEF CreateGroup, ListUsers, ListGroups, Connect
<1>8. CASE MergeGroups(m)
  <2> DEFINE g1 == m.arg[1]
             g2 == m.arg[2]
             Confirmation(u) ==
               SendTo(shm', {u}, "JOIN", u, g1, shm'.groups[g1].color)
             confirmations == {Confirmation(u) : u \in shm.groups[g2].users}
  <2>1. shm.groups[g2].users \in SUBSET Names
    BY <1>8, RequestType DEF MergeGroups, MemoryInv, SharedMemory, GroupSlots
  <2>2. \A u \in shm.groups[g2].users : IsFiniteSet(Confirmation(u))
    <3> TAKE u \in shm.groups[g2].users
    <3>1. {u} \in SUBSET Names
      BY <2>1
    <3> QED
      BY <3>1, SendToFinite
  <2>3. IsFiniteSet(confirmations)
    <3> DEFINE f == [u \in shm.groups[g2].users |-> Confirmation(u)]
    <3>1. IsFiniteSet(shm.groups[g2].users)
      BY <2>1, NamesAssumption, FS_Subset
    <3>2. f \in Surjection(shm.groups[g2].users, confirmations)
      BY DEF Surjection
    <3> QED
      BY <3>1, <3>2, FS_Surjection
  <2>4. IsFiniteSet(UNION confirmations)
    BY <2>2, <2>3, FS_UNION
  <2>5. IsFiniteSet(Announce(shm', g1))
    BY <1>1, NoticesFinite
  <2>6. IsFiniteSet(Announce(shm', g1) \cup UNION confirmations)
    BY <2>4, <2>5, FS_Union
  <2> QED
    BY <1>2, <1>8, <2>6 DEF MergeGroups
<1>9. CASE KickUser(m)
  <2>1. m.arg \in Names /\ {m.arg} \in SUBSET Names
    BY <1>9, RequestType DEF KickUser
  <2>2. /\ IsFiniteSet(Announce(shm', m.group))
        /\ IsFiniteSet(SendTo(shm', {m.arg}, "LEAVE", Serveur, m.group, Nothing))
        /\ IsFiniteSet({})
    BY <2>1, NoticesFinite, SendToFinite
  <2>3. IsFiniteSet(Announce(shm', m.group) \cup
                    SendTo(shm', {m.arg}, "LEAVE", Serveur, m.group, Nothing))
    BY <2>2, FS_Union
  <2> QED
    BY <1>2, <1>9, <2>2, <2>3 DEF KickUser
<1>10. CASE PromoteAdmin(m) \/ DemoteAdmin(m)
  <2>1. IsFiniteSet(Tell(shm, m.arg) \cup Announce(shm, m.group))
    BY <1>10, RequestType, NoticesFinite DEF PromoteAdmin, DemoteAdmin
  <2> QED
    BY <1>2, <1>10, <2>1 DEF PromoteAdmin, DemoteAdmin
<1>11. CASE Disconnect(m)
  BY <1>11, FS_EmptySet DEF Disconnect
<1> QED
  BY <1>3, <1>4, <1>5, <1>6, <1>7, <1>8, <1>9, <1>10, <1>11
  DEF HandleClientMessage

\* The types of the datagrams of SendTo.
LEMMA SendToType ==
  ASSUME NEW s, NEW users, NEW type, NEW sender, NEW g, NEW content,
         NEW d \in SendTo(s, users, type, sender, g, content)
  PROVE  /\ d.type = type /\ d.group = g
         /\ \E u \in users : UserFound(s, u) /\ d.to = s.users[u].addr
  BY DEF SendTo, Datagram

\* Those to a group.
LEMMA SendToGroupType ==
  ASSUME NEW s, NEW type, NEW sender, NEW g, NEW content,
         NEW d \in SendToGroup(s, type, sender, g, content)
  PROVE  d.type = type /\ d.group = g
  BY SendToType DEF SendToGroup

\* Those of the notices.
LEMMA NoticesType ==
  ASSUME NEW s, NEW u, NEW g, NEW d \in Tell(s, u) \cup Announce(s, g)
  PROVE  d.type = "PUBLIC"
  BY SendToType, SendToGroupType DEF Tell, Announce

\* A connection is acknowledged where the slot of its user is, and a join
\* names a group.
LEMMA SentNews ==
  ASSUME NEW m \in Requests, HandleClientMessage(m), NEW d \in sent'
  PROVE  /\ d.type = "JOIN" => d.group \in Groups
         /\ d.type = "CONNECT_ACK" =>
              \E u \in Names : UserFound(shm', u) /\ d.to = shm'.users[u].addr
<1>1. CASE Refuse(m) \/ Ignore
  BY <1>1, NoticesType DEF Refuse, Ignore
<1>2. CASE Join(m)
  <2>1. m.group \in Groups
    BY <1>2, RequestType DEF Join
  <2>2. (d.type = "JOIN" /\ d.group = m.group) \/ d.type = "PUBLIC"
    BY <1>2, SendToType, SendToGroupType DEF Join
  <2> QED
    BY <2>1, <2>2
<1>3. CASE Leave(m) \/ Public(m) \/ Private(m)
  <2>1. d.type \in {"LEAVE", "PUBLIC", "PRIVATE"}
    BY <1>1, <1>3, SendToType, SendToGroupType, NoticesType
    DEF Leave, Public, Private, Refuse
  <2> QED
    BY <2>1
<1>4. CASE ChangeColor(m) \/ CreateGroup(m) \/ ListUsers(m) \/ ListGroups(m)
  <2>1. d.type \in {"CHANGE_COLOR", "CREATE_GROUP", "LIST_USERS_RESPONSE",
                    "LIST_GROUPS_RESPONSE", "PUBLIC"}
    BY <1>4, SendToType, NoticesType
    DEF ChangeColor, CreateGroup, ListUsers, ListGroups, Refuse, Ignore
  <2> QED
    BY <2>1
<1>5. CASE MergeGroups(m)
  <2>1. m.arg[1] \in Groups
    BY <1>5, RequestType DEF MergeGroups
  <2>2. (d.type = "JOIN" /\ d.group = m.arg[1]) \/ d.type = "PUBLIC"
    <3>1. CASE sent' = Announce(shm', m.arg[1]) \cup
                       UNION {SendTo(shm', {u}, "JOIN", u, m.arg[1],
                                     shm'.groups[m.arg[1]].color) :
                              u \in shm.groups[m.arg[2]].users}
      <4>1. CASE d \in Announce(shm', m.arg[1])
        BY <4>1, NoticesType
      <4>2. ASSUME NEW u, d \in SendTo(shm', {u}, "JOIN", u, m.arg[1],
                                      shm'.groups[m.arg[1]].color)
            PROVE  d.type = "JOIN" /\ d.group = m.arg[1]
        BY <4>2, SendToType
      <4> QED
        BY <3>1, <4>1, <4>2
    <3> QED
      BY <1>1, <1>5, <3>1, NoticesType DEF MergeGroups, Refuse, Ignore
  <2> QED
    BY <2>1, <2>2
<1>6. CASE KickUser(m) \/ PromoteAdmin(m) \/ DemoteAdmin(m)
  <2>1. d.type \in {"LEAVE", "PUBLIC"}
    BY <1>6, SendToType, NoticesType
    DEF KickUser, PromoteAdmin, DemoteAdmin, Refuse, Ignore
  <2> QED
    BY <2>1
<1>7. CASE Connect(m)
  <2>1. /\ d.type = "CONNECT_ACK"
        /\ \E u \in {m.sender} : UserFound(shm', u) /\ d.to = shm'.users[u].addr
    BY <1>7, SendToType DEF Connect
  <2> QED
    BY <2>1, RequestType
<1>8. CASE Disconnect(m)
  BY <1>8 DEF Disconnect
<1> QED
  BY <1>2, <1>3, <1>4, <1>5, <1>6, <1>7, <1>8 DEF HandleClientMessage

-----------------------------------------------------------------------------
(* The invariant of one client.                                            *)

Positions == Running \cup {"off", "connect_sent", "connecting", "unreachable"}

\* A process sends one DISCONNECT in its life.
Outgoing(c, queue) ==
    /\ queue \in Seq(Requests)
    /\ \A i \in 1 .. Len(queue) : queue[i].from = c
    /\ \A i, j \in 1 .. Len(queue) :
         queue[i].type = "DISCONNECT" /\ queue[j].type = "DISCONNECT" => i = j

NamesItsGroup(d) == d.type = "JOIN" => d.group \in Groups

Incoming(queue) ==
    \E S : queue \in Seq(S) /\ \A d \in S : NamesItsGroup(d)

\* Where the slot of the user is taken for granted: by main(), by an
\* acknowledgement on its way, and by the last message of a process.
Claims(c) ==
    \/ connected[c] \/ pc[c] \in Running
    \/ Has(inbox[c], "CONNECT_ACK") \/ Has(out[c], "DISCONNECT")

ClientInv(c) ==
    /\ Outgoing(c, out[c])
    /\ Incoming(inbox[c])
    /\ Claims(c) => HasSlot(shm, c)
    /\ Has(out[c], "DISCONNECT") => pc[c] = "off"
    /\ pc[c] = "off" => ~connected[c] /\ inbox[c] = <<>>

\* A slot holds an address of its user.
OwnAddrs(s) ==
    \A u \in Names : UserFound(s, u) => NameOf[s.users[u].addr] = u

Shapes ==
    /\ pc \in [Addrs -> Positions]
    /\ connected \in [Addrs -> BOOLEAN]
    /\ current_group \in [Addrs -> Groups \cup {NoGroup}]
    /\ out = [c \in Addrs |-> out[c]]
    /\ inbox = [c \in Addrs |-> inbox[c]]

ChatInv ==
    /\ ServerInv
    /\ OwnAddrs(shm)
    /\ Shapes
    /\ \A c \in Addrs : ClientInv(c)

-----------------------------------------------------------------------------
(* Queues under the invariant.                                             *)

LEMMA RequestSender ==
  ASSUME NEW m \in Requests
  PROVE  m.sender = NameOf[m.from]
  BY DEF Requests, Request

\* A request leaves the queue; a DISCONNECT was the only one.
LEMMA OutgoingShrinks ==
  ASSUME NEW c, NEW queue, Outgoing(c, queue), NEW i \in 1 .. Len(queue)
  PROVE  /\ queue[i] \in Requests /\ queue[i].from = c
         /\ Outgoing(c, RemoveAt(queue, i))
         /\ Has(RemoveAt(queue, i), "DISCONNECT") =>
              Has(queue, "DISCONNECT") /\ queue[i].type # "DISCONNECT"
<1> DEFINE r == RemoveAt(queue, i)
           at(j) == IF j < i THEN j ELSE j + 1
<1>1. /\ r \in Seq(Requests) /\ Len(r) = Len(queue) - 1
      /\ \A j \in 1 .. Len(queue) - 1 :
           r[j] = IF j < i THEN queue[j] ELSE queue[j + 1]
  BY RemoveAtQueue DEF Outgoing
<1>2. Len(queue) \in Nat
  BY DEF Outgoing
<1> HIDE DEF r
<1>3. \A j \in 1 .. Len(r) :
        at(j) \in 1 .. Len(queue) /\ at(j) # i /\ r[j] = queue[at(j)]
  BY <1>1, <1>2
<1>4. \A j, k \in 1 .. Len(r) : at(j) = at(k) => j = k
  BY <1>1, <1>2
<1> HIDE DEF at
<1>5. Outgoing(c, r)
  <2>1. /\ \A j \in 1 .. Len(queue) : queue[j].from = c
        /\ \A j, k \in 1 .. Len(queue) :
             queue[j].type = "DISCONNECT" /\ queue[k].type = "DISCONNECT"
               => j = k
    BY DEF Outgoing
  <2>2. \A j \in 1 .. Len(r) : r[j].from = c
    BY <1>3, <2>1
  <2>3. ASSUME NEW j \in 1 .. Len(r), NEW k \in 1 .. Len(r),
               r[j].type = "DISCONNECT", r[k].type = "DISCONNECT"
        PROVE  j = k
    <3>1. at(j) = at(k)
      BY <1>3, <2>1, <2>3
    <3> QED
      BY <1>4, <3>1
  <2> QED
    BY <1>1, <2>2, <2>3 DEF Outgoing
<1>6. Has(r, "DISCONNECT") =>
        Has(queue, "DISCONNECT") /\ queue[i].type # "DISCONNECT"
  BY <1>3 DEF Has, Outgoing
<1> QED
  BY <1>5, <1>6 DEF Outgoing, r

\* Requests other than DISCONNECT are added.
LEMMA OutgoingGrows ==
  ASSUME NEW c, NEW queue, Outgoing(c, queue), NEW r \in Seq(Requests),
         \A i \in 1 .. Len(r) : r[i].from = c /\ r[i].type # "DISCONNECT"
  PROVE  /\ Outgoing(c, queue \o r)
         /\ Has(queue \o r, "DISCONNECT") => Has(queue, "DISCONNECT")
<1>1. Len(queue) \in Nat /\ Len(r) \in Nat
  BY DEF Outgoing
<1>2. /\ queue \o r \in Seq(Requests)
      /\ Len(queue \o r) = Len(queue) + Len(r)
      /\ \A i \in 1 .. Len(queue) + Len(r) : (queue \o r)[i] =
           IF i <= Len(queue) THEN queue[i] ELSE r[i - Len(queue)]
  BY ConcatProperties DEF Outgoing
<1>3. \A i \in 1 .. Len(queue \o r) :
        \/ i \in 1 .. Len(queue) /\ (queue \o r)[i] = queue[i]
        \/ \E k \in 1 .. Len(r) : (queue \o r)[i] = r[k]
  <2> TAKE i \in 1 .. Len(queue \o r)
  <2>1. CASE i <= Len(queue)
    BY <1>1, <1>2, <2>1
  <2>2. CASE ~(i <= Len(queue))
    <3>1. i - Len(queue) \in 1 .. Len(r)
      BY <1>1, <1>2, <2>2
    <3> QED
      BY <1>1, <1>2, <2>2, <3>1
  <2> QED
    BY <2>1, <2>2
<1> QED
  BY <1>2, <1>3 DEF Outgoing, Has

\* The last message of a process is added.
LEMMA OutgoingEnds ==
  ASSUME NEW c, NEW queue, Outgoing(c, queue), ~Has(queue, "DISCONNECT"),
         NEW r \in Seq(Requests), Len(r) = 1, r[1].from = c
  PROVE  Outgoing(c, queue \o r)
<1>1. Len(queue) \in Nat
  BY DEF Outgoing
<1>2. /\ queue \o r \in Seq(Requests)
      /\ Len(queue \o r) = Len(queue) + Len(r)
      /\ \A i \in 1 .. Len(queue) + Len(r) : (queue \o r)[i] =
           IF i <= Len(queue) THEN queue[i] ELSE r[i - Len(queue)]
  BY ConcatProperties DEF Outgoing
<1>3. \A i \in 1 .. Len(queue \o r) :
        \/ i \in 1 .. Len(queue) /\ (queue \o r)[i] = queue[i]
        \/ i = Len(queue) + 1 /\ (queue \o r)[i] = r[1]
  <2> TAKE i \in 1 .. Len(queue \o r)
  <2>1. CASE i <= Len(queue)
    BY <1>1, <1>2, <2>1
  <2>2. CASE ~(i <= Len(queue))
    <3>1. i = Len(queue) + 1 /\ i - Len(queue) = 1
      BY <1>1, <1>2, <2>2
    <3> QED
      BY <1>1, <1>2, <2>2, <3>1
  <2> QED
    BY <2>1, <2>2
<1> QED
  BY <1>2, <1>3 DEF Outgoing, Has

\* A datagram is taken from an inbox.
LEMMA IncomingShrinks ==
  ASSUME NEW queue, Incoming(queue), NEW i \in 1 .. Len(queue)
  PROVE  /\ NamesItsGroup(queue[i])
         /\ Incoming(RemoveAt(queue, i))
         /\ Has(RemoveAt(queue, i), "CONNECT_ACK") => Has(queue, "CONNECT_ACK")
<1>1. PICK S : queue \in Seq(S) /\ \A d \in S : NamesItsGroup(d)
  BY DEF Incoming
<1> DEFINE r == RemoveAt(queue, i)
<1>2. /\ r \in Seq(S) /\ Len(r) = Len(queue) - 1
      /\ \A j \in 1 .. Len(queue) - 1 :
           r[j] = IF j < i THEN queue[j] ELSE queue[j + 1]
  BY <1>1, RemoveAtQueue
<1>3. Len(queue) \in Nat /\ queue[i] \in S
  BY <1>1
<1> HIDE DEF r
<1>4. \A j \in 1 .. Len(r) : \E k \in 1 .. Len(queue) : r[j] = queue[k]
  BY <1>2, <1>3
<1>5. NamesItsGroup(queue[i]) /\ Incoming(r)
  BY <1>1, <1>2, <1>3 DEF Incoming
<1>6. Has(r, "CONNECT_ACK") => Has(queue, "CONNECT_ACK")
  BY <1>4 DEF Has
<1> QED
  BY <1>5, <1>6 DEF r

\* An inbox without datagrams.
LEMMA EmptyInbox == Incoming(<<>>)
<1> DEFINE nothing == {}
<1>1. <<>> \in Seq(nothing) /\ \A d \in nothing : NamesItsGroup(d)
  OBVIOUS
<1> HIDE DEF nothing
<1> QED
  BY <1>1 DEF Incoming

\* The datagrams of one turn of the server arrive.
LEMMA IncomingGrows ==
  ASSUME NEW queue, Incoming(queue), NEW S, IsFiniteSet(S),
         \A d \in S : NamesItsGroup(d)
  PROVE  /\ Incoming(queue \o SetToSeq(S))
         /\ Has(queue \o SetToSeq(S), "CONNECT_ACK") =>
              \/ Has(queue, "CONNECT_ACK")
              \/ \E d \in S : d.type = "CONNECT_ACK"
<1> DEFINE r == SetToSeq(S)
<1>1. PICK T : queue \in Seq(T) /\ \A d \in T : NamesItsGroup(d)
  BY DEF Incoming
<1>2. r \in Seq(S)
  BY SetToSeqQueue
<1> HIDE DEF r
<1>3. queue \in Seq(S \cup T) /\ r \in Seq(S \cup T)
  BY <1>1, <1>2, SeqMonotonic
<1>4. Len(queue) \in Nat /\ Len(r) \in Nat /\ \A i \in 1 .. Len(r) : r[i] \in S
  BY <1>1, <1>2
<1>5. /\ queue \o r \in Seq(S \cup T)
      /\ Len(queue \o r) = Len(queue) + Len(r)
      /\ \A i \in 1 .. Len(queue) + Len(r) : (queue \o r)[i] =
           IF i <= Len(queue) THEN queue[i] ELSE r[i - Len(queue)]
  BY <1>3, ConcatProperties
<1>6. \A i \in 1 .. Len(queue \o r) :
        \/ \E k \in 1 .. Len(queue) : (queue \o r)[i] = queue[k]
        \/ (queue \o r)[i] \in S
  <2> TAKE i \in 1 .. Len(queue \o r)
  <2>1. CASE i <= Len(queue)
    BY <1>4, <1>5, <2>1
  <2>2. CASE ~(i <= Len(queue))
    BY <1>4, <1>5, <2>2
  <2> QED
    BY <2>1, <2>2
<1>7. Incoming(queue \o r)
  BY <1>1, <1>5 DEF Incoming
<1>8. Has(queue \o r, "CONNECT_ACK") =>
        Has(queue, "CONNECT_ACK") \/ \E d \in S : d.type = "CONNECT_ACK"
  BY <1>6 DEF Has
<1> QED
  BY <1>7, <1>8 DEF r

-----------------------------------------------------------------------------
(* The server's turn.                                                      *)

\* Serving a request leaves every claim true: a slot goes with the last
\* message of its own process only, and an acknowledgement goes to the process
\* that has the slot.
LEMMA ServeStep ==
  ASSUME ChatInv, NEW c \in Addrs, Serve(c)
  PROVE  ChatInv'
<1>1. PICK i \in 1 .. Len(out[c]) :
        /\ Receive(out[c][i])
        /\ out' = [out EXCEPT ![c] = RemoveAt(@, i)]
  BY DEF Serve, Arrivable
<1> DEFINE m == out[c][i]
<1>2. /\ ServerInv /\ OwnAddrs(shm) /\ Shapes
      /\ \A d \in Addrs : ClientInv(d)
  BY DEF ChatInv
<1>3. /\ m \in Requests /\ m.from = c
      /\ Outgoing(c, RemoveAt(out[c], i))
      /\ Has(RemoveAt(out[c], i), "DISCONNECT") =>
           Has(out[c], "DISCONNECT") /\ m.type # "DISCONNECT"
  BY <1>2, OutgoingShrinks DEF ClientInv
<1>4. m.type = "DISCONNECT" => Has(out[c], "DISCONNECT")
  BY DEF Has
<1> HIDE DEF m
<1>5. HandleClientMessage(m) /\ m.sender = NameOf[c]
  BY <1>1, <1>3, RequestSender DEF Receive, m
<1>6. ServerInv'
  BY <1>1, <1>2, <1>3, StepInv DEF Next, m
<1>7. MemoryInv(shm) /\ MemoryInv(shm')
  BY <1>2, <1>6 DEF ServerInv
<1>8. ConnectionStep(shm, shm', m)
  BY <1>3, <1>5, <1>7, RequestConnections
<1>9. OwnAddrs(shm')
  BY <1>2, <1>3, <1>5, <1>8 DEF OwnAddrs, ConnectionStep
<1>10. \A x \in sent' :
         /\ NamesItsGroup(x)
         /\ x.type = "CONNECT_ACK" => HasSlot(shm', x.to)
  BY <1>3, <1>5, <1>9, SentNews DEF NamesItsGroup, OwnAddrs, HasSlot
<1>11. UNCHANGED <<pc, connected, current_group>>
  BY DEF Serve, clientVars
<1>12. /\ out' = [d \in Addrs |-> IF d = c THEN RemoveAt(out[c], i) ELSE out[d]]
       /\ inbox' = [d \in Addrs |->
                      IF pc[d] = "off" THEN inbox[d]
                      ELSE inbox[d] \o SetToSeq({x \in sent' : Heeded(x, d)})]
  BY <1>1, <1>2 DEF Shapes, Serve
<1>13. Shapes'
  BY <1>2, <1>11, <1>12 DEF Shapes
<1>14. ASSUME NEW d \in Addrs
       PROVE  ClientInv(d)'
  <2> DEFINE arriving == {x \in sent' : Heeded(x, d)}
  <2>1. IsFiniteSet(arriving)
    BY <1>3, <1>5, <1>7, SentFinite, FS_Subset
  <2>2. ClientInv(d) /\ ClientInv(c)
    BY <1>2
  <2>3. /\ Incoming(inbox[d] \o SetToSeq(arriving))
        /\ Has(inbox[d] \o SetToSeq(arriving), "CONNECT_ACK") =>
             \/ Has(inbox[d], "CONNECT_ACK")
             \/ \E x \in arriving : x.type = "CONNECT_ACK"
    BY <1>10, <2>1, <2>2, IncomingGrows DEF ClientInv
  <2>4. (\E x \in arriving : x.type = "CONNECT_ACK") => HasSlot(shm', d)
    BY <1>10 DEF Heeded
  <2>5. inbox'[d] = IF pc[d] = "off" THEN inbox[d]
                    ELSE inbox[d] \o SetToSeq(arriving)
    BY <1>12
  <2> HIDE DEF arriving
  <2>6. Incoming(inbox'[d])
    BY <2>2, <2>3, <2>5 DEF ClientInv
  <2>7. Has(inbox'[d], "CONNECT_ACK") =>
          Has(inbox[d], "CONNECT_ACK") \/ HasSlot(shm', d)
    BY <2>3, <2>4, <2>5
  <2>8. /\ Outgoing(d, out'[d])
        /\ Has(out'[d], "DISCONNECT") => Has(out[d], "DISCONNECT")
        /\ d = c /\ Has(out'[d], "DISCONNECT") => m.type # "DISCONNECT"
    BY <1>3, <1>12, <2>2 DEF ClientInv
  <2>9. Claims(d)' => Claims(d) \/ HasSlot(shm', d)
    BY <1>11, <2>7, <2>8 DEF Claims
  <2>10. Claims(d)' => HasSlot(shm', d)
    <3>1. CASE ~(m.type = "DISCONNECT" /\ NameOf[d] = NameOf[c])
      <4>1. HasSlot(shm, d) => HasSlot(shm', d)
        BY <1>5, <1>8, <3>1, AddrsAssumption DEF HasSlot, ConnectionStep
      <4> QED
        BY <2>2, <2>9, <4>1 DEF ClientInv
    <3>2. CASE m.type = "DISCONNECT" /\ NameOf[d] = NameOf[c]
      <4>1. HasSlot(shm, c) /\ pc[c] = "off" /\ ~connected[c] /\ inbox[c] = <<>>
        BY <1>4, <2>2, <3>2 DEF ClientInv, Claims
      <4>2. CASE d = c
        <5>1. pc'[d] \notin Running /\ ~connected'[d]
          BY <1>11, <4>1, <4>2 DEF Running
        <5>2. ~Has(inbox'[d], "CONNECT_ACK")
          BY <2>5, <4>1, <4>2 DEF Has
        <5> QED
          BY <2>8, <3>2, <4>2, <5>1, <5>2 DEF Claims
      <4>3. CASE d # c
        BY <2>2, <2>9, <3>2, <4>1, <4>3 DEF ClientInv, HasSlot
      <4> QED
        BY <4>2, <4>3
    <3> QED
      BY <3>1, <3>2
  <2>11. Has(out'[d], "DISCONNECT") => pc'[d] = "off"
    BY <1>11, <2>2, <2>8 DEF ClientInv
  <2>12. pc'[d] = "off" => ~connected'[d] /\ inbox'[d] = <<>>
    BY <1>11, <2>2, <2>5 DEF ClientInv
  <2> QED
    BY <2>6, <2>8, <2>10, <2>11, <2>12 DEF ClientInv
<1> QED
  BY <1>6, <1>9, <1>13, <1>14 DEF ChatInv

-----------------------------------------------------------------------------
(* The steps of a client process.                                          *)

\* They change neither the memory nor another process.
LEMMA LocalStep ==
  ASSUME ChatInv, NEW c \in Addrs, UNCHANGED serverVars,
         Shapes', ClientInv(c)',
         \A d \in Addrs \ {c} :
            /\ pc'[d] = pc[d] /\ connected'[d] = connected[d]
            /\ out'[d] = out[d] /\ inbox'[d] = inbox[d]
  PROVE  ChatInv'
<1>1. ServerInv' /\ OwnAddrs(shm')
  BY DEF ChatInv, serverVars, ServerInv
<1>2. \A d \in Addrs \ {c} : ClientInv(d)'
  <2> TAKE d \in Addrs \ {c}
  <2>1. ClientInv(d) /\ shm' = shm
    BY DEF ChatInv, serverVars
  <2> QED
    BY <2>1 DEF ClientInv, Claims
<1> QED
  BY <1>1, <1>2 DEF ChatInv

\* A datagram is lost.
LEMMA LoseStep ==
  ASSUME ChatInv, NEW c \in Addrs, Lose(c)
  PROVE  ChatInv'
<1>1. Shapes /\ ClientInv(c)
  BY DEF ChatInv
<1>2. UNCHANGED <<shm, pc, connected, current_group>> /\ UNCHANGED serverVars
  BY DEF Lose, clientVars, serverVars
<1>3. CASE \E i \in 1 .. Len(out[c]) :
             out' = [out EXCEPT ![c] = RemoveAt(@, i)] /\ UNCHANGED inbox
  <2>1. PICK i \in 1 .. Len(out[c]) :
          out' = [out EXCEPT ![c] = RemoveAt(@, i)] /\ UNCHANGED inbox
    BY <1>3
  <2>2. Shapes' /\ out'[c] = RemoveAt(out[c], i)
    BY <1>1, <1>2, <2>1 DEF Shapes
  <2>3. /\ Outgoing(c, out'[c])
        /\ Has(out'[c], "DISCONNECT") => Has(out[c], "DISCONNECT")
    BY <1>1, <2>2, OutgoingShrinks DEF ClientInv
  <2>4. ClientInv(c)'
    BY <1>1, <1>2, <2>1, <2>3 DEF ClientInv, Claims
  <2>5. \A d \in Addrs \ {c} : out'[d] = out[d]
    BY <1>1, <2>1 DEF Shapes
  <2> QED
    BY <1>2, <2>1, <2>2, <2>4, <2>5, LocalStep
<1>4. CASE \E i \in 1 .. Len(inbox[c]) :
             inbox' = [inbox EXCEPT ![c] = RemoveAt(@, i)] /\ UNCHANGED out
  <2>1. PICK i \in 1 .. Len(inbox[c]) :
          inbox' = [inbox EXCEPT ![c] = RemoveAt(@, i)] /\ UNCHANGED out
    BY <1>4
  <2>2. Shapes' /\ inbox'[c] = RemoveAt(inbox[c], i)
    BY <1>1, <1>2, <2>1 DEF Shapes
  <2>3. /\ Incoming(inbox'[c])
        /\ Has(inbox'[c], "CONNECT_ACK") => Has(inbox[c], "CONNECT_ACK")
    BY <1>1, <2>2, IncomingShrinks DEF ClientInv
  <2>4. pc[c] # "off"
    BY <1>1, <2>1 DEF ClientInv
  <2>5. ClientInv(c)'
    BY <1>1, <1>2, <2>1, <2>3, <2>4 DEF ClientInv, Claims
  <2>6. \A d \in Addrs \ {c} : inbox'[d] = inbox[d]
    BY <1>1, <2>1 DEF Shapes
  <2> QED
    BY <1>2, <2>1, <2>2, <2>5, <2>6, LocalStep
<1> QED
  BY <1>3, <1>4 DEF Lose

\* receive_thread: the flag of the connection is set by an acknowledgement.
LEMMA ReceiveThreadStep ==
  ASSUME ChatInv, NEW c \in Addrs, ReceiveThread(c)
  PROVE  ChatInv'
<1>1. Shapes /\ ClientInv(c)
  BY DEF ChatInv
<1>2. PICK i \in 1 .. Len(inbox[c]) :
        /\ inbox' = [inbox EXCEPT ![c] = RemoveAt(@, i)]
        /\ \/ ReceiveAck(c, inbox[c][i])  \/ ReceiveJoin(c, inbox[c][i])
           \/ ReceiveKick(c, inbox[c][i]) \/ ReceiveList(c, inbox[c][i])
           \/ ReceiveColor(c, inbox[c][i]) \/ ReceiveRefusal(c, inbox[c][i])
  BY DEF ReceiveThread, Arrivable
<1> DEFINE d == inbox[c][i]
<1>3. UNCHANGED <<shm, pc, out>> /\ UNCHANGED serverVars
  BY DEF ReceiveThread, serverVars
<1>4. /\ NamesItsGroup(d)
      /\ Incoming(RemoveAt(inbox[c], i))
      /\ Has(RemoveAt(inbox[c], i), "CONNECT_ACK") =>
           Has(inbox[c], "CONNECT_ACK")
  BY <1>1, IncomingShrinks DEF ClientInv
<1>5. /\ inbox' = [e \in Addrs |-> inbox'[e]]
      /\ inbox'[c] = RemoveAt(inbox[c], i)
      /\ \A e \in Addrs \ {c} : inbox'[e] = inbox[e]
  BY <1>1, <1>2 DEF Shapes
<1>6. d.type = "CONNECT_ACK" => Has(inbox[c], "CONNECT_ACK")
  BY DEF Has
<1>7. pc[c] # "off"
  BY <1>1, <1>2 DEF ClientInv
<1> HIDE DEF d
<1>8. /\ connected' \in [Addrs -> BOOLEAN]
      /\ connected'[c] => connected[c] \/ Has(inbox[c], "CONNECT_ACK")
      /\ \A e \in Addrs \ {c} : connected'[e] = connected[e]
      /\ current_group' \in [Addrs -> Groups \cup {NoGroup}]
  <2>1. CASE ReceiveAck(c, d)
    BY <1>1, <1>6, <2>1 DEF ReceiveAck, Shapes
  <2>2. CASE ReceiveJoin(c, d)
    BY <1>1, <1>4, <2>2 DEF ReceiveJoin, Shapes, NamesItsGroup
  <2>3. CASE ReceiveKick(c, d)
    BY <1>1, <2>3 DEF ReceiveKick, Shapes
  <2>4. CASE ReceiveList(c, d) \/ ReceiveColor(c, d) \/ ReceiveRefusal(c, d)
    BY <1>1, <2>4 DEF ReceiveList, ReceiveColor, ReceiveRefusal, Shapes
  <2> QED
    BY <1>2, <2>1, <2>2, <2>3, <2>4 DEF d
<1>9. Shapes'
  BY <1>1, <1>3, <1>5, <1>8 DEF Shapes
<1>10. ClientInv(c)'
  BY <1>1, <1>3, <1>4, <1>5, <1>7, <1>8 DEF ClientInv, Claims
<1> QED
  BY <1>3, <1>5, <1>8, <1>9, <1>10, LocalStep

\* The end of a process: it claims nothing any more.
LEMMA EndStep ==
  ASSUME ChatInv, NEW c \in Addrs, End(c), Outgoing(c, out'[c]),
         Has(out'[c], "DISCONNECT") => HasSlot(shm, c),
         out' = [d \in Addrs |-> out'[d]],
         \A d \in Addrs \ {c} : out'[d] = out[d]
  PROVE  ChatInv'
<1>1. Shapes /\ UNCHANGED serverVars /\ shm' = shm
  BY DEF ChatInv, End, serverVars
<1>2. Shapes'
  BY <1>1 DEF Shapes, End, Positions
<1>3. /\ pc'[c] = "off" /\ ~connected'[c] /\ inbox'[c] = <<>>
      /\ \A d \in Addrs \ {c} : /\ pc'[d] = pc[d] /\ inbox'[d] = inbox[d]
                                /\ connected'[d] = connected[d]
  BY <1>1 DEF End, Shapes
<1>4. Claims(c)' => Has(out'[c], "DISCONNECT")
  BY <1>3 DEF Claims, Running, Has
<1>5. ClientInv(c)'
  BY <1>1, <1>3, <1>4, EmptyInbox DEF ClientInv
<1> QED
  BY <1>1, <1>2, <1>3, <1>5, LocalStep

\* main() moves on: what it claims it claimed before, or was told.
LEMMA MainStep ==
  ASSUME ChatInv, NEW c \in Addrs, UNCHANGED <<serverVars, inbox>>,
         NEW p \in Positions \ {"off"}, pc' = [pc EXCEPT ![c] = p],
         p \in Running => pc[c] \in Running \/ connected[c],
         connected' \in {connected, [connected EXCEPT ![c] = FALSE]},
         current_group' \in [Addrs -> Groups \cup {NoGroup}],
         Outgoing(c, out'[c]), ~Has(out'[c], "DISCONNECT"),
         out' = [d \in Addrs |-> out'[d]],
         \A d \in Addrs \ {c} : out'[d] = out[d]
  PROVE  ChatInv'
<1>1. Shapes /\ ClientInv(c) /\ UNCHANGED serverVars /\ shm' = shm
  BY DEF ChatInv, serverVars
<1>2. Shapes'
  BY <1>1 DEF Shapes
<1>3. /\ pc'[c] = p /\ (connected'[c] => connected[c])
      /\ \A d \in Addrs \ {c} : pc'[d] = pc[d] /\ connected'[d] = connected[d]
  BY <1>1 DEF Shapes
<1>4. ClientInv(c)'
  BY <1>1, <1>3 DEF ClientInv, Claims
<1> QED
  BY <1>1, <1>2, <1>3, <1>4, LocalStep

\* main() moves on without sending anything.
LEMMA QuietStep ==
  ASSUME ChatInv, NEW c \in Addrs, UNCHANGED <<serverVars, inbox, out>>,
         pc[c] # "off",
         NEW p \in Positions \ {"off"}, pc' = [pc EXCEPT ![c] = p],
         p \in Running => pc[c] \in Running \/ connected[c],
         connected' \in {connected, [connected EXCEPT ![c] = FALSE]},
         current_group' \in [Addrs -> Groups \cup {NoGroup}]
  PROVE  ChatInv'
<1>1. Shapes /\ ClientInv(c)
  BY DEF ChatInv
<1>2. Outgoing(c, out'[c]) /\ ~Has(out'[c], "DISCONNECT")
  BY <1>1 DEF ClientInv
<1>3. out' = [d \in Addrs |-> out'[d]] /\ \A d \in Addrs \ {c} : out'[d] = out[d]
  BY <1>1 DEF Shapes
<1> QED
  BY <1>2, <1>3, MainStep

\* main() sends requests.
Sendable(c, r) ==
    /\ r \in Seq(Requests)
    /\ \A i \in 1 .. Len(r) : r[i].from = c /\ r[i].type # "DISCONNECT"

LEMMA SendingStep ==
  ASSUME ChatInv, NEW c \in Addrs, UNCHANGED <<serverVars, inbox>>,
         NEW r, Sendable(c, r), Send(c, r),
         pc[c] # "off" \/ out[c] = <<>>,
         NEW p \in Positions \ {"off"}, pc' = [pc EXCEPT ![c] = p],
         p \in Running => pc[c] \in Running \/ connected[c],
         UNCHANGED connected,
         current_group' \in [Addrs -> Groups \cup {NoGroup}]
  PROVE  ChatInv'
<1>1. Shapes /\ ClientInv(c)
  BY DEF ChatInv
<1>2. out'[c] = out[c] \o r
  BY <1>1 DEF Shapes, Send
<1>3. ~Has(out[c], "DISCONNECT")
  BY <1>1 DEF ClientInv, Has
<1>4. Outgoing(c, out'[c]) /\ ~Has(out'[c], "DISCONNECT")
  BY <1>1, <1>2, <1>3, OutgoingGrows DEF ClientInv, Sendable
<1>5. out' = [d \in Addrs |-> out'[d]] /\ \A d \in Addrs \ {c} : out'[d] = out[d]
  BY <1>1 DEF Shapes, Send
<1> QED
  BY <1>4, <1>5, MainStep

\* What main() and process_command build is a request.
LEMMA DatagramsRequest ==
  ASSUME NEW c \in Addrs, NEW type, NEW g, NEW x,
         \/ type \in {"CONNECT", "DISCONNECT", "LIST_USERS", "LIST_GROUPS"} /\
            g = NoGroup /\ x = Nothing
         \/ type \in {"JOIN", "LEAVE", "PUBLIC"} /\ g \in Groups /\ x = Nothing
         \/ type = "PRIVATE" /\ g = NoGroup /\ x \in Names
         \/ type = "CHANGE_COLOR" /\ g \in Groups /\ x \in Colors
         \/ type = "MERGE_GROUPS" /\ g = NoGroup /\ x \in Groups \X Groups
         \/ type \in {"KICK_USER", "PROMOTE_ADMIN", "DEMOTE_ADMIN"} /\
            g \in Groups /\ x \in Names
  PROVE  \E d \in Requests :
            /\ Datagrams(c, type, g, x) = <<d>>
            /\ d.from = c /\ d.type = type /\ d.group = g
<1> DEFINE d == [type |-> type, from |-> c, sender |-> NameOf[c],
                 group |-> g, arg |-> x]
<1>1. d \in Requests
  <2>1. \A G, A : g \in G /\ x \in A => d \in Request(type, G, A)
    BY DEF Request
  <2> HIDE DEF d
  <2>2. CASE type \in {"CONNECT", "DISCONNECT", "LIST_USERS", "LIST_GROUPS"}
    BY <2>1, <2>2 DEF Requests
  <2>3. CASE type \in {"JOIN", "LEAVE", "PUBLIC"}
    BY <2>1, <2>3 DEF Requests
  <2>4. CASE type = "PRIVATE" \/ type = "CHANGE_COLOR" \/ type = "MERGE_GROUPS"
    BY <2>1, <2>4 DEF Requests
  <2>5. CASE type \in {"KICK_USER", "PROMOTE_ADMIN", "DEMOTE_ADMIN"}
    BY <2>1, <2>5 DEF Requests
  <2> QED
    BY <2>2, <2>3, <2>4, <2>5
<1>2. Datagrams(c, type, g, x) = <<d>>
  BY DEF Datagrams
<1>3. d.from = c /\ d.type = type /\ d.group = g
  OBVIOUS
<1> HIDE DEF d
<1> QED
  BY <1>1, <1>2, <1>3

\* Those of process_command do not end the connection.
LEMMA DatagramsSendable ==
  ASSUME NEW c \in Addrs, NEW type, NEW g, NEW x,
         \/ type \in {"CONNECT", "LIST_USERS", "LIST_GROUPS"} /\
            g = NoGroup /\ x = Nothing
         \/ type \in {"JOIN", "LEAVE", "PUBLIC"} /\ g \in Groups /\ x = Nothing
         \/ type = "PRIVATE" /\ g = NoGroup /\ x \in Names
         \/ type = "CHANGE_COLOR" /\ g \in Groups /\ x \in Colors
         \/ type = "MERGE_GROUPS" /\ g = NoGroup /\ x \in Groups \X Groups
         \/ type \in {"KICK_USER", "PROMOTE_ADMIN", "DEMOTE_ADMIN"} /\
            g \in Groups /\ x \in Names
  PROVE  Sendable(c, Datagrams(c, type, g, x))
<1>1. PICK d \in Requests : /\ Datagrams(c, type, g, x) = <<d>>
                            /\ d.from = c /\ d.type = type
  BY DatagramsRequest
<1>2. type # "DISCONNECT"
  OBVIOUS
<1> QED
  BY <1>1, <1>2 DEF Sendable

-----------------------------------------------------------------------------
(* main() and process_command.                                             *)

\* A connection is asked for by a process that has nothing on its way, and
\* given to the user when the acknowledgement came.
LEMMA ConnectionSteps ==
  ASSUME ChatInv, ~Interrupts, NEW c \in Addrs, Connection(c)
  PROVE  ChatInv'
<1>1. Shapes /\ ClientInv(c)
  BY DEF ChatInv
<1>2. current_group \in [Addrs -> Groups \cup {NoGroup}]
  BY <1>1 DEF Shapes
<1>3. CASE Start(c)
  <2>1. Sendable(c, Datagrams(c, "CONNECT", NoGroup, Nothing))
    BY DatagramsSendable
  <2>2. "connect_sent" \in Positions \ {"off"} /\ "connect_sent" \notin Running
    BY DEF Positions, Running
  <2> QED
    BY <1>2, <1>3, <2>1, <2>2, SendingStep DEF Start
<1>4. CASE ResetConnected(c)
  <2>1. "connecting" \in Positions \ {"off"} /\ "connecting" \notin Running
    BY DEF Positions, Running
  <2> QED
    BY <1>2, <1>4, <2>1, QuietStep DEF ResetConnected
<1>5. CASE Connected(c)
  <2>1. "ready" \in Positions \ {"off"}
    BY DEF Positions, Running
  <2> QED
    BY <1>2, <1>5, <2>1, QuietStep DEF Connected
<1>6. CASE ConnectTimeout(c)
  <2>1. "unreachable" \in Positions \ {"off"} /\ "unreachable" \notin Running
    BY DEF Positions, Running
  <2> QED
    BY <1>2, <1>6, <2>1, QuietStep DEF ConnectTimeout
<1>7. CASE End(c) /\ UNCHANGED out
  <2>1. Outgoing(c, out'[c]) /\ (Has(out'[c], "DISCONNECT") => HasSlot(shm, c))
    BY <1>1, <1>7 DEF ClientInv, Claims
  <2>2. out' = [d \in Addrs |-> out'[d]] /\ \A d \in Addrs \ {c} : out'[d] = out[d]
    BY <1>1, <1>7 DEF Shapes
  <2> QED
    BY <1>7, <2>1, <2>2, EndStep
<1>8. CASE Quit(c)
  <2> DEFINE farewell == Datagrams(c, "DISCONNECT", NoGroup, Nothing)
  <2>1. pc[c] \in Running
    BY <1>1, <1>8 DEF Quit, Shapes, Positions
  <2>2. HasSlot(shm, c) /\ ~Has(out[c], "DISCONNECT")
    BY <1>1, <2>1 DEF ClientInv, Claims, Running
  <2>3. farewell \in Seq(Requests) /\ Len(farewell) = 1 /\ farewell[1].from = c
    <3>1. PICK d \in Requests : farewell = <<d>> /\ d.from = c
      BY DatagramsRequest
    <3> HIDE DEF farewell
    <3> QED
      BY <3>1
  <2> HIDE DEF farewell
  <2>4. out' = [out EXCEPT ![c] = @ \o farewell] /\ End(c)
    BY <1>8 DEF Quit, Send, farewell
  <2>5. Outgoing(c, out[c] \o farewell)
    BY <1>1, <2>2, <2>3, OutgoingEnds DEF ClientInv
  <2>6. /\ out'[c] = out[c] \o farewell
        /\ out' = [d \in Addrs |-> out'[d]]
        /\ \A d \in Addrs \ {c} : out'[d] = out[d]
    BY <1>1, <2>4 DEF Shapes
  <2> QED
    BY <2>2, <2>4, <2>5, <2>6, EndStep
<1> QED
  BY <1>3, <1>4, <1>5, <1>6, <1>7, <1>8 DEF Connection, GiveUp, Crash

\* Commands that send requests and go on.
LEMMA CommandSends ==
  ASSUME ChatInv, NEW c \in Addrs, UNCHANGED <<serverVars, inbox>>,
         UNCHANGED <<connected, current_group>>,
         NEW r, Sendable(c, r), Send(c, r), pc[c] = "ready",
         NEW p \in Running, pc' = [pc EXCEPT ![c] = p]
  PROVE  ChatInv'
<1>1. /\ p \in Positions \ {"off"} /\ pc[c] # "off" /\ pc[c] \in Running
      /\ current_group' \in [Addrs -> Groups \cup {NoGroup}]
  BY DEF Positions, Running, ChatInv, Shapes
<1> QED
  BY <1>1, SendingStep

\* A /join sends one request or two.
LEMMA JoinSendable ==
  ASSUME ChatInv, NEW c \in Addrs, NEW g \in Groups
  PROVE  Sendable(c, (IF current_group[c] = NoGroup THEN <<>>
                      ELSE Datagrams(c, "LEAVE", current_group[c], Nothing))
                     \o Datagrams(c, "JOIN", g, Nothing))
<1> DEFINE leave == IF current_group[c] = NoGroup THEN <<>>
                    ELSE Datagrams(c, "LEAVE", current_group[c], Nothing)
           join == Datagrams(c, "JOIN", g, Nothing)
<1>1. Sendable(c, join)
  BY DatagramsSendable
<1>2. Sendable(c, leave)
  <2>1. CASE current_group[c] = NoGroup
    BY <2>1 DEF Sendable
  <2>2. CASE current_group[c] # NoGroup
    <3>1. current_group[c] \in Groups
      BY <2>2 DEF ChatInv, Shapes
    <3>2. Sendable(c, Datagrams(c, "LEAVE", current_group[c], Nothing))
      BY <3>1, DatagramsSendable
    <3> QED
      BY <2>2, <3>2
  <2> QED
    BY <2>1, <2>2
<1> HIDE DEF leave, join
<1>3. /\ leave \in Seq(Requests) /\ join \in Seq(Requests)
      /\ Len(leave) \in Nat /\ Len(join) \in Nat
  BY <1>1, <1>2 DEF Sendable
<1>4. /\ leave \o join \in Seq(Requests)
      /\ Len(leave \o join) = Len(leave) + Len(join)
      /\ \A i \in 1 .. Len(leave) + Len(join) : (leave \o join)[i] =
           IF i <= Len(leave) THEN leave[i] ELSE join[i - Len(leave)]
  BY <1>3, ConcatProperties
<1>5. \A i \in 1 .. Len(leave \o join) :
        \/ \E k \in 1 .. Len(leave) : (leave \o join)[i] = leave[k]
        \/ \E k \in 1 .. Len(join) : (leave \o join)[i] = join[k]
  <2> TAKE i \in 1 .. Len(leave \o join)
  <2>1. CASE i <= Len(leave)
    BY <1>3, <1>4, <2>1
  <2>2. CASE ~(i <= Len(leave))
    <3>1. i - Len(leave) \in 1 .. Len(join)
      BY <1>3, <1>4, <2>2
    <3> QED
      BY <1>3, <1>4, <2>2, <3>1
  <2> QED
    BY <2>1, <2>2
<1> QED
  BY <1>1, <1>2, <1>4, <1>5 DEF Sendable, leave, join

\* A command that stays at the prompt after sending one request.
LEMMA RequestStep ==
  ASSUME ChatInv, NEW c \in Addrs, NEW r, Sendable(c, r), Send(c, r),
         pc[c] = "ready", UNCHANGED <<serverVars, clientVars, inbox>>
  PROVE  ChatInv'
<1>1. pc' = [pc EXCEPT ![c] = "ready"] /\ UNCHANGED <<connected, current_group>>
  BY DEF ChatInv, Shapes, clientVars
<1>2. "ready" \in Running
  BY DEF Running
<1> QED
  BY <1>1, <1>2, CommandSends

\* Commands on the current group.
LEMMA OnCurrentGroupStep ==
  ASSUME ChatInv, NEW c \in Addrs, NEW command, NEW type, NEW x,
         OnCurrentGroup(c, command, type, x),
         \/ type = "CHANGE_COLOR" /\ x \in Colors
         \/ type \in {"KICK_USER", "PROMOTE_ADMIN", "DEMOTE_ADMIN"} /\ x \in Names
         \/ type = "PUBLIC" /\ x = Nothing
  PROVE  ChatInv'
<1>1. current_group[c] \in Groups
  BY DEF ChatInv, Shapes, OnCurrentGroup
<1>2. Sendable(c, Datagrams(c, type, current_group[c], x))
  BY <1>1, DatagramsSendable
<1> QED
  BY <1>2, RequestStep DEF OnCurrentGroup, Types

\* process_command.
LEMMA CommandSteps ==
  ASSUME ChatInv, NEW c \in Addrs, ProcessCommand(c)
  PROVE  ChatInv'
<1>1. Shapes
  BY DEF ChatInv
<1>2. /\ Running \subseteq Positions \ {"off"}
      /\ {"ready", "leaving", "LIST_USERS", "LIST_GROUPS", "awaiting_users",
          "awaiting_groups"} \subseteq Running
  BY DEF Running, Positions
<1>3. ASSUME NEW g \in Groups, CmdJoin(c, g)
      PROVE  ChatInv'
  <2> DEFINE r == (IF current_group[c] = NoGroup THEN <<>>
                   ELSE Datagrams(c, "LEAVE", current_group[c], Nothing))
                  \o Datagrams(c, "JOIN", g, Nothing)
  <2>1. Sendable(c, r)
    BY JoinSendable
  <2>2. Send(c, r) /\ pc[c] = "ready"
    BY <1>3 DEF CmdJoin, Types
  <2> HIDE DEF r
  <2>3. /\ UNCHANGED <<serverVars, inbox>> /\ UNCHANGED <<connected, current_group>>
        /\ pc' = [pc EXCEPT ![c] = "ready"]
    BY <1>1, <1>3, <2>2 DEF CmdJoin, Shapes
  <2> QED
    BY <1>2, <2>1, <2>2, <2>3, CommandSends
<1>4. CASE CmdLeave(c)
  <2>1. current_group[c] \in Groups
    BY <1>1, <1>4 DEF CmdLeave, Shapes
  <2>2. Sendable(c, Datagrams(c, "LEAVE", current_group[c], Nothing))
    BY <2>1, DatagramsSendable
  <2> QED
    BY <1>2, <1>4, <2>2, CommandSends DEF CmdLeave, Types
<1>5. CASE ClearGroup(c)
  <2>1. current_group' \in [Addrs -> Groups \cup {NoGroup}]
    BY <1>1, <1>5 DEF ClearGroup, Shapes
  <2>2. pc[c] \in Running /\ pc[c] # "off"
    BY <1>2, <1>5 DEF ClearGroup
  <2> QED
    BY <1>2, <1>5, <2>1, <2>2, QuietStep DEF ClearGroup
<1>6. ASSUME NEW g1 \in Groups, NEW g2 \in Groups, CmdMerge(c, g1, g2)
      PROVE  ChatInv'
  <2>1. Sendable(c, Datagrams(c, "MERGE_GROUPS", NoGroup, <<g1, g2>>))
    BY DatagramsSendable
  <2> QED
    BY <1>6, <2>1, RequestStep DEF CmdMerge, Types
<1>7. ASSUME NEW x \in Colors, CmdColor(c, x)
      PROVE  ChatInv'
  BY <1>7, OnCurrentGroupStep DEF CmdColor
<1>8. ASSUME NEW u \in Names, CmdKick(c, u) \/ CmdPromote(c, u) \/ CmdDemote(c, u)
      PROVE  ChatInv'
  BY <1>8, OnCurrentGroupStep DEF CmdKick, CmdPromote, CmdDemote
<1>9. CASE CmdText(c)
  BY <1>9, OnCurrentGroupStep DEF CmdText
<1>10. ASSUME NEW u \in Names, CmdMsg(c, u)
       PROVE  ChatInv'
  <2>1. Sendable(c, Datagrams(c, "PRIVATE", NoGroup, u))
    BY DatagramsSendable
  <2> QED
    BY <1>10, <2>1, RequestStep DEF CmdMsg, Types
<1>11. ASSUME NEW command, NEW type \in {"LIST_USERS", "LIST_GROUPS"},
              CmdList(c, command, type)
       PROVE  ChatInv'
  <2>1. Sendable(c, Datagrams(c, type, NoGroup, Nothing))
    BY DatagramsSendable
  <2>2. type \in Running
    BY <1>2
  <2> QED
    BY <1>11, <2>1, <2>2, CommandSends DEF CmdList, Types
<1>12. CASE ResetListReceived(c) \/ ShowList(c) \/ ListTimeout(c)
  <2>1. PICK p \in Running : pc' = [pc EXCEPT ![c] = p]
    BY <1>2, <1>12 DEF ResetListReceived, ShowList, ListTimeout
  <2>2. pc[c] \in Running /\ pc[c] # "off"
    BY <1>2, <1>12 DEF ResetListReceived, ShowList, ListTimeout
  <2>3. /\ UNCHANGED <<serverVars, inbox, out>> /\ UNCHANGED connected
        /\ current_group' \in [Addrs -> Groups \cup {NoGroup}]
    BY <1>1, <1>12 DEF ResetListReceived, ShowList, ListTimeout, Shapes
  <2> QED
    BY <1>2, <2>1, <2>2, <2>3, QuietStep
<1> QED
  BY <1>3, <1>4, <1>5, <1>6, <1>7, <1>8, <1>9, <1>10, <1>11, <1>12
  DEF ProcessCommand

-----------------------------------------------------------------------------
(* The theorems.                                                           *)

\* Before the first process starts, nobody claims anything.
LEMMA ChatInitInv == ChatInit => ChatInv
<1> SUFFICES ASSUME ChatInit PROVE ChatInv
  OBVIOUS
<1>1. ServerInv
  BY InitInv DEF ChatInit
<1>2. OwnAddrs(shm)
  BY DEF ChatInit, Init, EmptyMemory, NoUser, OwnAddrs, UserFound
<1>3. Shapes
  BY DEF ChatInit, Shapes, Positions
<1>4. ASSUME NEW c \in Addrs
      PROVE  ClientInv(c)
  <2>1. /\ out[c] = <<>> /\ inbox[c] = <<>> /\ pc[c] = "off" /\ ~connected[c]
    BY DEF ChatInit
  <2>2. Outgoing(c, <<>>)
    BY DEF Outgoing
  <2>3. ~Has(<<>>, "DISCONNECT") /\ ~Has(<<>>, "CONNECT_ACK")
    BY DEF Has
  <2>4. ~Claims(c)
    BY <2>1, <2>3 DEF Claims, Running
  <2> QED
    BY <2>1, <2>2, <2>3, <2>4, EmptyInbox DEF ClientInv
<1> QED
  BY <1>1, <1>2, <1>3, <1>4 DEF ChatInv

\* Every step of the server, the network and the clients keeps the invariant.
LEMMA ChatStepInv ==
  ASSUME ~Interrupts
  PROVE  ChatInv /\ [ChatNext]_vars => ChatInv'
<1> SUFFICES ASSUME ChatInv, [ChatNext]_vars
             PROVE  ChatInv'
  OBVIOUS
<1>1. CASE UNCHANGED vars
  BY <1>1 DEF vars, serverVars, clientVars, ChatInv, ServerInv, Shapes,
              ClientInv, Claims
<1>2. ASSUME NEW c \in Addrs,
             \/ Serve(c) \/ Lose(c)
             \/ ReceiveThread(c) \/ Connection(c) \/ ProcessCommand(c)
      PROVE  ChatInv'
  BY <1>2, ServeStep, LoseStep, ReceiveThreadStep, ConnectionSteps, CommandSteps
<1> QED
  BY <1>1, <1>2 DEF ChatNext

\* A client that shows a prompt has its user's slot under its own address,
\* whatever is lost, overtaken or late, and whichever processes crash.
THEOREM RunningClientsKeepTheSlot ==
  ASSUME ~Interrupts
  PROVE  ChatSpec => []RunningClientHasTheSlot
<1>1. ChatInv => RunningClientHasTheSlot
  BY DEF ChatInv, ClientInv, Claims, HasSlot, RunningClientHasTheSlot
<1> QED
  BY <1>1, ChatInitInv, ChatStepInv, PTL DEF ChatSpec

\* A user name belongs to one running client at a time (user.c:11).
THEOREM NamesAreExclusive ==
  ASSUME ~Interrupts
  PROVE  ChatSpec => []OneClientPerName
<1>1. RunningClientHasTheSlot => OneClientPerName
  BY DEF RunningClientHasTheSlot, OneClientPerName
<1> QED
  BY <1>1, RunningClientsKeepTheSlot, PTL

-----------------------------------------------------------------------------
(* What arrives: a client heeds at most one datagram of a turn.            *)

Arriving(datagrams, c) == {d \in datagrams : Heeded(d, c)}

\* Addresses belong to users: one datagram of SendTo at most is for c.
LEMMA SendToOne ==
  ASSUME NEW s, OwnAddrs(s), NEW users \in SUBSET Names, NEW type, NEW sender,
         NEW g, NEW content, NEW c \in Addrs
  PROVE  LET d == Datagram(c, type, sender, g, content)
         IN  Arriving(SendTo(s, users, type, sender, g, content), c) =
             IF NameOf[c] \in users /\ HasSlot(s, c) /\ Heeded(d, c)
             THEN {d} ELSE {}
<1> DEFINE d == Datagram(c, type, sender, g, content)
           all == SendTo(s, users, type, sender, g, content)
<1>1. ASSUME NEW x \in all, x.to = c
      PROVE  NameOf[c] \in users /\ HasSlot(s, c) /\ x = d
  <2>1. PICK v \in users : /\ UserFound(s, v)
                           /\ x = Datagram(s.users[v].addr, type, sender, g, content)
    BY <1>1 DEF SendTo
  <2>2. s.users[v].addr = c
    BY <1>1, <2>1 DEF Datagram
  <2>3. NameOf[c] = v
    BY <2>1, <2>2 DEF OwnAddrs
  <2> QED
    BY <2>1, <2>2, <2>3 DEF HasSlot
<1>2. ASSUME NameOf[c] \in users, HasSlot(s, c)
      PROVE  d \in all
  BY <1>2 DEF SendTo, HasSlot
<1> HIDE DEF d, all
<1>3. \A x : Heeded(x, c) => x.to = c
  BY DEF Heeded
<1> QED
  BY <1>1, <1>2, <1>3 DEF Arriving, d, all

\* Those to a group reach its members other than the sender.
LEMMA SendToGroupOne ==
  ASSUME NEW s, MemoryInv(s), OwnAddrs(s), NEW type, NEW sender, NEW g,
         NEW content, NEW c \in Addrs
  PROVE  LET d == Datagram(c, type, sender, g, content)
         IN  Arriving(SendToGroup(s, type, sender, g, content), c) =
             IF /\ IsMember(s, g, NameOf[c]) /\ NameOf[c] # sender
                /\ HasSlot(s, c) /\ Heeded(d, c)
             THEN {d} ELSE {}
<1>1. CASE GroupFound(s, g)
  <2>1. s.groups[g].users \ {sender} \in SUBSET Names
    BY <1>1 DEF MemoryInv, SharedMemory, GroupSlots, GroupFound
  <2> QED
    BY <1>1, <2>1, SendToOne DEF SendToGroup, IsMember
<1>2. CASE ~GroupFound(s, g)
  BY <1>2 DEF SendToGroup, IsMember, Arriving
<1> QED
  BY <1>1, <1>2

\* Notices are displayed only.
LEMMA NoticesArrive ==
  ASSUME NEW s, NEW u, NEW g, NEW c
  PROVE  /\ Arriving(Tell(s, u), c) = {}
         /\ Arriving(Announce(s, g), c) = {}
         /\ Arriving(Tell(s, u) \cup Announce(s, g), c) = {}
<1>1. \A d \in Tell(s, u) \cup Announce(s, g) :
        d.type = "PUBLIC" /\ d.content = Nothing
  BY DEF Tell, Announce, SendToGroup, SendTo, Datagram
<1> QED
  BY <1>1 DEF Arriving, Heeded

\* A set of one datagram, or none.
Only(condition, d) == IF condition THEN {d} ELSE {}

\* The answer to a join goes to the user who joins.
LEMMA JoinArrives ==
  ASSUME MemoryInv(shm), MemoryInv(shm'), OwnAddrs(shm'), NEW m \in Requests,
         Join(m), NEW c \in Addrs
  PROVE  LET mine == m.sender = NameOf[c] /\ HasSlot(shm', c)
             color_of == shm'.groups[m.group].color
         IN  \/ /\ IsMember(shm', m.group, m.sender)
                /\ Arriving(sent', c) =
                     Only(mine, Datagram(c, "JOIN", m.sender, m.group, color_of))
             \/ /\ ~IsMember(shm, m.group, m.sender) =>
                      ~IsMember(shm', m.group, m.sender)
                /\ Arriving(sent', c) =
                     Only(mine, Datagram(c, "PUBLIC", Serveur, NoGroup, m.group))
<1> DEFINE u == m.sender
           g == m.group
           registered == IF UserFound(shm, u) THEN shm
                         ELSE UserAdd(shm, u, m.from)
           prepared == IF GroupFound(registered, g) THEN registered
                       ELSE GroupCreate(registered, g, u)
           accepted == /\ CanJoinGroup(prepared, g, u)
                       /\ shm' = GroupAddUser(prepared, g, u)
                       /\ sent' = SendToGroup(shm', "JOIN", u, g, Nothing)
                                  \cup SendTo(shm', {u}, "JOIN", u, g,
                                              shm'.groups[g].color)
           refused == /\ ~CanJoinGroup(prepared, g, u)
                      /\ shm' = prepared
                      /\ sent' = SendTo(prepared, {u}, "PUBLIC", Serveur,
                                        NoGroup, g)
<1>1. accepted \/ refused
  BY DEF Join
<1>2. /\ u \in Names /\ {u} \in SUBSET Names /\ g \in Groups /\ g # Nothing
      /\ m.from \in Addrs
  BY RequestType, NothingAssumption DEF Join
<1>3. MemoryInv(prepared)
  BY <1>2, UserAddInv, GroupCreateInv
<1>4. ~IsMember(shm, g, u) => ~IsMember(prepared, g, u)
  <2>1. registered.groups = shm.groups
    BY DEF UserAdd
  <2>2. CASE GroupFound(registered, g)
    BY <2>1, <2>2 DEF IsMember, GroupFound
  <2>3. CASE ~GroupFound(registered, g)
    <3>1. \/ GroupCreate(registered, g, u).groups[g].users = {}
          \/ GroupCreate(registered, g, u) = registered
      <4>1. registered.groups \in [Groups -> GroupSlots]
        BY <2>1 DEF MemoryInv, SharedMemory
      <4> QED
        BY <1>2, <4>1 DEF GroupCreate
    <3> QED
      BY <2>3, <3>1 DEF IsMember
  <2> QED
    BY <2>2, <2>3
<1> HIDE DEF registered, prepared
<1>5. CASE accepted
  <2> DEFINE d == Datagram(c, "JOIN", u, g, shm'.groups[g].color)
  <2>1. IsMember(shm', g, u)
    BY <1>2, <1>3, <1>5, AddedIsMember
  <2>2. Heeded(d, c) <=> u = NameOf[c]
    BY DEF Heeded, Datagram
  <2>3. Arriving(SendTo(shm', {u}, "JOIN", u, g, shm'.groups[g].color), c) =
          Only(m.sender = NameOf[c] /\ HasSlot(shm', c), d)
    BY <1>2, <2>2, SendToOne DEF Only
  <2>4. Arriving(SendToGroup(shm', "JOIN", u, g, Nothing), c) = {}
    <3>1. Heeded(Datagram(c, "JOIN", u, g, Nothing), c) => u = NameOf[c]
      BY DEF Heeded, Datagram
    <3> QED
      BY <3>1, SendToGroupOne
  <2>5. Arriving(sent', c) = Only(m.sender = NameOf[c] /\ HasSlot(shm', c), d)
    BY <1>5, <2>3, <2>4 DEF Arriving
  <2> QED
    BY <2>1, <2>5
<1>6. CASE refused
  <2> DEFINE d == Datagram(c, "PUBLIC", Serveur, NoGroup, g)
  <2>1. Heeded(d, c)
    BY <1>2 DEF Heeded, Datagram
  <2>2. Arriving(sent', c) = Only(m.sender = NameOf[c] /\ HasSlot(shm', c), d)
    BY <1>2, <1>6, <2>1, SendToOne DEF Only
  <2> QED
    BY <1>4, <1>6, <2>2
<1> QED
  BY <1>1, <1>5, <1>6

\* The other datagrams that a client heeds.
News(m, c) ==
    LET u == NameOf[c]
        color_of(g) == shm'.groups[g].color
    IN  CASE m.type = "LEAVE" ->
               Only(/\ IsMember(shm', m.group, u) /\ u # m.sender
                    /\ HasSlot(shm', c) /\ m.sender = Serveur,
                    Datagram(c, "LEAVE", m.sender, m.group, Nothing))
          [] m.type = "CHANGE_COLOR" ->
               Only(/\ IsAdmin(shm, m.group, m.sender)
                    /\ IsMember(shm, m.group, u) /\ HasSlot(shm, c),
                    Datagram(c, "CHANGE_COLOR", m.sender, m.group, m.arg))
          [] m.type = "MERGE_GROUPS" ->
               Only(/\ IsAdmin(shm, m.arg[1], m.sender)
                    /\ CanMerge(shm, m.arg[1], m.arg[2])
                    /\ u \in shm.groups[m.arg[2]].users /\ HasSlot(shm', c),
                    Datagram(c, "JOIN", u, m.arg[1], color_of(m.arg[1])))
          [] m.type = "KICK_USER" ->
               Only(/\ IsAdmin(shm, m.group, m.sender) /\ m.sender # u
                    /\ u = m.arg /\ IsMember(shm, m.group, u)
                    /\ HasSlot(shm', c),
                    Datagram(c, "LEAVE", Serveur, m.group, Nothing))
          [] m.type = "CONNECT" ->
               Only(u = m.sender /\ HasSlot(shm', c),
                    Datagram(c, "CONNECT_ACK", Serveur, NoGroup, Nothing))
          [] m.type = "LIST_USERS" ->
               Only(u = m.sender /\ HasSlot(shm, c),
                    Datagram(c, "LIST_USERS_RESPONSE", Serveur, NoGroup,
                             UserList(shm)))
          [] m.type = "LIST_GROUPS" ->
               Only(u = m.sender /\ HasSlot(shm, c),
                    Datagram(c, "LIST_GROUPS_RESPONSE", Serveur, NoGroup,
                             GroupList(shm)))
          [] OTHER -> {}

\* Exactly these arrive.
LEMMA NewsArrive ==
  ASSUME MemoryInv(shm), MemoryInv(shm'), OwnAddrs(shm), OwnAddrs(shm'),
         NEW m \in Requests, HandleClientMessage(m), ~Join(m), NEW c \in Addrs
  PROVE  Arriving(sent', c) = News(m, c)
<1> DEFINE u == NameOf[c]
<1>1. m.sender \in Names /\ {m.sender} \in SUBSET Names /\ u \in Names
  BY RequestType, AddrsAssumption
<1>2. Arriving({}, c) = {} /\ Arriving(Tell(shm, m.sender), c) = {}
  BY NoticesArrive DEF Arriving
<1>3. CASE Leave(m)
  <2>1. Heeded(Datagram(c, "LEAVE", m.sender, m.group, Nothing), c)
          <=> m.sender = Serveur
    BY DEF Heeded, Datagram
  <2> QED
    BY <1>3, <2>1, SendToGroupOne DEF Leave, News, Only
<1>4. CASE ChangeColor(m)
  <2>1. m.group \in Groups /\ shm.groups[m.group].users \in SUBSET Names
    BY <1>4, RequestType DEF ChangeColor, MemoryInv, SharedMemory, GroupSlots
  <2>2. Heeded(Datagram(c, "CHANGE_COLOR", m.sender, m.group, m.arg), c)
    BY DEF Heeded, Datagram
  <2>3. CASE IsAdmin(shm, m.group, m.sender)
    <3>1. sent' = SendTo(shm, shm.groups[m.group].users, "CHANGE_COLOR",
                         m.sender, m.group, m.arg)
      BY <1>4, <2>3 DEF ChangeColor, IsAdmin
    <3> QED
      BY <1>4, <2>1, <2>2, <2>3, <3>1, SendToOne
      DEF ChangeColor, News, Only, IsMember, IsAdmin
  <2>4. CASE ~IsAdmin(shm, m.group, m.sender)
    BY <1>2, <1>4, <2>4 DEF ChangeColor, News, Only, Refuse, Ignore
  <2> QED
    BY <2>3, <2>4
<1>5. CASE MergeGroups(m)
  <2> DEFINE g1 == m.arg[1]
             g2 == m.arg[2]
             Confirmation(v) ==
               SendTo(shm', {v}, "JOIN", v, g1, shm'.groups[g1].color)
             confirmations == UNION {Confirmation(v) : v \in shm.groups[g2].users}
             d == Datagram(c, "JOIN", u, g1, shm'.groups[g1].color)
  <2>1. shm.groups[g2].users \in SUBSET Names
    BY <1>5, RequestType DEF MergeGroups, MemoryInv, SharedMemory, GroupSlots
  <2>2. ASSUME NEW v \in shm.groups[g2].users
        PROVE  Arriving(Confirmation(v), c) = Only(v = u /\ HasSlot(shm', c), d)
    <3>1. {v} \in SUBSET Names
      BY <2>1
    <3>2. Heeded(Datagram(c, "JOIN", v, g1, shm'.groups[g1].color), c) <=> v = u
      BY DEF Heeded, Datagram
    <3> QED
      BY <3>1, <3>2, SendToOne DEF Only
  <2> HIDE DEF Confirmation, d
  <2>3. Arriving(confirmations, c) =
          Only(u \in shm.groups[g2].users /\ HasSlot(shm', c), d)
    <3>1. Arriving(confirmations, c) =
            UNION {Arriving(Confirmation(v), c) : v \in shm.groups[g2].users}
      BY DEF Arriving
    <3>2. CASE u \in shm.groups[g2].users /\ HasSlot(shm', c)
      <4>1. Arriving(Confirmation(u), c) = {d}
        BY <2>2, <3>2 DEF Only
      <4>2. \A v \in shm.groups[g2].users :
              Arriving(Confirmation(v), c) \in {{}, {d}}
        BY <2>2 DEF Only
      <4> QED
        BY <3>1, <3>2, <4>1, <4>2 DEF Only
    <3>3. CASE ~(u \in shm.groups[g2].users /\ HasSlot(shm', c))
      <4>1. \A v \in shm.groups[g2].users : Arriving(Confirmation(v), c) = {}
        BY <2>2, <3>3 DEF Only
      <4> QED
        BY <3>1, <3>3, <4>1 DEF Only
    <3> QED
      BY <3>2, <3>3
  <2> HIDE DEF confirmations
  <2>4. CASE IsAdmin(shm, g1, m.sender) /\ CanMerge(shm, g1, g2)
    <3>1. sent' = Announce(shm', g1) \cup confirmations
      BY <1>5, <2>4 DEF MergeGroups, CanMerge, confirmations, Confirmation
    <3>2. Arriving(sent', c) = Arriving(confirmations, c)
      BY <3>1, NoticesArrive DEF Arriving
    <3> QED
      BY <1>5, <2>3, <2>4, <3>2 DEF MergeGroups, News, Only, d
  <2>5. CASE ~(IsAdmin(shm, g1, m.sender) /\ CanMerge(shm, g1, g2))
    <3>1. Refuse(m) \/ Ignore
      BY <1>5, <2>5 DEF MergeGroups
    <3> QED
      BY <1>2, <1>5, <2>5, <3>1 DEF MergeGroups, News, Only, Refuse, Ignore
  <2> QED
    BY <2>4, <2>5
<1>6. CASE KickUser(m)
  <2> DEFINE d == Datagram(c, "LEAVE", Serveur, m.group, Nothing)
  <2>1. {m.arg} \in SUBSET Names
    BY <1>6, RequestType DEF KickUser
  <2>2. Arriving(SendTo(shm', {m.arg}, "LEAVE", Serveur, m.group, Nothing), c) =
          Only(u = m.arg /\ HasSlot(shm', c), d)
    <3>1. Heeded(d, c)
      BY DEF Heeded, Datagram
    <3> QED
      BY <2>1, <3>1, SendToOne DEF Only
  <2> HIDE DEF d
  <2>3. CASE IsAdmin(shm, m.group, m.sender) /\ m.arg # m.sender
    <3>1. CASE IsMember(shm, m.group, m.arg)
      <4>1. sent' = Announce(shm', m.group) \cup
                    SendTo(shm', {m.arg}, "LEAVE", Serveur, m.group, Nothing)
        BY <1>6, <2>3, <3>1 DEF KickUser, IsAdmin
      <4>2. Arriving(sent', c) = Only(u = m.arg /\ HasSlot(shm', c), d)
        BY <2>2, <4>1, NoticesArrive DEF Arriving
      <4> QED
        BY <1>6, <2>3, <3>1, <4>2 DEF KickUser, News, Only, d
    <3>2. CASE ~IsMember(shm, m.group, m.arg)
      <4>1. sent' = {}
        BY <1>6, <2>3, <3>2 DEF KickUser, IsAdmin
      <4> QED
        BY <1>2, <1>6, <3>2, <4>1 DEF KickUser, News, Only
    <3> QED
      BY <3>1, <3>2
  <2>4. CASE ~(IsAdmin(shm, m.group, m.sender) /\ m.arg # m.sender)
    BY <1>2, <1>6, <2>4 DEF KickUser, News, Only, Refuse, Ignore
  <2> QED
    BY <2>3, <2>4
<1>7. CASE Connect(m)
  <2>1. Heeded(Datagram(c, "CONNECT_ACK", Serveur, NoGroup, Nothing), c)
    BY DEF Heeded, Datagram
  <2> QED
    BY <1>1, <1>7, <2>1, SendToOne DEF Connect, News, Only
<1>8. CASE ListUsers(m)
  <2>1. Heeded(Datagram(c, "LIST_USERS_RESPONSE", Serveur, NoGroup,
                        UserList(shm)), c)
    BY DEF Heeded, Datagram
  <2> QED
    BY <1>1, <1>8, <2>1, SendToOne DEF ListUsers, News, Only
<1>9. CASE ListGroups(m)
  <2>1. Heeded(Datagram(c, "LIST_GROUPS_RESPONSE", Serveur, NoGroup,
                        GroupList(shm)), c)
    BY DEF Heeded, Datagram
  <2> QED
    BY <1>1, <1>9, <2>1, SendToOne DEF ListGroups, News, Only
<1>10. CASE \/ Public(m) \/ Private(m) \/ CreateGroup(m) \/ PromoteAdmin(m)
            \/ DemoteAdmin(m) \/ Disconnect(m)
  <2>1. News(m, c) = {}
    BY <1>10 DEF Public, Private, CreateGroup, PromoteAdmin, DemoteAdmin,
                 Disconnect, News
  <2>2. Arriving(sent', c) = {}
    <3>1. CASE Public(m)
      <4>1. ~Heeded(Datagram(c, "PUBLIC", m.sender, m.group, Nothing), c)
        BY DEF Heeded, Datagram
      <4> QED
        BY <3>1, <4>1, SendToGroupOne DEF Public
    <3>2. CASE Private(m)
      <4>1. ~Heeded(Datagram(c, "PRIVATE", m.sender, NoGroup, Nothing), c)
        BY DEF Heeded, Datagram
      <4>2. {m.arg} \in SUBSET Names
        BY <3>2, RequestType DEF Private
      <4> QED
        BY <1>2, <3>2, <4>1, <4>2, SendToOne DEF Private, Refuse
    <3>3. CASE CreateGroup(m)
      <4>1. ~Heeded(Datagram(c, "CREATE_GROUP", Serveur, NoGroup, Nothing), c)
        BY DEF Heeded, Datagram
      <4>2. sent' = {} \/ sent' = SendTo(shm, {m.sender}, "CREATE_GROUP",
                                         Serveur, NoGroup, Nothing)
        BY <3>3 DEF CreateGroup, Ignore
      <4> QED
        BY <1>1, <1>2, <4>1, <4>2, SendToOne
    <3>4. CASE PromoteAdmin(m) \/ DemoteAdmin(m) \/ Disconnect(m)
      BY <1>2, <3>4, NoticesArrive
      DEF PromoteAdmin, DemoteAdmin, Disconnect, Refuse, Ignore
    <3> QED
      BY <1>10, <3>1, <3>2, <3>3, <3>4
  <2> QED
    BY <2>1, <2>2
<1> QED
  BY <1>3, <1>4, <1>5, <1>6, <1>7, <1>8, <1>9, <1>10 DEF HandleClientMessage

-----------------------------------------------------------------------------
(* The types.                                                              *)

WellFormed(d) ==
    /\ d.type \in DatagramTypes
    /\ d.type = "JOIN" => d.group \in Groups /\ d.content \in Colors
    /\ d.type = "CHANGE_COLOR" => d.content \in Colors

\* A turn of the server adds one datagram, well formed, to an inbox or none.
LEMMA OneArrives ==
  ASSUME MemoryInv(shm), MemoryInv(shm'), OwnAddrs(shm), OwnAddrs(shm'),
         NEW m \in Requests, HandleClientMessage(m), NEW c \in Addrs
  PROVE  \/ Arriving(sent', c) = {}
         \/ \E d : Arriving(sent', c) = {d} /\ WellFormed(d)
<1>1. ASSUME NEW g \in Groups
      PROVE  shm'.groups[g].color \in Colors
  BY <1>1 DEF MemoryInv, SharedMemory, GroupSlots
<1>2. CASE Join(m)
  <2>1. m.group \in Groups
    BY <1>2, RequestType DEF Join
  <2>2. /\ WellFormed(Datagram(c, "JOIN", m.sender, m.group,
                               shm'.groups[m.group].color))
        /\ WellFormed(Datagram(c, "PUBLIC", Serveur, NoGroup, m.group))
    BY <1>1, <2>1 DEF WellFormed, Datagram, DatagramTypes
  <2> QED
    BY <1>2, <2>2, JoinArrives DEF Only
<1>3. CASE ~Join(m)
  <2>1. Arriving(sent', c) = News(m, c)
    BY <1>3, NewsArrive
  <2>2. CASE m.type = "CHANGE_COLOR"
    <3>1. WellFormed(Datagram(c, "CHANGE_COLOR", m.sender, m.group, m.arg))
      BY <2>2, RequestType DEF WellFormed, Datagram, DatagramTypes
    <3> QED
      BY <2>1, <2>2, <3>1 DEF News, Only
  <2>3. CASE m.type = "MERGE_GROUPS"
    <3>1. WellFormed(Datagram(c, "JOIN", NameOf[c], m.arg[1],
                              shm'.groups[m.arg[1]].color))
      BY <1>1, <2>3, RequestType DEF WellFormed, Datagram, DatagramTypes
    <3> QED
      BY <2>1, <2>3, <3>1 DEF News, Only
  <2>4. ASSUME NEW type \in DatagramTypes \ {"JOIN", "CHANGE_COLOR"},
               NEW sender, NEW g, NEW content
        PROVE  WellFormed(Datagram(c, type, sender, g, content))
    BY <2>4 DEF WellFormed, Datagram
  <2>5. {"LEAVE", "CONNECT_ACK", "LIST_USERS_RESPONSE", "LIST_GROUPS_RESPONSE"}
          \subseteq DatagramTypes \ {"JOIN", "CHANGE_COLOR"}
    BY DEF DatagramTypes
  <2>6. CASE m.type = "LEAVE" \/ m.type = "KICK_USER"
    BY <2>1, <2>4, <2>5, <2>6 DEF News, Only
  <2>7. CASE m.type = "CONNECT"
    BY <2>1, <2>4, <2>5, <2>7 DEF News, Only
  <2>8. CASE m.type = "LIST_USERS" \/ m.type = "LIST_GROUPS"
    BY <2>1, <2>4, <2>5, <2>8 DEF News, Only
  <2>9. CASE m.type \notin {"LEAVE", "CHANGE_COLOR", "MERGE_GROUPS",
                            "KICK_USER", "CONNECT", "LIST_USERS", "LIST_GROUPS"}
    BY <2>1, <2>9 DEF News
  <2> QED
    BY <2>2, <2>3, <2>6, <2>7, <2>8, <2>9
<1> QED
  BY <1>2, <1>3

\* Sequences of no datagram, and of one.
LEMMA SetToSeqOne ==
  /\ SetToSeq({}) = <<>>
  /\ \A d : SetToSeq({d}) = <<d>>
<1>1. SetToSeq({}) = <<>>
  <2> DEFINE nothing == {}
             s == SetToSeq(nothing)
  <2>1. s \in Seq(nothing)
    BY FS_EmptySet, SetToSeqQueue
  <2>2. nothing = {}
    OBVIOUS
  <2> HIDE DEF s, nothing
  <2>3. Len(s) = 0
    <3>1. ~(1 \in 1 .. Len(s))
      BY <2>1, <2>2
    <3> QED
      BY <2>1, <3>1
  <2>4. s = <<>>
    BY <2>1, <2>3
  <2> QED
    BY <2>4 DEF s, nothing
<1>2. ASSUME NEW d
      PROVE  SetToSeq({d}) = <<d>>
  <2> DEFINE s == SetToSeq({d})
  <2>1. IsFiniteSet({d}) /\ Cardinality({d}) = 1
    BY FS_Singleton
  <2>2. PICK f \in [1 .. Cardinality({d}) -> {d}] : IsInjective(f)
    BY <2>1, FS_CardinalityType
    DEF ExistsBijection, Bijection, Injection, IsInjective
  <2>3. s \in [1 .. 1 -> {d}]
    BY <2>1, <2>2 DEF SetToSeq
  <2> HIDE DEF s
  <2>4. s = <<d>>
    <3>1. s \in Seq({d})
      BY <2>1, SetToSeqQueue DEF s
    <3>2. DOMAIN s = 1 .. 1 /\ s[1] = d
      BY <2>3
    <3>3. Len(s) = 1
      BY <3>1, <3>2
    <3> QED
      BY <3>1, <3>2, <3>3
  <2> QED
    BY <2>4 DEF s
<1> QED
  BY <1>1, <1>2

\* So an inbox stays as it is, or grows at its end.
LEMMA InboxGrows ==
  ASSUME MemoryInv(shm), MemoryInv(shm'), OwnAddrs(shm), OwnAddrs(shm'),
         NEW m \in Requests, HandleClientMessage(m), NEW c \in Addrs,
         NEW S, NEW queue \in Seq(S)
  PROVE  \/ /\ Arriving(sent', c) = {}
            /\ queue \o SetToSeq(Arriving(sent', c)) = queue
         \/ \E d : /\ Arriving(sent', c) = {d} /\ WellFormed(d)
                   /\ queue \o SetToSeq(Arriving(sent', c)) = Append(queue, d)
<1>1. queue \o <<>> = queue
  OBVIOUS
<1>2. ASSUME NEW d
      PROVE  queue \o <<d>> = Append(queue, d)
  OBVIOUS
<1> QED
  BY <1>1, <1>2, OneArrives, SetToSeqOne

\* What is on its way from c, and to it.
Requesting(c, queue) ==
    /\ queue \in Seq(Requests)
    /\ \A i \in 1 .. Len(queue) : queue[i].from = c

Mail(queue) == \E S : queue \in Seq(S) /\ \A d \in S : WellFormed(d)

Globals ==
    /\ pc \in [Addrs -> Positions]
    /\ current_group \in [Addrs -> Groups \cup {NoGroup}]
    /\ color \in [Addrs -> Colors]
    /\ connected \in [Addrs -> BOOLEAN]
    /\ list_received \in [Addrs -> BOOLEAN]
    /\ list_buffer \in [Addrs -> DatagramTypes \cup {Nothing}]
    /\ joining \in [Addrs -> Groups \cup {NoGroup}]

Queues ==
    /\ out = [c \in Addrs |-> out[c]]
    /\ inbox = [c \in Addrs |-> inbox[c]]
    /\ \A c \in Addrs :
         /\ Requesting(c, out[c]) /\ Len(out[c]) <= MaxOut
         /\ Mail(inbox[c]) /\ Len(inbox[c]) <= MaxInbox

ServerSide == ServerInv /\ OwnAddrs(shm)

ChatTypeInv == ServerSide /\ Globals /\ Queues

\* Requests are added to a queue.
LEMMA RequestingGrows ==
  ASSUME NEW c, NEW queue, Requesting(c, queue), NEW r, Requesting(c, r)
  PROVE  Requesting(c, queue \o r) /\ Len(queue \o r) = Len(queue) + Len(r)
<1>1. Len(queue) \in Nat /\ Len(r) \in Nat
  BY DEF Requesting
<1>2. /\ queue \o r \in Seq(Requests)
      /\ Len(queue \o r) = Len(queue) + Len(r)
      /\ \A i \in 1 .. Len(queue) + Len(r) : (queue \o r)[i] =
           IF i <= Len(queue) THEN queue[i] ELSE r[i - Len(queue)]
  BY ConcatProperties DEF Requesting
<1>3. \A i \in 1 .. Len(queue \o r) : (queue \o r)[i].from = c
  <2> TAKE i \in 1 .. Len(queue \o r)
  <2>1. CASE i <= Len(queue)
    BY <1>1, <1>2, <2>1 DEF Requesting
  <2>2. CASE ~(i <= Len(queue))
    <3>1. i - Len(queue) \in 1 .. Len(r)
      BY <1>1, <1>2, <2>2
    <3> QED
      BY <1>1, <1>2, <2>2, <3>1 DEF Requesting
  <2> QED
    BY <2>1, <2>2
<1> QED
  BY <1>2, <1>3 DEF Requesting

\* A request is taken from a queue.
LEMMA RequestingShrinks ==
  ASSUME NEW c, NEW queue, Requesting(c, queue), NEW i \in 1 .. Len(queue)
  PROVE  /\ queue[i] \in Requests /\ queue[i].from = c
         /\ Requesting(c, RemoveAt(queue, i))
         /\ Len(RemoveAt(queue, i)) <= Len(queue)
<1>1. /\ RemoveAt(queue, i) \in Seq(Requests)
      /\ Len(RemoveAt(queue, i)) = Len(queue) - 1
      /\ \A j \in 1 .. Len(queue) - 1 :
           RemoveAt(queue, i)[j] = IF j < i THEN queue[j] ELSE queue[j + 1]
  BY RemoveAtQueue DEF Requesting
<1>2. Len(queue) \in Nat /\ queue[i] \in Requests /\ queue[i].from = c
  BY DEF Requesting
<1>3. \A j \in 1 .. Len(queue) - 1 :
        \E k \in 1 .. Len(queue) : RemoveAt(queue, i)[j] = queue[k]
  BY <1>1, <1>2
<1> QED
  BY <1>1, <1>2, <1>3 DEF Requesting

\* A datagram is added to an inbox, and taken from it.
LEMMA MailGrows ==
  ASSUME NEW queue, Mail(queue), NEW d, WellFormed(d)
  PROVE  Mail(Append(queue, d)) /\ Len(Append(queue, d)) = Len(queue) + 1
<1>1. PICK S : queue \in Seq(S) /\ \A x \in S : WellFormed(x)
  BY DEF Mail
<1>2. queue \in Seq(S \cup {d})
  BY <1>1, SeqMonotonic
<1>3. Append(queue, d) \in Seq(S \cup {d}) /\ Len(Append(queue, d)) = Len(queue) + 1
  BY <1>2
<1> QED
  BY <1>1, <1>3 DEF Mail

\* A datagram is taken from an inbox.
LEMMA MailShrinks ==
  ASSUME NEW queue, Mail(queue), NEW i \in 1 .. Len(queue)
  PROVE  /\ WellFormed(queue[i])
         /\ Mail(RemoveAt(queue, i))
         /\ Len(RemoveAt(queue, i)) <= Len(queue)
<1>1. PICK S : queue \in Seq(S) /\ \A x \in S : WellFormed(x)
  BY DEF Mail
<1>2. RemoveAt(queue, i) \in Seq(S) /\ Len(RemoveAt(queue, i)) = Len(queue) - 1
  BY <1>1, RemoveAtQueue
<1>3. queue[i] \in S /\ Len(queue) \in Nat
  BY <1>1
<1> QED
  BY <1>1, <1>2, <1>3 DEF Mail

\* An empty inbox.
LEMMA NoMail == Mail(<<>>) /\ Len(<<>>) = 0
<1> DEFINE nothing == {}
<1>1. <<>> \in Seq(nothing) /\ \A d \in nothing : WellFormed(d)
  OBVIOUS
<1> HIDE DEF nothing
<1> QED
  BY <1>1 DEF Mail

\* A turn of the server.
LEMMA ServeTypes ==
  ASSUME ChatTypeInv, NEW c \in Addrs, Serve(c)
  PROVE  ChatTypeInv'
<1>1. PICK i \in 1 .. Len(out[c]) :
        /\ Receive(out[c][i])
        /\ out' = [out EXCEPT ![c] = RemoveAt(@, i)]
  BY DEF Serve, Arrivable
<1> DEFINE m == out[c][i]
<1>2. /\ ServerInv /\ OwnAddrs(shm) /\ MemoryInv(shm) /\ Queues
      /\ Requesting(c, out[c])
  BY DEF ChatTypeInv, ServerSide, ServerInv, Queues
<1>3. /\ m \in Requests /\ m.from = c
      /\ Requesting(c, RemoveAt(out[c], i))
      /\ Len(RemoveAt(out[c], i)) <= Len(out[c])
  BY <1>2, RequestingShrinks
<1> HIDE DEF m
<1>4. HandleClientMessage(m) /\ m.sender = NameOf[m.from] /\ Next
  BY <1>1, <1>3, RequestSender DEF Receive, Next, m
<1>5. ServerInv' /\ MemoryInv(shm')
  BY <1>2, <1>4, StepInv DEF ServerInv
<1>6. OwnAddrs(shm')
  <2>1. ConnectionStep(shm, shm', m)
    BY <1>2, <1>3, <1>4, RequestConnections
  <2> QED
    BY <1>2, <1>4, <2>1 DEF OwnAddrs, ConnectionStep
<1>7. Globals'
  BY DEF ChatTypeInv, Serve, clientVars, Globals
<1>8. /\ out' = [d \in Addrs |-> out'[d]]
      /\ inbox' = [d \in Addrs |->
                     IF pc[d] = "off" THEN inbox[d]
                     ELSE inbox[d] \o SetToSeq(Arriving(sent', d))]
  BY <1>1, <1>2 DEF Queues, Serve, Arriving
<1>9. ASSUME NEW d \in Addrs
      PROVE  /\ Requesting(d, out'[d]) /\ Len(out'[d]) <= MaxOut
             /\ Mail(inbox'[d]) /\ Len(inbox'[d]) <= MaxInbox
  <2>1. Requesting(d, out'[d]) /\ Len(out'[d]) <= MaxOut
    <3>1. CASE d = c
      <4>1. out'[c] = RemoveAt(out[c], i)
        BY <1>1, <1>2 DEF Queues
      <4>2. /\ Len(out[c]) <= MaxOut /\ Len(out[c]) \in Nat
            /\ Len(RemoveAt(out[c], i)) \in Nat
        BY <1>2, <1>3 DEF Queues, Requesting
      <4> QED
        BY <1>3, <3>1, <4>1, <4>2, BoundsAssumption
    <3>2. CASE d # c
      BY <1>1, <1>2, <3>2 DEF Queues
    <3> QED
      BY <3>1, <3>2
  <2>2. PICK S : inbox[d] \in Seq(S) /\ \A x \in S : WellFormed(x)
    BY <1>2 DEF Queues, Mail
  <2>3. Mail(inbox[d]) /\ Len(inbox[d]) \in Nat /\ Len(inbox[d]) < MaxInbox
    BY <1>2, <2>2 DEF Queues, Serve
  <2>4. \/ inbox'[d] = inbox[d]
        \/ \E x : WellFormed(x) /\ inbox'[d] = Append(inbox[d], x)
    <3> DEFINE grown == inbox[d] \o SetToSeq(Arriving(sent', d))
    <3>1. inbox'[d] = inbox[d] \/ inbox'[d] = grown
      BY <1>8
    <3> HIDE DEF grown
    <3>2. grown = inbox[d] \/ \E x : WellFormed(x) /\ grown = Append(inbox[d], x)
      <4> USE DEF grown
      <4> QED
        BY <1>2, <1>3, <1>4, <1>5, <1>6, <2>2, InboxGrows, ZenonT(30)
    <3> QED
      BY <3>1, <3>2
  <2>5. Mail(inbox'[d]) /\ Len(inbox'[d]) \in {Len(inbox[d]), Len(inbox[d]) + 1}
    BY <2>3, <2>4, MailGrows
  <2> QED
    BY <2>1, <2>3, <2>5, BoundsAssumption
<1> QED
  BY <1>5, <1>6, <1>7, <1>8, <1>9 DEF ChatTypeInv, ServerSide, Queues

\* A step of a process: the memory stays, its queues remain well formed.
LEMMA ProcessTypes ==
  ASSUME ChatTypeInv, NEW c \in Addrs, UNCHANGED serverVars, Globals',
         out' = [d \in Addrs |-> out'[d]],
         inbox' = [d \in Addrs |-> inbox'[d]],
         \A d \in Addrs \ {c} : out'[d] = out[d] /\ inbox'[d] = inbox[d],
         Requesting(c, out'[c]), Len(out'[c]) <= MaxOut,
         Mail(inbox'[c]), Len(inbox'[c]) <= MaxInbox
  PROVE  ChatTypeInv'
  BY DEF ChatTypeInv, ServerSide, ServerInv, serverVars, Queues

\* A process that sends keeps the types.
LEMMA SendTypes ==
  ASSUME ChatTypeInv, NEW c \in Addrs, UNCHANGED serverVars, Globals',
         NEW r, Requesting(c, r), Room(c, Len(r)), Send(c, r),
         UNCHANGED inbox \/ inbox' = [inbox EXCEPT ![c] = <<>>]
  PROVE  ChatTypeInv'
<1>1. Queues /\ Requesting(c, out[c])
  BY DEF ChatTypeInv, Queues
<1>2. /\ out' = [d \in Addrs |-> out'[d]] /\ out'[c] = out[c] \o r
      /\ \A d \in Addrs \ {c} : out'[d] = out[d]
      /\ inbox' = [d \in Addrs |-> inbox'[d]]
      /\ \A d \in Addrs \ {c} : inbox'[d] = inbox[d]
      /\ inbox'[c] \in {inbox[c], <<>>}
  BY <1>1 DEF Queues, Send
<1>3. Requesting(c, out'[c]) /\ Len(out'[c]) <= MaxOut
  BY <1>1, <1>2, RequestingGrows DEF Room
<1>4. Mail(inbox'[c]) /\ Len(inbox'[c]) <= MaxInbox
  BY <1>1, <1>2, NoMail, BoundsAssumption DEF Queues
<1> QED
  BY <1>2, <1>3, <1>4, ProcessTypes

\* A process that does not send keeps the types.
LEMMA QuietTypes ==
  ASSUME ChatTypeInv, NEW c \in Addrs, UNCHANGED serverVars, Globals',
         UNCHANGED out,
         UNCHANGED inbox \/ inbox' = [inbox EXCEPT ![c] = <<>>]
  PROVE  ChatTypeInv'
<1>1. Queues
  BY DEF ChatTypeInv
<1>2. /\ out' = [d \in Addrs |-> out'[d]] /\ \A d \in Addrs : out'[d] = out[d]
      /\ inbox' = [d \in Addrs |-> inbox'[d]]
      /\ \A d \in Addrs \ {c} : inbox'[d] = inbox[d]
      /\ inbox'[c] \in {inbox[c], <<>>}
  BY <1>1 DEF Queues
<1>3. Mail(inbox'[c]) /\ Len(inbox'[c]) <= MaxInbox
  BY <1>1, <1>2, NoMail, BoundsAssumption DEF Queues
<1> QED
  BY <1>1, <1>2, <1>3, ProcessTypes DEF Queues

\* A datagram leaves an inbox.
LEMMA InboxTypes ==
  ASSUME ChatTypeInv, NEW c \in Addrs, UNCHANGED serverVars, Globals',
         UNCHANGED out, NEW i \in 1 .. Len(inbox[c]),
         inbox' = [inbox EXCEPT ![c] = RemoveAt(@, i)]
  PROVE  ChatTypeInv'
<1>1. Queues /\ Mail(inbox[c]) /\ Len(inbox[c]) <= MaxInbox
  BY DEF ChatTypeInv, Queues
<1>2. /\ inbox' = [d \in Addrs |-> inbox'[d]]
      /\ inbox'[c] = RemoveAt(inbox[c], i)
      /\ \A d \in Addrs \ {c} : inbox'[d] = inbox[d]
      /\ out' = [d \in Addrs |-> out'[d]] /\ \A d \in Addrs : out'[d] = out[d]
  BY <1>1 DEF Queues
<1>3. /\ Mail(RemoveAt(inbox[c], i))
      /\ Len(RemoveAt(inbox[c], i)) <= Len(inbox[c])
  BY <1>1, MailShrinks
<1>4. Mail(inbox'[c]) /\ Len(inbox'[c]) <= MaxInbox
  <2>1. Len(inbox[c]) \in Nat /\ Len(RemoveAt(inbox[c], i)) \in Nat
    BY <1>1, <1>3 DEF Mail
  <2> QED
    BY <1>1, <1>2, <1>3, <2>1, BoundsAssumption
<1> QED
  BY <1>1, <1>2, <1>4, ProcessTypes DEF Queues

\* The request that main() or a command sends.
LEMMA DatagramsRequesting ==
  ASSUME NEW c \in Addrs, NEW type, NEW g, NEW x,
         \/ type \in {"CONNECT", "DISCONNECT", "LIST_USERS", "LIST_GROUPS"} /\
            g = NoGroup /\ x = Nothing
         \/ type \in {"JOIN", "LEAVE", "PUBLIC"} /\ g \in Groups /\ x = Nothing
         \/ type = "PRIVATE" /\ g = NoGroup /\ x \in Names
         \/ type = "CHANGE_COLOR" /\ g \in Groups /\ x \in Colors
         \/ type = "MERGE_GROUPS" /\ g = NoGroup /\ x \in Groups \X Groups
         \/ type \in {"KICK_USER", "PROMOTE_ADMIN", "DEMOTE_ADMIN"} /\
            g \in Groups /\ x \in Names
  PROVE  /\ Requesting(c, Datagrams(c, type, g, x))
         /\ Len(Datagrams(c, type, g, x)) = 1
<1>1. PICK d \in Requests : /\ Datagrams(c, type, g, x) = <<d>>
                            /\ d.from = c
  BY DatagramsRequest
<1> QED
  BY <1>1 DEF Requesting

\* A datagram is lost.
LEMMA LoseTypes ==
  ASSUME ChatTypeInv, NEW c \in Addrs, Lose(c)
  PROVE  ChatTypeInv'
<1>1. /\ Queues /\ Requesting(c, out[c]) /\ Mail(inbox[c])
      /\ Len(out[c]) <= MaxOut /\ Len(inbox[c]) <= MaxInbox
  BY DEF ChatTypeInv, Queues
<1>2. UNCHANGED serverVars /\ Globals'
  BY DEF ChatTypeInv, Lose, clientVars, Globals
<1>3. CASE \E i \in 1 .. Len(out[c]) :
             out' = [out EXCEPT ![c] = RemoveAt(@, i)] /\ UNCHANGED inbox
  <2>1. PICK i \in 1 .. Len(out[c]) :
          out' = [out EXCEPT ![c] = RemoveAt(@, i)] /\ UNCHANGED inbox
    BY <1>3
  <2>2. /\ out' = [d \in Addrs |-> out'[d]] /\ out'[c] = RemoveAt(out[c], i)
        /\ \A d \in Addrs \ {c} : out'[d] = out[d]
        /\ inbox' = [d \in Addrs |-> inbox'[d]]
    BY <1>1, <2>1 DEF Queues
  <2>3. /\ Requesting(c, RemoveAt(out[c], i))
        /\ Len(RemoveAt(out[c], i)) <= Len(out[c])
    BY <1>1, RequestingShrinks
  <2>4. Requesting(c, out'[c]) /\ Len(out'[c]) <= MaxOut
    <3>1. Len(out[c]) \in Nat /\ Len(RemoveAt(out[c], i)) \in Nat
      BY <1>1, <2>3 DEF Requesting
    <3> QED
      BY <1>1, <2>2, <2>3, <3>1, BoundsAssumption
  <2> QED
    BY <1>1, <1>2, <2>1, <2>2, <2>4, ProcessTypes
<1>4. CASE \E i \in 1 .. Len(inbox[c]) :
             inbox' = [inbox EXCEPT ![c] = RemoveAt(@, i)] /\ UNCHANGED out
  <2>1. PICK i \in 1 .. Len(inbox[c]) :
          inbox' = [inbox EXCEPT ![c] = RemoveAt(@, i)] /\ UNCHANGED out
    BY <1>4
  <2> QED
    BY <1>1, <1>2, <2>1, InboxTypes
<1> QED
  BY <1>3, <1>4 DEF Lose

\* A step of receive_thread.
LEMMA ReceiveTypes ==
  ASSUME ChatTypeInv, NEW c \in Addrs, ReceiveThread(c)
  PROVE  ChatTypeInv'
<1>1. PICK i \in 1 .. Len(inbox[c]) :
        /\ inbox' = [inbox EXCEPT ![c] = RemoveAt(@, i)]
        /\ \/ ReceiveAck(c, inbox[c][i])  \/ ReceiveJoin(c, inbox[c][i])
           \/ ReceiveKick(c, inbox[c][i]) \/ ReceiveList(c, inbox[c][i])
           \/ ReceiveColor(c, inbox[c][i]) \/ ReceiveRefusal(c, inbox[c][i])
  BY DEF ReceiveThread, Arrivable
<1> DEFINE d == inbox[c][i]
<1>2. Globals /\ Mail(inbox[c])
  BY DEF ChatTypeInv, Queues
<1>3. WellFormed(d)
  BY <1>2, MailShrinks
<1> HIDE DEF d
<1>4. UNCHANGED serverVars /\ UNCHANGED out /\ UNCHANGED pc
  BY DEF ReceiveThread
<1>5. Globals'
  <2>1. CASE ReceiveAck(c, d)
    BY <1>2, <1>4, <2>1 DEF ReceiveAck, Globals
  <2>2. CASE ReceiveJoin(c, d)
    BY <1>2, <1>3, <1>4, <2>2 DEF ReceiveJoin, Globals, WellFormed
  <2>3. CASE ReceiveKick(c, d)
    <3>1. Green \in Colors
      BY ColorsAssumption
    <3> QED
      BY <1>2, <1>4, <2>3, <3>1 DEF ReceiveKick, Globals
  <2>4. CASE ReceiveList(c, d)
    BY <1>2, <1>3, <1>4, <2>4 DEF ReceiveList, Globals, WellFormed
  <2>5. CASE ReceiveColor(c, d)
    BY <1>2, <1>3, <1>4, <2>5 DEF ReceiveColor, Globals, WellFormed
  <2>6. CASE ReceiveRefusal(c, d)
    BY <1>2, <1>4, <2>6 DEF ReceiveRefusal, Globals
  <2> QED
    BY <1>1, <2>1, <2>2, <2>3, <2>4, <2>5, <2>6 DEF d
<1> QED
  BY <1>1, <1>4, <1>5, InboxTypes

\* main() between its commands.
LEMMA ConnectionTypes ==
  ASSUME ChatTypeInv, NEW c \in Addrs, Connection(c)
  PROVE  ChatTypeInv'
<1>1. Globals
  BY DEF ChatTypeInv
<1>2. {"off", "connect_sent", "connecting", "unreachable", "ready"}
        \subseteq Positions
  BY DEF Positions, Running
<1>3. CASE Start(c)
  <2>1. /\ Requesting(c, Datagrams(c, "CONNECT", NoGroup, Nothing))
        /\ Len(Datagrams(c, "CONNECT", NoGroup, Nothing)) = 1
    BY DatagramsRequesting
  <2>2. Globals' /\ UNCHANGED serverVars /\ UNCHANGED inbox
    BY <1>1, <1>2, <1>3 DEF Start, Globals
  <2>3. Room(c, 1)
    BY <1>3, BoundsAssumption DEF Start, Room
  <2> QED
    BY <1>3, <2>1, <2>2, <2>3, SendTypes DEF Start
<1>4. CASE ResetConnected(c) \/ Connected(c) \/ ConnectTimeout(c)
  <2>1. UNCHANGED serverVars /\ UNCHANGED out /\ UNCHANGED inbox
    BY <1>4 DEF ResetConnected, Connected, ConnectTimeout
  <2>2. Globals'
    BY <1>1, <1>2, <1>4 DEF ResetConnected, Connected, ConnectTimeout, Globals
  <2> QED
    BY <2>1, <2>2, QuietTypes
<1>5. End(c) => /\ UNCHANGED serverVars /\ Globals'
                /\ inbox' = [inbox EXCEPT ![c] = <<>>]
  BY <1>1, <1>2, ColorsAssumption DEF End, Globals
<1>6. CASE GiveUp(c) \/ Crash(c)
  BY <1>5, <1>6, QuietTypes DEF GiveUp, Crash
<1>7. CASE Quit(c)
  <2>1. /\ Requesting(c, Datagrams(c, "DISCONNECT", NoGroup, Nothing))
        /\ Len(Datagrams(c, "DISCONNECT", NoGroup, Nothing)) = 1
    BY DatagramsRequesting
  <2> QED
    BY <1>5, <1>7, <2>1, SendTypes DEF Quit
<1> QED
  BY <1>3, <1>4, <1>6, <1>7 DEF Connection

\* A command that sends one request.
LEMMA RequestTypes ==
  ASSUME ChatTypeInv, NEW c \in Addrs, UNCHANGED serverVars, UNCHANGED inbox,
         Globals', NEW type, NEW g, NEW x,
         \/ type \in {"LIST_USERS", "LIST_GROUPS"} /\ g = NoGroup /\ x = Nothing
         \/ type \in {"LEAVE", "PUBLIC"} /\ g \in Groups /\ x = Nothing
         \/ type = "PRIVATE" /\ g = NoGroup /\ x \in Names
         \/ type = "CHANGE_COLOR" /\ g \in Groups /\ x \in Colors
         \/ type = "MERGE_GROUPS" /\ g = NoGroup /\ x \in Groups \X Groups
         \/ type \in {"KICK_USER", "PROMOTE_ADMIN", "DEMOTE_ADMIN"} /\
            g \in Groups /\ x \in Names,
         Room(c, 1), Send(c, Datagrams(c, type, g, x))
  PROVE  ChatTypeInv'
<1>1. /\ Requesting(c, Datagrams(c, type, g, x))
      /\ Len(Datagrams(c, type, g, x)) = 1
  BY DatagramsRequesting
<1> QED
  BY <1>1, SendTypes

\* process_command.
LEMMA CommandTypes ==
  ASSUME ChatTypeInv, NEW c \in Addrs, ProcessCommand(c)
  PROVE  ChatTypeInv'
<1>1. Globals
  BY DEF ChatTypeInv
<1>2. {"ready", "leaving", "LIST_USERS", "LIST_GROUPS", "awaiting_users",
       "awaiting_groups"} \subseteq Positions
  BY DEF Running, Positions
<1>3. UNCHANGED clientVars => Globals'
  BY <1>1 DEF clientVars, Globals
<1>4. ASSUME NEW g \in Groups, CmdJoin(c, g)
      PROVE  ChatTypeInv'
  <2> DEFINE leave == IF current_group[c] = NoGroup THEN <<>>
                      ELSE Datagrams(c, "LEAVE", current_group[c], Nothing)
             join == Datagrams(c, "JOIN", g, Nothing)
  <2>1. Requesting(c, join) /\ Len(join) = 1
    BY DatagramsRequesting
  <2>2. Requesting(c, leave) /\ Len(leave) \in {0, 1}
    <3>1. CASE current_group[c] = NoGroup
      BY <3>1 DEF Requesting
    <3>2. CASE current_group[c] # NoGroup
      <4>1. current_group[c] \in Groups
        BY <1>1, <3>2 DEF Globals
      <4>2. /\ Requesting(c, Datagrams(c, "LEAVE", current_group[c], Nothing))
            /\ Len(Datagrams(c, "LEAVE", current_group[c], Nothing)) = 1
        BY <4>1, DatagramsRequesting
      <4> QED
        BY <3>2, <4>2
    <3> QED
      BY <3>1, <3>2
  <2>3. Send(c, leave \o join)
    BY <1>4 DEF CmdJoin
  <2> HIDE DEF leave, join
  <2>4. /\ Requesting(c, leave \o join)
        /\ Len(leave \o join) = Len(leave) + Len(join)
    <3>1. Requesting(c, leave) /\ Requesting(c, join)
      BY <2>1, <2>2
    <3> QED
      BY <3>1, RequestingGrows
  <2> DEFINE n == Len(leave \o join)
  <2>5. n = 0 + 1 \/ n = 1 + 1
    BY <2>1, <2>2, <2>4, Zenon
  <2> HIDE DEF n
  <2>6. Room(c, n)
    <3>1. Len(out[c]) \in Nat
      BY DEF ChatTypeInv, Queues, Requesting
    <3>2. Room(c, 2)
      BY <1>4 DEF CmdJoin, Types
    <3> QED
      BY <2>5, <3>1, <3>2, BoundsAssumption DEF Room
  <2>7. Globals' /\ UNCHANGED serverVars /\ UNCHANGED inbox
    BY <1>1, <1>4 DEF CmdJoin, Globals
  <2> QED
    BY <2>3, <2>4, <2>6, <2>7, SendTypes DEF n
<1>5. CASE CmdLeave(c)
  <2>1. current_group[c] \in Groups
    BY <1>1, <1>5 DEF CmdLeave, Globals
  <2>2. Globals'
    BY <1>1, <1>2, <1>5 DEF CmdLeave, Globals
  <2> QED
    BY <1>5, <2>1, <2>2, RequestTypes DEF CmdLeave, Types
<1>6. CASE ClearGroup(c)
  <2>1. Globals'
    BY <1>1, <1>2, <1>6, ColorsAssumption DEF ClearGroup, Globals
  <2> QED
    BY <1>6, <2>1, QuietTypes DEF ClearGroup
<1>7. ASSUME NEW g1 \in Groups, NEW g2 \in Groups, CmdMerge(c, g1, g2)
      PROVE  ChatTypeInv'
  BY <1>3, <1>7, RequestTypes DEF CmdMerge, Types
<1>8. ASSUME NEW command, NEW type, NEW x, OnCurrentGroup(c, command, type, x),
             \/ type = "CHANGE_COLOR" /\ x \in Colors
             \/ type \in {"KICK_USER", "PROMOTE_ADMIN", "DEMOTE_ADMIN"} /\
                x \in Names
             \/ type = "PUBLIC" /\ x = Nothing
      PROVE  ChatTypeInv'
  <2>1. current_group[c] \in Groups
    BY <1>1, <1>8 DEF OnCurrentGroup, Globals
  <2>2. /\ UNCHANGED serverVars /\ UNCHANGED inbox /\ Globals'
        /\ Room(c, 1) /\ Send(c, Datagrams(c, type, current_group[c], x))
    BY <1>3, <1>8 DEF OnCurrentGroup, Types
  <2> QED
    BY <1>8, <2>1, <2>2, RequestTypes
<1>9. ASSUME NEW x \in Colors, CmdColor(c, x)
      PROVE  ChatTypeInv'
  BY <1>8, <1>9 DEF CmdColor
<1>10. ASSUME NEW u \in Names, CmdKick(c, u) \/ CmdPromote(c, u) \/ CmdDemote(c, u)
       PROVE  ChatTypeInv'
  BY <1>8, <1>10 DEF CmdKick, CmdPromote, CmdDemote
<1>11. CASE CmdText(c)
  BY <1>8, <1>11 DEF CmdText
<1>12. ASSUME NEW u \in Names, CmdMsg(c, u)
       PROVE  ChatTypeInv'
  BY <1>3, <1>12, RequestTypes DEF CmdMsg, Types
<1>13. ASSUME NEW command, NEW type \in {"LIST_USERS", "LIST_GROUPS"},
              CmdList(c, command, type)
       PROVE  ChatTypeInv'
  <2>1. Globals'
    BY <1>1, <1>2, <1>13 DEF CmdList, Globals
  <2> QED
    BY <1>13, <2>1, RequestTypes DEF CmdList, Types
<1>14. CASE ResetListReceived(c) \/ ShowList(c) \/ ListTimeout(c)
  <2>1. UNCHANGED serverVars /\ UNCHANGED out /\ UNCHANGED inbox
    BY <1>14 DEF ResetListReceived, ShowList, ListTimeout
  <2>2. Globals'
    <3>1. CASE ResetListReceived(c)
      BY <1>1, <1>2, <3>1 DEF ResetListReceived, Globals
    <3>2. CASE ShowList(c)
      BY <1>1, <1>2, <3>2 DEF ShowList, Globals
    <3>3. CASE ListTimeout(c)
      BY <1>1, <1>2, <3>3 DEF ListTimeout, Globals
    <3> QED
      BY <1>14, <3>1, <3>2, <3>3
  <2> QED
    BY <2>1, <2>2, QuietTypes
<1> QED
  BY <1>4, <1>5, <1>6, <1>7, <1>9, <1>10, <1>11, <1>12, <1>13, <1>14
  DEF ProcessCommand

\* Nothing is on its way at first.
LEMMA ChatInitTypes == ChatInit => ChatTypeInv
<1> SUFFICES ASSUME ChatInit PROVE ChatTypeInv
  OBVIOUS
<1>1. ServerInv /\ OwnAddrs(shm)
  BY ChatInitInv DEF ChatInv
<1>2. Globals
  BY ColorsAssumption DEF ChatInit, Globals, Positions
<1>3. Queues
  <2>1. \A c \in Addrs : Requesting(c, <<>>)
    BY DEF Requesting
  <2> QED
    BY <2>1, NoMail, BoundsAssumption DEF ChatInit, Queues
<1> QED
  BY <1>1, <1>2, <1>3 DEF ChatTypeInv, ServerSide

\* Every step keeps the types.
LEMMA ChatStepTypes == ChatTypeInv /\ [ChatNext]_vars => ChatTypeInv'
<1> SUFFICES ASSUME ChatTypeInv, [ChatNext]_vars
             PROVE  ChatTypeInv'
  OBVIOUS
<1>1. CASE UNCHANGED vars
  BY <1>1 DEF vars, serverVars, clientVars, ChatTypeInv, ServerSide, ServerInv,
              Globals, Queues
<1>2. ASSUME NEW c \in Addrs,
             \/ Serve(c) \/ Lose(c)
             \/ ReceiveThread(c) \/ Connection(c) \/ ProcessCommand(c)
      PROVE  ChatTypeInv'
  BY <1>2, ServeTypes, LoseTypes, ReceiveTypes, ConnectionTypes, CommandTypes
<1> QED
  BY <1>1, <1>2 DEF ChatNext

\* The globals of the clients stay well formed and the queues bounded,
\* whatever is lost, interrupted or killed: the colour of a prompt is one of
\* group_color.h, and the group one that a /join named (client.c:60-150).
THEOREM ClientGlobalsAreWellFormed == ChatSpec => []ChatTypeOK
<1>1. ChatTypeInv => ChatTypeOK
  BY DEF ChatTypeInv, Globals, Queues, Positions, ChatTypeOK
<1> QED
  BY <1>1, ChatInitTypes, ChatStepTypes, PTL DEF ChatSpec
=============================================================================
