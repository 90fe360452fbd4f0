------------------------------- MODULE Server -------------------------------
(***************************************************************************)
(* The chat server: main() takes one datagram at a time from its socket    *)
(* and handle_client_message() serves it between sem_p and sem_v, so each  *)
(* request is one step here (Semaphore.tla looks inside the lock).  The    *)
(* environment sends any request a client can build, in any order.         *)
(*                                                                         *)
(*   shm   the shared memory, which outlives the server process            *)
(*   msg   main's Message buffer: the request served last                  *)
(*   sent  the datagrams sent while serving it                             *)
(*                                                                         *)
(* The texts of notices are left out: every "Serveur" message that a       *)
(* client only displays is [type |-> "PUBLIC", sender |-> Serveur].  The   *)
(* refusal of a join keeps the group it names, by which a user knows it.   *)
(***************************************************************************)
EXTENDS Registry

CONSTANTS
    Serveur,      \* the sender name of the server's own messages
    NameOf,       \* the user name each client process was started with
    Nothing,      \* an empty content
    Restarts      \* whether the server may be restarted

ASSUME AddrsAssumption == NameOf \in [Addrs -> Names]
ASSUME RestartsAssumption == Restarts \in BOOLEAN

VARIABLES shm, msg, sent

serverVars == <<shm, msg, sent>>

-----------------------------------------------------------------------------
(* Requests, as process_command and main of client.c build them.  arg is   *)
(* the content: a user, a colour, a pair of groups; for PRIVATE it is the  *)
(* recipient, the text being left out.  CREATE_GROUP is part of the        *)
(* protocol and served, although client.c has no command that sends it.    *)

Request(type, groups, args) ==
    {[type |-> type, from |-> a, sender |-> NameOf[a], group |-> g, arg |-> x] :
        a \in Addrs, g \in groups, x \in args}

Requests ==
    UNION {
        Request("CONNECT", {NoGroup}, {Nothing}),
        Request("DISCONNECT", {NoGroup}, {Nothing}),
        Request("LIST_USERS", {NoGroup}, {Nothing}),
        Request("LIST_GROUPS", {NoGroup}, {Nothing}),
        Request("JOIN", Groups, {Nothing}),
        Request("LEAVE", Groups, {Nothing}),
        Request("PUBLIC", Groups, {Nothing}),
        Request("PRIVATE", {NoGroup}, Names),
        Request("CHANGE_COLOR", Groups, Colors),
        Request("CREATE_GROUP", {NoGroup}, Groups),
        Request("MERGE_GROUPS", {NoGroup}, Groups \X Groups),
        Request("KICK_USER", Groups, Names),
        Request("PROMOTE_ADMIN", Groups, Names),
        Request("DEMOTE_ADMIN", Groups, Names)}

NoRequest == [type |-> "NONE", from |-> NoAddr, sender |-> Serveur,
              group |-> NoGroup, arg |-> Nothing]

-----------------------------------------------------------------------------
(* Datagrams to clients.                                                   *)

Datagram(a, type, sender, g, content) ==
    [to |-> a, type |-> type, sender |-> sender, group |-> g,
     content |-> content]

\* One datagram to each connected user of a set, at the address of its slot.
SendTo(s, users, type, sender, g, content) ==
    {Datagram(s.users[u].addr, type, sender, g, content) :
        u \in {v \in users : UserFound(s, v)}}

\* message_send_to_group: to the members of g other than the sender.
SendToGroup(s, type, sender, g, content) ==
    IF GroupFound(s, g)
    THEN SendTo(s, s.groups[g].users \ {sender}, type, sender, g, content)
    ELSE {}

\* A "Serveur" message to one user: an error or a notice.
Tell(s, u) == SendTo(s, {u}, "PUBLIC", Serveur, NoGroup, Nothing)

\* The "Serveur" message to a whole group.
Announce(s, g) == SendToGroup(s, "PUBLIC", Serveur, g, Nothing)

\* What /users and /groups list.
UserList(s) ==
    {<<u, s.users[u].current_group>> : u \in {v \in Names : UserFound(s, v)}}

GroupList(s) ==
    {<<g, Cardinality(s.groups[g].users), Cardinality(s.groups[g].admins)>> :
        g \in {h \in Groups : GroupFound(s, h) /\ s.groups[h].users # {}}}

-----------------------------------------------------------------------------
(* The cases of handle_client_message.                                     *)

\* The common outcomes of the refusals: an error to the sender, or nothing.
Refuse(m) == shm' = shm /\ sent' = Tell(shm, m.sender)

Ignore == shm' = shm /\ sent' = {}

\* Mutant: a join that fails is not answered.
Join_SilentFailure(m) ==
    LET registered == IF UserFound(shm, m.sender) THEN shm
                      ELSE UserAdd(shm, m.sender, m.from)
        prepared == IF GroupFound(registered, m.group) THEN registered
                    ELSE GroupCreate(registered, m.group, m.sender)
    IN  /\ m.type = "JOIN"
        /\ \/ /\ CanJoinGroup(prepared, m.group, m.sender)
              /\ shm' = GroupAddUser(prepared, m.group, m.sender)
              /\ sent' = SendTo(shm', {m.sender}, "JOIN", m.sender, m.group,
                                shm'.groups[m.group].color)
           \/ /\ ~CanJoinGroup(prepared, m.group, m.sender)
              /\ shm' = prepared
              /\ sent' = {}

\* The sender gets a slot and a missing group is created before the outcome
\* of the join is known; both stay when the join fails.
Join(m) ==
    LET registered == IF UserFound(shm, m.sender) THEN shm
                      ELSE UserAdd(shm, m.sender, m.from)
        prepared == IF GroupFound(registered, m.group) THEN registered
                    ELSE GroupCreate(registered, m.group, m.sender)
    IN  /\ m.type = "JOIN"
        /\ \/ /\ CanJoinGroup(prepared, m.group, m.sender)
              /\ shm' = GroupAddUser(prepared, m.group, m.sender)
              /\ sent' = SendToGroup(shm', "JOIN", m.sender, m.group, Nothing)
                         \cup SendTo(shm', {m.sender}, "JOIN", m.sender,
                                     m.group, shm'.groups[m.group].color)
           \/ /\ ~CanJoinGroup(prepared, m.group, m.sender)
              /\ shm' = prepared
              /\ sent' = SendTo(prepared, {m.sender}, "PUBLIC", Serveur,
                                NoGroup, m.group)

Leave(m) ==
    /\ m.type = "LEAVE"
    /\ shm' = GroupRemoveUser(shm, m.group, m.sender)
    /\ sent' = SendToGroup(shm', "LEAVE", m.sender, m.group, Nothing)

\* Nothing asks the sender to be a member of the group.
Public(m) ==
    /\ m.type = "PUBLIC"
    /\ shm' = shm
    /\ sent' = SendToGroup(shm, "PUBLIC", m.sender, m.group, Nothing)

Private(m) ==
    /\ m.type = "PRIVATE"
    /\ \/ /\ UserFound(shm, m.arg)
          /\ shm' = shm
          /\ sent' = SendTo(shm, {m.arg}, "PRIVATE", m.sender, NoGroup, Nothing)
       \/ ~UserFound(shm, m.arg) /\ Refuse(m)

ChangeColor(m) ==
    /\ m.type = "CHANGE_COLOR"
    /\ \/ ~GroupFound(shm, m.group) /\ Ignore
       \/ /\ GroupFound(shm, m.group)
          /\ ~IsAdmin(shm, m.group, m.sender)
          /\ Refuse(m)
       \/ /\ IsAdmin(shm, m.group, m.sender)
          /\ shm' = [users  |-> shm.users,
                     groups |-> [shm.groups EXCEPT ![m.group].color = m.arg]]
          /\ sent' = SendTo(shm, shm.groups[m.group].users,
                            "CHANGE_COLOR", m.sender, m.group, m.arg)

CreateGroup(m) ==
    /\ m.type = "CREATE_GROUP"
    /\ \/ /\ CanCreateGroup(shm, m.arg)
          /\ shm' = GroupCreate(shm, m.arg, m.sender)
          /\ sent' = SendTo(shm, {m.sender}, "CREATE_GROUP", Serveur,
                            NoGroup, Nothing)
       \/ ~CanCreateGroup(shm, m.arg) /\ Ignore

\* Mutant: the list of the second group is read after the merge.
MergeGroups_SavesListLate(m) ==
    LET g1 == m.arg[1]
        g2 == m.arg[2]
    IN  /\ m.type = "MERGE_GROUPS"
        /\ IsAdmin(shm, g1, m.sender)
        /\ CanMerge(shm, g1, g2)
        /\ shm' \in GroupMerge(shm, g1, g2)
        /\ sent' = Announce(shm', g1) \cup
                   UNION {SendTo(shm', {u}, "JOIN", u, g1,
                                 shm'.groups[g1].color) :
                          u \in shm'.groups[g2].users}

\* The former members of the second group, active ones only, are sent a
\* JOIN confirmation for the first, which is where their client then is.
MergeGroups(m) ==
    LET g1 == m.arg[1]
        g2 == m.arg[2]
    IN  /\ m.type = "MERGE_GROUPS"
        /\ \/ ~(GroupFound(shm, g1) /\ GroupFound(shm, g2)) /\ Refuse(m)
           \/ /\ GroupFound(shm, g1) /\ GroupFound(shm, g2)
              /\ ~IsAdmin(shm, g1, m.sender)
              /\ Refuse(m)
           \/ IsAdmin(shm, g1, m.sender) /\ g1 = g2 /\ Ignore
           \/ /\ IsAdmin(shm, g1, m.sender)
              /\ CanMerge(shm, g1, g2)
              /\ shm' \in GroupMerge(shm, g1, g2)
              /\ sent' = Announce(shm', g1) \cup
                         UNION {SendTo(shm', {u}, "JOIN", u, g1,
                                              shm'.groups[g1].color) :
                                       u \in shm.groups[g2].users}

\* Mutant: administrators may kick themselves.
KickUser_Self(m) ==
    /\ m.type = "KICK_USER"
    /\ IsAdmin(shm, m.group, m.sender)
    /\ shm' = GroupKickUser(shm, m.group, m.arg)
    /\ sent' = {}

\* Mutant: only the group is told of the kick.
KickUser_Quiet(m) ==
    /\ m.type = "KICK_USER"
    /\ IsAdmin(shm, m.group, m.sender)
    /\ m.arg # m.sender
    /\ shm' = GroupKickUser(shm, m.group, m.arg)
    /\ sent' = Announce(shm', m.group)

\* A kick that finds no such member may still remove an admin right, and is
\* not answered.
KickUser(m) ==
    /\ m.type = "KICK_USER"
    /\ \/ ~GroupFound(shm, m.group) /\ Ignore
       \/ /\ GroupFound(shm, m.group)
          /\ ~IsAdmin(shm, m.group, m.sender)
          /\ Refuse(m)
       \/ IsAdmin(shm, m.group, m.sender) /\ m.arg = m.sender /\ Refuse(m)
       \/ /\ IsAdmin(shm, m.group, m.sender)
          /\ m.arg # m.sender
          /\ shm' = GroupKickUser(shm, m.group, m.arg)
          /\ sent' = IF IsMember(shm, m.group, m.arg)
                     THEN Announce(shm', m.group) \cup
                          SendTo(shm', {m.arg}, "LEAVE", Serveur, m.group,
                                 Nothing)
                     ELSE {}

\* Mutant: anyone may promote.
PromoteAdmin_ByAnyone(m) ==
    /\ m.type = "PROMOTE_ADMIN"
    /\ UserFound(shm, m.arg)
    /\ CanAddAdmin(shm, m.group, m.arg)
    /\ shm' = GroupAddAdmin(shm, m.group, m.arg)
    /\ sent' = Tell(shm, m.arg) \cup Announce(shm, m.group)

PromoteAdmin(m) ==
    /\ m.type = "PROMOTE_ADMIN"
    /\ \/ ~GroupFound(shm, m.group) /\ Ignore
       \/ /\ GroupFound(shm, m.group)
          /\ ~(/\ IsAdmin(shm, m.group, m.sender)
               /\ UserFound(shm, m.arg)
               /\ CanAddAdmin(shm, m.group, m.arg))
          /\ Refuse(m)
       \/ /\ IsAdmin(shm, m.group, m.sender)
          /\ UserFound(shm, m.arg)
          /\ CanAddAdmin(shm, m.group, m.arg)
          /\ shm' = GroupAddAdmin(shm, m.group, m.arg)
          /\ sent' = Tell(shm, m.arg) \cup Announce(shm, m.group)

DemoteAdmin(m) ==
    /\ m.type = "DEMOTE_ADMIN"
    /\ \/ ~GroupFound(shm, m.group) /\ Ignore
       \/ /\ GroupFound(shm, m.group)
          /\ ~(/\ IsAdmin(shm, m.group, m.sender)
               /\ m.arg # m.sender
               /\ UserFound(shm, m.arg)
               /\ CanRemoveAdmin(shm, m.group, m.arg))
          /\ Refuse(m)
       \/ /\ IsAdmin(shm, m.group, m.sender)
          /\ m.arg # m.sender
          /\ UserFound(shm, m.arg)
          /\ CanRemoveAdmin(shm, m.group, m.arg)
          /\ shm' = GroupRemoveAdmin(shm, m.group, m.arg)
          /\ sent' = Tell(shm, m.arg) \cup Announce(shm, m.group)

Disconnect(m) ==
    /\ m.type = "DISCONNECT"
    /\ shm' = UserRemove(shm, m.sender)
    /\ sent' = {}

\* Mutant: an active name moves to the address of the new connection.
Connect_MovesAddr(m) ==
    /\ m.type = "CONNECT"
    /\ shm' = IF UserFound(shm, m.sender)
              THEN [shm EXCEPT !.users[m.sender].addr = m.from]
              ELSE UserAdd(shm, m.sender, m.from)
    /\ sent' = SendTo(shm', {m.sender}, "CONNECT_ACK", Serveur, NoGroup,
                      Nothing)

\* Mutant: the acknowledgement goes to the process that asked.
Connect_AcksSender(m) ==
    /\ m.type = "CONNECT"
    /\ shm' = IF UserFound(shm, m.sender) THEN shm
              ELSE UserAdd(shm, m.sender, m.from)
    /\ sent' = {Datagram(m.from, "CONNECT_ACK", Serveur, NoGroup, Nothing)}

\* A name that is active already keeps the address of its slot, and the
\* acknowledgement goes there.
Connect(m) ==
    /\ m.type = "CONNECT"
    /\ shm' = IF UserFound(shm, m.sender) THEN shm
              ELSE UserAdd(shm, m.sender, m.from)
    /\ sent' = SendTo(shm', {m.sender}, "CONNECT_ACK", Serveur, NoGroup,
                      Nothing)

ListUsers(m) ==
    /\ m.type = "LIST_USERS"
    /\ shm' = shm
    /\ sent' = SendTo(shm, {m.sender}, "LIST_USERS_RESPONSE", Serveur,
                      NoGroup, UserList(shm))

ListGroups(m) ==
    /\ m.type = "LIST_GROUPS"
    /\ shm' = shm
    /\ sent' = SendTo(shm, {m.sender}, "LIST_GROUPS_RESPONSE", Serveur,
                      NoGroup, GroupList(shm))

HandleClientMessage(m) ==
    \/ Join(m)        \/ Leave(m)        \/ Public(m)       \/ Private(m)
    \/ ChangeColor(m) \/ CreateGroup(m)  \/ MergeGroups(m)  \/ KickUser(m)
    \/ PromoteAdmin(m) \/ DemoteAdmin(m) \/ Disconnect(m)   \/ Connect(m)
    \/ ListUsers(m)   \/ ListGroups(m)

Receive(m) == HandleClientMessage(m) /\ msg' = m

\* The server is stopped (or killed between two requests) and started again:
\* the memory is still there, its users are not connected any more.
Restart ==
    /\ Restarts
    /\ shm' = Deactivated(shm)
    /\ msg' = NoRequest
    /\ sent' = {}

Init == shm = EmptyMemory /\ msg = NoRequest /\ sent = {}

Next == Restart \/ \E m \in Requests : Receive(m)

Spec == Init /\ [][Next]_serverVars

-----------------------------------------------------------------------------
(* Properties.                                                             *)

DatagramTypes == {"JOIN", "LEAVE", "PUBLIC", "PRIVATE", "CHANGE_COLOR",
                  "CREATE_GROUP", "CONNECT_ACK", "LIST_USERS_RESPONSE",
                  "LIST_GROUPS_RESPONSE"}

\* The shared memory stays well formed, and datagrams go to addresses of
\* client processes, never to the address of a slot that was not filled.
TypeOK ==
    /\ shm \in SharedMemory
    /\ msg \in Requests \cup {NoRequest}
    /\ \A d \in sent : d.to \in Addrs /\ d.type \in DatagramTypes

\* Every member of a group holds a user slot, whatever joins, merges, kicks
\* and restarts came before; so the lists of MAX_CLIENTS entries never lack
\* room and group_merge never drops a member on the floor.
MembersHaveSlots ==
    \A g \in Groups : shm.groups[g].users \subseteq UserSlots(shm)

\* An active group always has an administrator: neither a kick nor a
\* demotion, in any order, takes the last one (uml_use_case.puml:88-89).
EveryGroupKeepsAnAdmin ==
    \A g \in Groups : GroupFound(shm, g) => shm.groups[g].admins # {}

\* The memory names no group for a user who is in none: a connected user
\* with a current_group is a member of some group, and a user who is not
\* connected is in no group at all.  Holds while the server is up.
NoGhosts ==
    \A u \in Names :
        LET home == {g \in Groups : IsMember(shm, g, u)}
        IN  /\ shm.users[u].current_group # NoGroup => home # {}
            /\ ~UserFound(shm, u) => home = {}

\* What a user loses without asking, it is told in the same step: a connected
\* user is no longer a member of a group after its own LEAVE of that group or
\* DISCONNECT, or it is sent the kick, or it is sent the confirmation of a
\* group that it is now in.
NoSilentEviction ==
    [][\A g \in Groups : \A u \in shm.groups[g].users \ shm'.groups[g].users :
         UserFound(shm, u) =>
            \/ /\ msg'.sender = u
               /\ \/ msg'.type = "LEAVE" /\ msg'.group = g
                  \/ msg'.type = "DISCONNECT"
            \/ \E d \in sent' :
                  /\ d.to = shm.users[u].addr
                  /\ \/ d.type = "LEAVE" /\ d.sender = Serveur /\ d.group = g
                     \/ /\ d.type = "JOIN" /\ d.sender = u
                        /\ IsMember(shm', d.group, u)]_serverVars

\* A join confirmation is true when it is sent: its user is a member of the
\* group, it goes to the address of that user, and it carries the colour of
\* the group.  For a merge this relies on no member being dropped.
ConfirmationsAreTrue ==
    [][\A d \in sent' : d.type = "JOIN" /\ d.content # Nothing =>
         /\ IsMember(shm', d.group, d.sender)
         /\ UserFound(shm', d.sender)
         /\ d.to = shm'.users[d.sender].addr
         /\ d.content = shm'.groups[d.group].color]_serverVars

\* A group that exists is governed by its administrators: its colour, its
\* administrators, its existence, and the membership of anyone but the
\* sender, change on the request of one of them, or of an administrator of
\* the group that absorbs it in a merge.
OnlyAdminsGovern ==
    [][\A g \in Groups : GroupFound(shm, g) =>
         \/ IsAdmin(shm, g, msg'.sender)
         \/ /\ msg'.type = "MERGE_GROUPS" /\ msg'.arg[2] = g
            /\ IsAdmin(shm, msg'.arg[1], msg'.sender)
         \/ /\ GroupFound(shm', g)
            /\ shm'.groups[g].color = shm.groups[g].color
            /\ shm'.groups[g].admins = shm.groups[g].admins
            /\ shm'.groups[g].users \ {msg'.sender} =
                 shm.groups[g].users \ {msg'.sender}]_serverVars

\* Rights of a group that existed before come from membership: a new
\* administrator was a member of the group, or an administrator of a group
\* merged into it.
NewAdminsWereMembers ==
    [][\A g \in Groups : \A u \in shm'.groups[g].admins \ shm.groups[g].admins :
         GroupFound(shm, g) =>
            \/ IsMember(shm, g, u)
            \/ \E h \in Groups : IsAdmin(shm, h, u) /\ ~GroupFound(shm', h)
       ]_serverVars

JoinedOrFull(g, u) ==
    \/ IsMember(shm', g, u)
    \/ shm.users[u].state = "absent" /\ Cardinality(UserSlots(shm)) = MaxClients
    \/ /\ shm.groups[g].state = "absent"
       /\ Cardinality(GroupSlotsUsed(shm)) = MaxGroups

\* A user who asks to join a group is in it afterwards, unless a table has no
\* slot left for the user or for the group: no group is ever full, nobody is
\* locked out by an earlier life of the name or of the group.
JoinFailsForWantOfSlots ==
    [][msg'.type = "JOIN" => JoinedOrFull(msg'.group, msg'.sender)]_serverVars

-----------------------------------------------------------------------------
(* What the documents say and the code does not do.                        *)

\* README:166: /users shows the connected users with their current group.  So
\* a group is shown for a user who is in one.
ListedUsersAreInAGroup ==
    [][\A d \in sent' : d.type = "LIST_USERS_RESPONSE" =>
         \A entry \in d.content :
            entry[2] # NoGroup =>
               \E g \in Groups : IsMember(shm, g, entry[1])]_serverVars
=============================================================================
