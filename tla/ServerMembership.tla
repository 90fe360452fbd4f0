-------------------------- MODULE ServerMembership --------------------------
(* The server as an implementation of Membership: the mapping forgets      *)
(* slots, addresses, colours and messages.                                 *)
EXTENDS Server

ConnectedUsers(s) == {u \in Names : UserFound(s, u)}

LiveGroups(s) == {g \in Groups : GroupFound(s, g)}

MembersOf(s) == [g \in Groups |-> s.groups[g].users]

AdminsOf(s) == [g \in Groups |-> s.groups[g].admins]

M == INSTANCE Membership WITH
        connected <- ConnectedUsers(shm),
        groups    <- LiveGroups(shm),
        members   <- MembersOf(shm),
        admins    <- AdminsOf(shm)

\* Whatever the tables have room for, and however often the server is started
\* again, each request does one of the things that Membership allows: no join
\* is half done beyond what is said there, no merge leaves a member behind,
\* and nobody but an administrator touches the place of somebody else.
ImplementsMembership == M!Spec
=============================================================================
