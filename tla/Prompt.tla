------------------------------- MODULE Prompt -------------------------------
(***************************************************************************)
(* What a client shows and what the server has, at every moment.           *)
(* PromptIsTrue and NoHiddenMembership speak of a quiet network; the       *)
(* states below say how the datagrams on their way make up for it          *)
(* until then, as long as the assumptions of Calm hold.                    *)
(***************************************************************************)
EXTENDS Chat

Has(queue, type) == \E i \in 1 .. Len(queue) : queue[i].type = type

\* The slot of the user of process a holds the address of a.
HasSlot(s, a) ==
    UserFound(s, NameOf[a]) /\ s.users[NameOf[a]].addr = a

-----------------------------------------------------------------------------
(* What is on its way.                                                     *)

\* The requests of the queue take the user out of every group.
WillLeave(s, u, queue) ==
    \A g \in Groups : IsMember(s, g, u) =>
        \E i \in 1 .. Len(queue) :
            queue[i].type = "LEAVE" /\ queue[i].group = g

\* A client of colour x that reads the datagrams after the k-th has colour y.
EndsWith(queue, k, x, y) ==
    \/ /\ x = y
       /\ \A i \in k + 1 .. Len(queue) : queue[i].type # "CHANGE_COLOR"
    \/ \E i \in k + 1 .. Len(queue) :
          /\ queue[i].type = "CHANGE_COLOR" /\ queue[i].content = y
          /\ \A j \in i + 1 .. Len(queue) : queue[j].type # "CHANGE_COLOR"

\* A client in group g with colour x that reads the datagrams after the k-th
\* has read of its kick, or shows the group it is in, in its colour.
Settles(s, u, queue, k, g, x) ==
    /\ \A h \in Groups : IsMember(s, h, u) => h = g
    /\ IsMember(s, g, u) =>
          /\ \A i \in k + 1 .. Len(queue) : queue[i].type # "LEAVE"
          /\ EndsWith(queue, k, x, s.groups[g].color)
    /\ ~IsMember(s, g, u) =>
          \E i \in k + 1 .. Len(queue) : queue[i].type = "LEAVE"

-----------------------------------------------------------------------------
(* The states of a client.                                                 *)

\* In no group, or about to be in none.
Idle(c) ==
    /\ joining[c] = NoGroup
    /\ ~Has(out[c], "JOIN") /\ ~Has(inbox[c], "JOIN")
    /\ pc[c] # "leaving" => current_group[c] = NoGroup
    /\ HasSlot(shm, c) => WillLeave(shm, NameOf[c], out[c])

\* In the group it shows, or kicked from it.
Settled(c) ==
    /\ joining[c] = NoGroup
    /\ current_group[c] # NoGroup
    /\ pc[c] \in Running \ {"leaving"}
    /\ ~Has(out[c], "JOIN") /\ ~Has(out[c], "LEAVE") /\ ~Has(inbox[c], "JOIN")
    /\ Settles(shm, NameOf[c], inbox[c], 0, current_group[c], color[c])

\* The JOIN is on its way, behind the LEAVE of the group before.
Asking(c) ==
    /\ joining[c] # NoGroup
    /\ pc[c] = "ready"
    /\ ~Has(inbox[c], "JOIN")
    /\ out[c] # <<>>
    /\ \A i \in 1 .. Len(out[c]) : out[c][i].type = "JOIN" <=> i = Len(out[c])
    /\ out[c][Len(out[c])].group = joining[c]
    /\ WillLeave(shm, NameOf[c], out[c])

\* The confirmation is on its way, with what happened since behind it.
Confirmed(c) ==
    /\ joining[c] # NoGroup
    /\ pc[c] = "ready"
    /\ out[c] = <<>>
    /\ \E k \in 1 .. Len(inbox[c]) :
         /\ \A i \in 1 .. Len(inbox[c]) : inbox[c][i].type = "JOIN" <=> i = k
         /\ inbox[c][k].group = joining[c]
         /\ Settles(shm, NameOf[c], inbox[c], k, joining[c],
                    inbox[c][k].content)

\* What else is on its way: a DISCONNECT comes last, a process that was not
\* acknowledged has asked for nothing, and no join is refused.
Orderly(c) ==
    /\ \A i \in 1 .. Len(out[c]) :
         /\ out[c][i].type \notin {"MERGE_GROUPS", "CREATE_GROUP"}
         /\ out[c][i].type = "DISCONNECT" => i = Len(out[c])
         /\ pc[c] \notin Running /\ ~Has(out[c], "DISCONNECT") =>
              out[c][i].type = "CONNECT"
    /\ ~Has(inbox[c], "PUBLIC")
    /\ pc[c] = "off" => joining[c] = NoGroup /\ current_group[c] = NoGroup

\* When the states above are all there is.  A user with the server's own name
\* would be believed to be the server (client.c:95).
Calm ==
    /\ Patient /\ "merge" \notin Commands
    /\ ~Interrupts /\ ~Crashes /\ ~Unreliable
    /\ Cardinality(Groups) <= MaxGroups
    /\ Serveur \notin Names

\* Whatever crosses on the way, kicks and colours of others with the joins
\* and leaves of the user, a client is in one of these states or has quit: no
\* order of datagrams lets what it shows and what the server has drift apart.
NoClientDrifts ==
    \A c \in Addrs :
        /\ Orderly(c)
        /\ \/ Has(out[c], "DISCONNECT")
           \/ Idle(c) \/ Settled(c) \/ Asking(c) \/ Confirmed(c)
=============================================================================
