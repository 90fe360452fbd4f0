-------------------------------- MODULE Chat --------------------------------
(***************************************************************************)
(* The server and the client processes together.  A client process has two *)
(* threads: main(), which connects and runs the user's commands, and       *)
(* receive_thread(), which applies the server's datagrams to the globals   *)
(* that main() reads.  Its address names the process.                      *)
(*                                                                         *)
(*   pc             where main() of each client is                         *)
(*   current_group  g_current_group                                        *)
(*   color          g_user_color                                           *)
(*   connected      g_connected_to_server                                  *)
(*   list_received  g_list_received                                        *)
(*   list_buffer    the kind of list in g_list_buffer                      *)
(*   out, inbox     datagrams on their way from and to each client, in     *)
(*                  order on one host; see Unreliable                      *)
(*   joining        the group whose answer a user waits for                *)
(*                                                                         *)
(* Datagrams that a client only displays do not enter its inbox.           *)
(***************************************************************************)
EXTENDS Server, Sequences, SequencesExt

CONSTANTS
    Commands,     \* the commands that users type
    Patient,      \* users await the answer to a /join before the next command
    Interrupts,   \* Ctrl-C may come before the connection is acknowledged
    Crashes,      \* a client process may be killed
    Unreliable,   \* datagrams may be lost, or overtake one another
    MaxOut,       \* bound: datagrams from one client on their way
    MaxInbox      \* bound: datagrams to one client on their way

ASSUME BoundsAssumption  == MaxOut \in Nat \ {0} /\ MaxInbox \in Nat
ASSUME NothingAssumption == Nothing \notin Groups

VARIABLES pc, current_group, color, connected, list_received, list_buffer,
          out, inbox, joining

clientVars == <<pc, current_group, color, connected, list_received,
                list_buffer, joining>>

vars == <<serverVars, clientVars, out, inbox>>

-----------------------------------------------------------------------------
(* The network.                                                            *)

\* Mutant: the sender of a JOIN is not compared with the user's name.
Heeded_AnyJoin(d, c) ==
    d.to = c /\ d.type \in {"CONNECT_ACK", "CHANGE_COLOR", "JOIN"}

\* Datagrams that change the globals of client c, or answer its user's join.
Heeded(d, c) ==
    /\ d.to = c
    /\ \/ d.type \in {"CONNECT_ACK", "CHANGE_COLOR", "LIST_USERS_RESPONSE",
                      "LIST_GROUPS_RESPONSE"}
       \/ d.type = "JOIN" /\ d.sender = NameOf[c]
       \/ d.type = "LEAVE" /\ d.sender = Serveur
       \/ d.type = "PUBLIC" /\ d.sender = Serveur /\ d.content # Nothing

Room(c, n) == Len(out[c]) + n <= MaxOut

Datagrams(c, type, g, x) ==
    <<[type |-> type, from |-> c, sender |-> NameOf[c], group |-> g, arg |-> x]>>

Send(c, datagrams) == out' = [out EXCEPT ![c] = @ \o datagrams]

\* The datagrams that may arrive next.
Arrivable(queue) ==
    {i \in 1 .. Len(queue) : i = 1 \/ Unreliable}

\* One turn of the server's loop: a request of c is served, and its answers
\* leave for the processes that still have a socket.
Serve(c) ==
    /\ \A d \in Addrs : Len(inbox[d]) < MaxInbox
    /\ \E i \in Arrivable(out[c]) :
          /\ Receive(out[c][i])
          /\ out' = [out EXCEPT ![c] = RemoveAt(@, i)]
    /\ inbox' = [d \in Addrs |->
                   IF pc[d] = "off" THEN inbox[d]
                   ELSE inbox[d] \o SetToSeq({x \in sent' : Heeded(x, d)})]
    /\ UNCHANGED clientVars

\* Nothing is ever sent again.
Lose(c) ==
    /\ Unreliable
    /\ \/ /\ \E i \in 1 .. Len(out[c]) : out' = [out EXCEPT ![c] = RemoveAt(@, i)]
          /\ UNCHANGED inbox
       \/ /\ \E i \in 1 .. Len(inbox[c]) :
                inbox' = [inbox EXCEPT ![c] = RemoveAt(@, i)]
          /\ UNCHANGED out
    /\ UNCHANGED <<serverVars, clientVars>>

-----------------------------------------------------------------------------
(* main(): connection, end, and the signal handler.                        *)

\* The address is a fresh port: nothing of an earlier process is on its way.
Start(c) ==
    /\ pc[c] = "off"
    /\ out[c] = <<>>
    /\ Send(c, Datagrams(c, "CONNECT", NoGroup, Nothing))
    /\ pc' = [pc EXCEPT ![c] = "connect_sent"]
    /\ UNCHANGED <<serverVars, current_group, color, connected, list_received,
                   list_buffer, joining, inbox>>

\* The flag is reset after the request was sent.
ResetConnected(c) ==
    /\ pc[c] = "connect_sent"
    /\ pc' = [pc EXCEPT ![c] = "connecting"]
    /\ connected' = [connected EXCEPT ![c] = FALSE]
    /\ UNCHANGED <<serverVars, current_group, color, list_received,
                   list_buffer, joining, out, inbox>>

Connected(c) ==
    /\ pc[c] = "connecting" /\ connected[c]
    /\ pc' = [pc EXCEPT ![c] = "ready"]
    /\ UNCHANGED <<serverVars, current_group, color, connected, list_received,
                   list_buffer, joining, out, inbox>>

\* Two seconds have passed: "Serveur injoignable".
ConnectTimeout(c) ==
    /\ pc[c] = "connecting" /\ ~connected[c]
    /\ pc' = [pc EXCEPT ![c] = "unreachable"]
    /\ UNCHANGED <<serverVars, current_group, color, connected, list_received,
                   list_buffer, joining, out, inbox>>

\* The process is gone with its globals and its socket.
End(c) ==
    /\ pc' = [pc EXCEPT ![c] = "off"]
    /\ current_group' = [current_group EXCEPT ![c] = NoGroup]
    /\ color' = [color EXCEPT ![c] = Green]
    /\ connected' = [connected EXCEPT ![c] = FALSE]
    /\ list_received' = [list_received EXCEPT ![c] = FALSE]
    /\ list_buffer' = [list_buffer EXCEPT ![c] = Nothing]
    /\ joining' = [joining EXCEPT ![c] = NoGroup]
    /\ inbox' = [inbox EXCEPT ![c] = <<>>]
    /\ UNCHANGED serverVars

GiveUp(c) ==
    /\ pc[c] = "unreachable"
    /\ End(c)
    /\ UNCHANGED out

\* /quit, or SIGINT at any point of main().
Quit(c) ==
    /\ pc[c] # "off"
    /\ pc[c] \in {"connect_sent", "connecting", "unreachable"} => Interrupts
    /\ Room(c, 1)
    /\ Send(c, Datagrams(c, "DISCONNECT", NoGroup, Nothing))
    /\ End(c)

Crash(c) ==
    /\ Crashes
    /\ pc[c] # "off"
    /\ End(c)
    /\ UNCHANGED out

-----------------------------------------------------------------------------
(* process_command.                                                        *)

\* The user of c may type a command that sends n datagrams.
Types(c, command, n) ==
    /\ command \in Commands
    /\ pc[c] = "ready"
    /\ Patient => joining[c] = NoGroup
    /\ Room(c, n)

\* Mutant: the former group is not left.
CmdJoin_NoLeave(c, g) ==
    /\ Types(c, "join", 2)
    /\ Send(c, Datagrams(c, "JOIN", g, Nothing))
    /\ joining' = [joining EXCEPT ![c] = g]
    /\ UNCHANGED <<serverVars, pc, current_group, color, connected,
                   list_received, list_buffer, inbox>>

\* LEAVE of the group the client believes it is in, then JOIN; the globals
\* change when the confirmation comes.
CmdJoin(c, g) ==
    LET leave == IF current_group[c] = NoGroup THEN <<>>
                 ELSE Datagrams(c, "LEAVE", current_group[c], Nothing)
    IN  /\ Types(c, "join", 2)
        /\ Send(c, leave \o Datagrams(c, "JOIN", g, Nothing))
        /\ joining' = [joining EXCEPT ![c] = g]
        /\ UNCHANGED <<serverVars, pc, current_group, color, connected,
                       list_received, list_buffer, inbox>>

\* The request is sent first and the globals are cleared afterwards.
CmdLeave(c) ==
    /\ Types(c, "leave", 1)
    /\ current_group[c] # NoGroup
    /\ Send(c, Datagrams(c, "LEAVE", current_group[c], Nothing))
    /\ pc' = [pc EXCEPT ![c] = "leaving"]
    /\ UNCHANGED <<serverVars, current_group, color, connected, list_received,
                   list_buffer, joining, inbox>>

ClearGroup(c) ==
    /\ pc[c] = "leaving"
    /\ pc' = [pc EXCEPT ![c] = "ready"]
    /\ current_group' = [current_group EXCEPT ![c] = NoGroup]
    /\ color' = [color EXCEPT ![c] = Green]
    /\ UNCHANGED <<serverVars, connected, list_received, list_buffer, joining, out, inbox>>

CmdMerge(c, g1, g2) ==
    /\ Types(c, "merge", 1)
    /\ Send(c, Datagrams(c, "MERGE_GROUPS", NoGroup, <<g1, g2>>))
    /\ UNCHANGED <<serverVars, clientVars, inbox>>

\* /color, /kick, /promote and /demote: on the group the client is in.
OnCurrentGroup(c, command, type, x) ==
    /\ Types(c, command, 1)
    /\ current_group[c] # NoGroup
    /\ Send(c, Datagrams(c, type, current_group[c], x))
    /\ UNCHANGED <<serverVars, clientVars, inbox>>

CmdColor(c, x) == OnCurrentGroup(c, "color", "CHANGE_COLOR", x)

CmdKick(c, u) == OnCurrentGroup(c, "kick", "KICK_USER", u)

CmdPromote(c, u) == OnCurrentGroup(c, "promote", "PROMOTE_ADMIN", u)

CmdDemote(c, u) == OnCurrentGroup(c, "demote", "DEMOTE_ADMIN", u)

\* A line that is no command: a message to the group.
CmdText(c) == OnCurrentGroup(c, "text", "PUBLIC", Nothing)

CmdMsg(c, u) ==
    /\ Types(c, "msg", 1)
    /\ Send(c, Datagrams(c, "PRIVATE", NoGroup, u))
    /\ UNCHANGED <<serverVars, clientVars, inbox>>

\* /users and /groups: send, reset the flag, wait, show.
CmdList(c, command, type) ==
    /\ Types(c, command, 1)
    /\ Send(c, Datagrams(c, type, NoGroup, Nothing))
    /\ pc' = [pc EXCEPT ![c] = type]
    /\ UNCHANGED <<serverVars, current_group, color, connected, list_received,
                   list_buffer, joining, inbox>>

ResetListReceived(c) ==
    /\ pc[c] \in {"LIST_USERS", "LIST_GROUPS"}
    /\ pc' = [pc EXCEPT ![c] = IF @ = "LIST_USERS" THEN "awaiting_users"
                               ELSE "awaiting_groups"]
    /\ list_received' = [list_received EXCEPT ![c] = FALSE]
    /\ UNCHANGED <<serverVars, current_group, color, connected, list_buffer,
                   joining, out, inbox>>

ShowList(c) ==
    /\ pc[c] \in {"awaiting_users", "awaiting_groups"}
    /\ list_received[c]
    /\ pc' = [pc EXCEPT ![c] = "ready"]
    /\ UNCHANGED <<serverVars, current_group, color, connected, list_received,
                   list_buffer, joining, out, inbox>>

\* Half a second has passed: "pas de réponse du serveur".
ListTimeout(c) ==
    /\ pc[c] \in {"awaiting_users", "awaiting_groups"}
    /\ ~list_received[c]
    /\ pc' = [pc EXCEPT ![c] = "ready"]
    /\ UNCHANGED <<serverVars, current_group, color, connected, list_received,
                   list_buffer, joining, out, inbox>>

-----------------------------------------------------------------------------
(* receive_thread.                                                         *)

\* The effect of a datagram d on the globals of client c.
ReceiveAck(c, d) ==
    /\ d.type = "CONNECT_ACK"
    /\ connected' = [connected EXCEPT ![c] = TRUE]
    /\ UNCHANGED <<current_group, color, list_received, list_buffer, joining>>

ReceiveJoin(c, d) ==
    /\ d.type = "JOIN"
    /\ current_group' = [current_group EXCEPT ![c] = d.group]
    /\ color' = [color EXCEPT ![c] = d.content]
    /\ joining' = [joining EXCEPT ![c] = IF @ = d.group THEN NoGroup ELSE @]
    /\ UNCHANGED <<connected, list_received, list_buffer>>

\* Mutant: the notice is only displayed.
ReceiveKick_DisplayOnly(c, d) ==
    /\ d.type = "LEAVE"
    /\ UNCHANGED <<current_group, color, connected, list_received,
                   list_buffer, joining>>

\* The group of the notice is not compared with the current one.
ReceiveKick(c, d) ==
    /\ d.type = "LEAVE"
    /\ current_group' = [current_group EXCEPT ![c] = NoGroup]
    /\ color' = [color EXCEPT ![c] = Green]
    /\ UNCHANGED <<connected, list_received, list_buffer, joining>>

ReceiveList(c, d) ==
    /\ d.type \in {"LIST_USERS_RESPONSE", "LIST_GROUPS_RESPONSE"}
    /\ list_received' = [list_received EXCEPT ![c] = TRUE]
    /\ list_buffer' = [list_buffer EXCEPT ![c] = d.type]
    /\ UNCHANGED <<current_group, color, connected, joining>>

ReceiveColor(c, d) ==
    /\ d.type = "CHANGE_COLOR"
    /\ color' = [color EXCEPT ![c] = d.content]
    /\ UNCHANGED <<current_group, connected, list_received, list_buffer,
                   joining>>

\* "Échec de connexion au groupe": displayed, the user reads it.
ReceiveRefusal(c, d) ==
    /\ d.type = "PUBLIC"
    /\ joining' = [joining EXCEPT ![c] = IF @ = d.content THEN NoGroup ELSE @]
    /\ UNCHANGED <<current_group, color, connected, list_received, list_buffer>>

ReceiveThread(c) ==
    /\ \E i \in Arrivable(inbox[c]) :
          LET d == inbox[c][i]
          IN  /\ inbox' = [inbox EXCEPT ![c] = RemoveAt(@, i)]
              /\ \/ ReceiveAck(c, d)  \/ ReceiveJoin(c, d)
                 \/ ReceiveKick(c, d) \/ ReceiveList(c, d)
                 \/ ReceiveColor(c, d) \/ ReceiveRefusal(c, d)
    /\ UNCHANGED <<serverVars, pc, out>>

-----------------------------------------------------------------------------
ChatInit ==
    /\ Init
    /\ pc = [c \in Addrs |-> "off"]
    /\ current_group = [c \in Addrs |-> NoGroup]
    /\ color = [c \in Addrs |-> Green]
    /\ connected = [c \in Addrs |-> FALSE]
    /\ list_received = [c \in Addrs |-> FALSE]
    /\ list_buffer = [c \in Addrs |-> Nothing]
    /\ joining = [c \in Addrs |-> NoGroup]
    /\ out = [c \in Addrs |-> <<>>]
    /\ inbox = [c \in Addrs |-> <<>>]

Connection(c) ==
    \/ Start(c) \/ ResetConnected(c) \/ Connected(c) \/ ConnectTimeout(c)
    \/ GiveUp(c) \/ Quit(c) \/ Crash(c)

ProcessCommand(c) ==
    \/ \E g \in Groups : CmdJoin(c, g)
    \/ CmdLeave(c)
    \/ ClearGroup(c)
    \/ \E g1, g2 \in Groups : CmdMerge(c, g1, g2)
    \/ \E x \in Colors : CmdColor(c, x)
    \/ \E u \in Names : CmdKick(c, u) \/ CmdPromote(c, u) \/ CmdDemote(c, u)
    \/ CmdText(c)
    \/ \E u \in Names : CmdMsg(c, u)
    \/ CmdList(c, "users", "LIST_USERS")
    \/ CmdList(c, "groups", "LIST_GROUPS")
    \/ ResetListReceived(c)
    \/ ShowList(c)
    \/ ListTimeout(c)

ChatNext ==
    \E c \in Addrs :
        \/ Serve(c) \/ Lose(c)
        \/ ReceiveThread(c) \/ Connection(c) \/ ProcessCommand(c)

ChatSpec == ChatInit /\ [][ChatNext]_vars

\* The server polls its socket, a client's receiving thread polls its own,
\* and neither main() nor a poll loop stays at an internal point for ever.
Fairness ==
    \A c \in Addrs :
        /\ SF_vars(Serve(c))
        /\ WF_vars(ReceiveThread(c))
        /\ WF_vars(ResetConnected(c))
        /\ WF_vars(Connected(c) \/ ConnectTimeout(c))
        /\ WF_vars(ClearGroup(c))
        /\ WF_vars(ResetListReceived(c))
        /\ WF_vars(ShowList(c) \/ ListTimeout(c))

FairChatSpec == ChatSpec /\ Fairness

-----------------------------------------------------------------------------
(* Properties.                                                             *)

Running == {"ready", "leaving", "LIST_USERS", "LIST_GROUPS",
            "awaiting_users", "awaiting_groups"}

\* Nothing is on its way and no thread of c is in the middle of a command.
AtRest(c) ==
    /\ pc[c] = "ready"
    /\ inbox[c] = <<>>
    /\ \A d \in Addrs : out[d] = <<>>

\* The globals of the clients stay well formed, and the queues bounded.
ChatTypeOK ==
    /\ pc \in [Addrs -> Running \cup {"off", "connect_sent", "connecting",
                                     "unreachable"}]
    /\ current_group \in [Addrs -> Groups \cup {NoGroup}]
    /\ color \in [Addrs -> Colors]
    /\ connected \in [Addrs -> BOOLEAN]
    /\ list_received \in [Addrs -> BOOLEAN]
    /\ list_buffer \in [Addrs -> DatagramTypes \cup {Nothing}]
    /\ joining \in [Addrs -> Groups \cup {NoGroup}]
    /\ \A c \in Addrs : Len(out[c]) <= MaxOut /\ Len(inbox[c]) <= MaxInbox

\* A client that shows a prompt has its user's slot, under its own address;
\* until it quits, nothing the other processes do takes the slot away.
RunningClientHasTheSlot ==
    \A c \in Addrs : pc[c] \in Running =>
        /\ UserFound(shm, NameOf[c])
        /\ shm.users[NameOf[c]].addr = c

\* user.c:11 and README:297: a user name belongs to one client at a time.
OneClientPerName ==
    \A c, d \in Addrs :
        pc[c] \in Running /\ pc[d] \in Running /\ NameOf[c] = NameOf[d] => c = d

\* What the prompt shows is true once the network is quiet: the user is a
\* member of the group named in it, whose colour it has.
PromptIsTrue ==
    \A c \in Addrs : AtRest(c) /\ current_group[c] # NoGroup =>
        /\ IsMember(shm, current_group[c], NameOf[c])
        /\ color[c] = shm.groups[current_group[c]].color

\* README:158: joining a group leaves the one before.  So once the network is
\* quiet a user is in no other group than the one its client shows.
NoHiddenMembership ==
    \A c \in Addrs : AtRest(c) =>
        \A g \in Groups :
            IsMember(shm, g, NameOf[c]) => current_group[c] = g

\* Every /join is answered, by a confirmation or by a refusal, unless the
\* client ends first.
JoinIsAnswered ==
    \A c \in Addrs : joining[c] # NoGroup ~> joining[c] = NoGroup

\* README:166: /users displays the users.
ShownListIsTheOneAsked ==
    [][\A c \in Addrs : ShowList(c) =>
         list_buffer[c] = IF pc[c] = "awaiting_users" THEN "LIST_USERS_RESPONSE"
                          ELSE "LIST_GROUPS_RESPONSE"]_vars
=============================================================================
