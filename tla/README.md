# Verification of the ISY chat system

TLA+ models of the chat server and client in this repository (C, UDP, System V
shared memory and semaphore), checked with TLC; every safety property that a passing
run checks is also proved with TLAPS.
`PROJECT.json` lists components, runs, mutants, the source lines of every
definition, findings, hazards and theorems.

## 1. The system

    client.c  --UDP Message-->  server.c main loop --> handle_client_message
       ^                                                  | sem_p ... sem_v (ipc.c)
       |                                                  v
       +--UDP Message---- message.c <---- SharedMemory: user.c, group.c

| Part | State | Operations | Hard behaviour | What makes it correct |
|---|---|---|---|---|
| user table, `user.c` | slots: name, address, active, `current_group`; `user_count` | `user_add`, `user_remove`, `user_find` | slots are never freed; a slot is reactivated with its old `current_group` | members of groups hold slots; no group is shown for a user who is in none |
| group table, `group.c` | slots: name, members, administrators, colour, active; `group_count` | create, add, remove, merge, promote, demote, kick | lists of fixed size, last administrator, a group used again after a merge | an active group has an administrator; nobody gains rights without membership |
| routing, `message.c` | none | `message_send_to_group`, `message_send_private` | recipients are looked up at sending time | what is sent goes to client addresses |
| handlers, `server.c` | the memory, one `Message` buffer | the 14 cases of `handle_client_message` | several notices per request; partial effects of failing requests | who loses a membership is told; confirmations are true |
| process life, `server.c` main and `ipc.c` | segment, semaphore | start on empty or existing memory, `sem_init`, `sem_p`, `sem_v`, signal handler | the handler exits anywhere, without `sem_v`; two servers share both | no user lost, no endless wait |
| client, `client.c` | globals shared by two threads without a lock | commands, `receive_thread`, connection, signal handler | flags reset after sending, late answers, beliefs about the group that are out of date | the prompt is true; one client per name |
| network, `network.c` | datagrams on their way | `socket_send`, `socket_receive` | requests and notices cross each other | - |
| display and log, `utils.c` | none | output only | - | not modelled |

Facts met on the way that no property states: `README.md:161` lists `/create`,
which `process_command` does not know (the server serves `CREATE_GROUP`);
`README.md:126` says that Ctrl+C frees the shared memory and the semaphore,
`server.c:27-36` keeps both on purpose; `README.md:272-273` calls the limits
simultaneous users and groups, the code counts names ever seen; a kick of
somebody who is not a member is not answered, against
`UML/uml_seq_kick_user.puml:67-68`; at the end of standard input `client.c:535`
loops without a pause.

## 2. Modules

| Module | Models | State and actions |
|---|---|---|
| `Membership` | what the server promises, abstractly | `connected`, `groups`, `members`, `admins`; one action per thing a request may do |
| `Registry` | `messaging.h`, `user.c`, `group.c`, start on existing memory | operators on a memory value `[users, groups]`; no variables |
| `Server` | `handle_client_message`, `message.c`, main loop, restart | `shm`, `msg`, `sent`; one action per request type, `Restart` |
| `ServerMembership` | `Server` as an implementation of `Membership` | the refinement mapping |
| `Arrays` | `user.c` and `group.c` again, on C arrays and write by write, with stops and restarts | the memory, the writes to come, history; one action per request, `Write`, `Kill`, `Start` |
| `Chat` | `client.c`, `network.c`, composed with `Server` | the client's globals, the position of `main`, the datagrams on their way |
| `Prompt` | nothing of its own: what the datagrams on their way say about `Chat` | the states a client goes through, as predicates |
| `Semaphore` | server start, `ipc.c`, the CONNECT handler in micro-steps | user table as an array, semaphore, position of each server |
| `ServerProofs` | theorems: shape of the memory, slots, last administrator | - |
| `MembershipProofs` | theorems: refinement of `Membership`, outcome of joins | - |
| `GovernanceProofs` | theorems: who may change a group, where rights come from | - |
| `NoticeProofs` | theorems: confirmations, evictions, `current_group` | - |
| `ChatProofs` | theorems: a running client keeps the slot of its user; what arrives at a client; types | - |
| `PromptProofs` | theorems: the prompt is true and nobody is in a second group | - |
| `SemaphoreProofs` | theorems: no registration is lost to a stop or a restart | - |
| `ArraysProofs` | theorems: the arrays have no holes and are the sets of `Registry`; what a stop cannot break | - |
| `MCServer`, `MCChat`, `MCArrays` | instances for TLC: views, symmetry | - |

`Chat` EXTENDS `Server`, which EXTENDS `Registry`; so does `Arrays`, to compare
its arrays with the sets of `Registry`. `Semaphore` stands alone: it justifies
the atomic requests of `Server` (for one server at a time) and shows where they
are not justified (two servers).

### Registry and Server

* The arrays are searched by name only, so slots are indexed by name: a state
  `absent` (no slot yet), `inactive` or `active` replaces the array and the
  counters. Member and admin lists never hold a name twice (`group_add_user`,
  `group_merge` and `group_add_admin` check) and are sets.
* `CanXxx` is the condition under which a C function succeeds. The handlers that
  ignore a failure (`user_add` and `group_create` in JOIN) use operators that
  return the memory unchanged; so a refused JOIN may leave a new user or a new
  group behind, as in the code.
* When a merge does not fit, the order of the C array decides who is dropped;
  `Fitting` leaves it open.
* `Requests` holds what a client can send: the sender is the name its process
  was started with; the group is one it may believe it is in, right or wrong.
  `/merge` names without `:`, which the `sscanf` of `server.c:268` needs.
* Message texts are left out. `sent` is the set of datagrams of the last
  request; the answer to a list request carries the set of entries.
* `Restart` stands for a stop between two requests and the next start.

### Membership and its implementation

`Membership` has no slots, lists, limits, addresses or messages. `Connect`,
`Disconnect`, `Join`, `Leave`, `Kick`, `Promote`, `Demote`, `Merge` and `Restart`
say what a request or a restart may do at most; any request may be `Refused`.
Two things are there because the code does them: a join that fails may have
registered its user (`Connect`) or founded its group (`Found`), since `server.c`
goes on after a failing `user_add` or `group_create`, but never both; and a merge
hands over some of the second group's administrators, but all of its members.

`ServerMembership` maps `connected` to the active slots, `groups` to the active
groups, `members` and `admins` to the two lists, and forgets the rest.
`ImplementsMembership` is `M!Spec` under this mapping.

### Arrays

The four lists of two groups are C arrays with a count. A request computes the
memories that its writes produce one after the other, in the order of the
source (the Makefile asks for no optimisation), each loop of the code being a
recursive function of its turns, and `Write` takes them one at a
time; `Kill` stops the server between any two of them, `Start` sets every user
inactive and goes on with what is there. A name is one write. Writes to a new
user or group slot are not split: nothing of it is seen before `user_count` or
`group_count` goes up, which comes last. `torn` remembers that a request was cut
short, `expected` is the memory that `Registry` computes. What is compared, once
a request is done and none was cut short: `ArraysAgreeWithSets`, which justifies
the sets of `Registry`. Every user has a slot here (`EverybodyFits`): a full user
table refuses a registration before it writes anything, which `server_tight` covers.

After a stop inside a request `Registry` says nothing any more, and the code
promises nothing; what still holds is `NoHoles` (always), and that no single
write loses a member who is on the move (`NobodyIsLost`) or the last
administrator of a group that lives on (`NoWriteTakesTheLastAdmin`). What a stop
does break, by the order of the writes:

* inside the reactivation of a group (`group.c:14-23`) it leaves an active group
  without administrator, or, if an earlier stop came between `group.c:209` and
  `group.c:211`, with members of its former life;
* inside a shifting loop (`group.c:108-110`) it leaves a name twice in a list;
  the list may then be full too early, and a later merge drops a member;
* inside `group_merge` it leaves members in both groups.

### Chat

One process per address; a new process is a fresh port, so `Start` waits until
what its predecessor sent has been served. `main` and `receive_thread`
interleave at every access to a global: the flags are reset in an action of
their own after the request was sent, as in the code. `out` and `inbox` are
queues, ordered and without loss as between processes of one host; with
`Unreliable` any datagram of a queue may arrive next or be lost (nothing is
sent twice, so no datagram is duplicated). Datagrams that are only displayed are
not queued. `joining` is not a variable of the program: it is the
group whose answer the user waits for.

Switches: `Commands` (which commands users type), `Patient` (users await the
answer to `/join`), `Interrupts` (Ctrl-C while connecting), `Crashes` (processes
killed), `Unreliable`. Bounds: `MaxOut`, `MaxInbox`, the lengths of the queues; an action that
would exceed them waits.

### Prompt

`PromptIsTrue` and `NoHiddenMembership` speak of a quiet network. `Prompt` says
what holds while datagrams cross, as four states of a client that has not quit:

| State | The client | On its way |
|---|---|---|
| `Idle` | shows no group, or is about to (`/leave`) | the LEAVE of every group its user is still in |
| `Settled` | shows a group, the only one its user may be in | the kick, if the user is out; the group's last colour, unless the client has it |
| `Asking` | waits for an answer to `/join` | the JOIN, last, behind the LEAVE of the group before |
| `Confirmed` | waits for an answer to `/join` | the confirmation, and behind it what `Settled` says for the new group |

`Orderly` adds what else is on its way: DISCONNECT comes last, a process that was
not connected and has not quit has sent CONNECT only, no refusal is coming.
`NoClientDrifts` is that every client is in one of these states. `Calm` names
the conditions: users who await answers, no `/merge`, no interrupt while
connecting, no crash of a client, no loss, room for every group, and no user
called `Serveur`. The code needs each of them: section 3 says what happens with
impatient users, merges, interrupts and refused joins; a client process that is
killed leaves its user in a group that the next process does not show; a lost
LEAVE or JOIN is never repeated; and the LEAVE of a user called `Serveur` is a
kick to every client that gets it (`client.c:95`).

### Semaphore

`InitMemory` and `SemInit` run before the loop and outside the lock. `Reuse`,
`Full` or `Choose`, then `Fill`, `Count` and `Answer` split the registration of a
user. `Kill` is the
signal handler, at any point: it exits without `sem_v`, and `semop` has no
`SEM_UNDO`. `registered` is history: the names that were acknowledged.

## 3. What is checked

Passing runs:

| Run | Instance | Properties |
|---|---|---|
| `server` | 3 users, 2 groups, room for all, no restart | `TypeOK`, `MembersHaveSlots`, `EveryGroupKeepsAnAdmin`, `NoGhosts`, `NoSilentEviction`, `ConfirmationsAreTrue`, `OnlyAdminsGovern`, `NewAdminsWereMembers` |
| `server_tight` | 3 users for 2 slots, restarts | `MembersHaveSlots`, `EveryGroupKeepsAnAdmin`, `NoSilentEviction`, `ConfirmationsAreTrue`, `JoinFailsForWantOfSlots`, `ImplementsMembership` |
| `arrays` | 2 users, 2 groups, lists of 2 entries, 2 stops at any write | `NoHoles`, `ArraysAgreeWithSets`, `NobodyIsLost`, `NoWriteTakesTheLastAdmin` |
| `chat` | 2 users, 2 groups, 2 colours; join, leave, kick, colour | `ChatTypeOK`, `PromptIsTrue`, `NoHiddenMembership`, `NoClientDrifts` |
| `reconnect` | 2 addresses of one name, processes killed at will and started again; all commands but `/leave`, `/kick`, `/color` and `/users` (`/groups` takes the same path); datagrams lost and reordered | `RunningClientHasTheSlot`, `OneClientPerName` |
| `answers` | 2 users, 2 groups for one slot; fairness | `JoinIsAnswered` |
| `semaphore` | 2 servers one after the other, 3 names for 2 slots, stops at every step | `TypeOK`, `NoLostUser`, `NoEndlessWait` |

Why the bounds are enough: in `server` two users suffice for every pair of
actor and target, the third is a bystander whose membership must not change;
two groups give every merge. `server_tight` makes the user table overflow,
which is what refuses registrations, and a full group then has as many members
as there are slots. `chat` has the two racing parties, an administrator and a
member, and both groups between which they move. `reconnect` needs a first
process, a second that meets a name in use, and a third to gain from it; an
address is taken again by a new process, so two addresses give all three (with
three addresses and shorter queues TLC found nothing else). In `arrays` two
members give every shift and a full list, two groups every merge, and the
second stop meets what the first one left. One
colour is enough where colours are not looked at. `VIEW` leaves out `msg` and
`sent`, which no action reads; the part of `TypeOK` about `sent` is therefore
seen on a sample of the steps by TLC, and proved for all of them. The view of
`arrays` leaves out the entries at and above the counts, which no function reads
before it has written them.

`EveryGroupKeepsAnAdmin` is about kicks, demotions and merges: administrators
may leave or disconnect and keep their right, which the property allows and the
code means (`user_remove` touches members only). `NoGhosts` holds while the
server is up; the run `ghosts` shows that it does not survive a restart.

Runs that find a violation, each of something the documents say:

| Run | Finding |
|---|---|
| `ghosts` | `/users` shows a group for a user who is in none: restart, DISCONNECT while inactive, CONNECT (`group.c:113`, `user.c:12`; `README.md:166`) |
| `merge_race` | a `/join` that crosses a merge leaves its user in two groups (`client.c:300`; `README.md:158`) |
| `interrupt` | Ctrl-C in a second client of a name disconnects the first (`server.c:658`; `README.md:297`, `note.md:257`) |
| `lists` | a late answer to `/groups` is shown by `/users` (`client.c:104`; `README.md:166`) |
| `two_servers` | a second server sets the semaphore to 1 while the first holds it (`server.c:841`; `UML/uml_seq_public.puml:54-58`) |

What the passing runs of `Chat` leave out on purpose, because the code fails
there: users who do not await an answer (two quick `/join` give two
memberships), `/merge` (run `merge_race`), a join refused for want of a group slot (the prompt then shows a
group that was left), interrupts while connecting.

Fairness. `answers`: the server's loop and the receiving thread poll for ever
(weak fairness of `ReceiveThread`); `Serve` has strong fairness because the bound
`MaxInbox` disables it again and again, which the real socket does not; a waiting
`main` goes on. Users and signals are under no obligation. `semaphore`: weak
fairness of the steps of a running server; nobody must start one.

Every property of a passing run has a mutant of the code that breaks it
(`..._Xxx` definitions beside the originals).

## 4. What is proved

For every set of users, groups, processes and colours and every `MaxClients` and
`MaxGroups`, with and without restarts unless said otherwise:

| Module | Theorem | States |
|---|---|---|
| `ServerProofs` | `TypeCorrect` | `Spec => []TypeOK` |
| | `MembersAlwaysHaveSlots` | `Spec => []MembersHaveSlots` |
| | `AdminsRemain` | `Spec => []EveryGroupKeepsAnAdmin`, if no user has the empty name (`group_create` gives that one no rights, `group.c:20`) |
| `MembershipProofs` | `ServerImplementsMembership` | `Spec => ImplementsMembership` |
| | `JoinsFailForWantOfSlots` | `Spec => JoinFailsForWantOfSlots` |
| `GovernanceProofs` | `OnlyAdminsEverGovern` | `Spec => OnlyAdminsGovern` |
| | `NewAdminsAreMembers` | `Spec => NewAdminsWereMembers` |
| `NoticeProofs` | `ConfirmationsAreAlwaysTrue` | `Spec => ConfirmationsAreTrue` |
| | `EvictionsAreTold` | `Spec => NoSilentEviction` |
| | `NoGhostsWhileUp` | `Spec => []NoGhosts`, without restarts (with them it is false: run `ghosts`) |
| `SemaphoreProofs` | `TypesStay` | `Spec => []TypeOK`, for servers that follow one another |
| | `NobodyLost` | `Spec => []NoLostUser`, for servers that follow one another |
| `ChatProofs` | `RunningClientsKeepTheSlot` | `ChatSpec => []RunningClientHasTheSlot`, without interrupts while connecting |
| | `NamesAreExclusive` | `ChatSpec => []OneClientPerName`, likewise (with interrupts it is false: run `interrupt`) |
| | `ClientGlobalsAreWellFormed` | `ChatSpec => []ChatTypeOK`, whatever is lost, interrupted or killed |
| `PromptProofs` | `ClientsNeverDrift` | `ChatSpec => []NoClientDrifts` under `Calm` |
| | `PromptsAreTrue` | `ChatSpec => []PromptIsTrue` under `Calm` |
| | `NobodyIsHidden` | `ChatSpec => []NoHiddenMembership` under `Calm` |
| `ArraysProofs` | `ArraysHaveNoHoles` | `Spec => []NoHoles`, with a slot for everybody, as the next three |
| | `ArraysAreTheSets` | `Spec => []ArraysAgreeWithSets` |
| | `NobodyIsLostOnTheMove` | `Spec => NobodyIsLost` |
| | `StopsLeaveAdministrators` | `Spec => NoWriteTakesTheLastAdmin` |

These are all the safety properties that the passing runs check. `MCChat.cfg` satisfies `Calm`; the theorems add to the run
`chat` any number of users, processes, groups and colours, queues of any length,
and the commands the run has not (`/msg`, `/users`, `/groups`, `/promote`,
`/demote`, text). For servers at the same time (`Concurrent`) nothing is proved: the
run `two_servers` shows that their exclusion fails.

*Types and slots.* Neither `TypeOK` nor `MembersHaveSlots` is inductive alone:
that datagrams go to client addresses needs that the slot of a connected user
holds one, which needs the shape of the memory; that members have slots needs
that slots stay. So the invariant is `MemoryInv` (shape,
`ConnectedUsersHaveAddr`, `MembersIn`) together with the same for the datagrams
(`Deliverable`). There is one lemma per operation of `user.c` and `group.c`
(`UserAddInv`, `GroupMergeInv`, ...), one per request on top of them (`JoinStep`,
`MergeGroupsStep`, ...), and `StepInv` puts them together. `AdminsRemain` adds
`HasAdmins`; its core is that whoever removes an administrator is another
administrator of the group (`RemoveAdminHasAdmins`), so the cardinality test of
`group_remove_admin` is not even needed for it.

*Refinement.* `MembershipProofs` adds two parts (`TablesInv`). `Bounded`: the slots
in use are no more than the tables hold; with `MembersIn` it makes every list of
`MAX_CLIENTS` entries long enough, so that no group is ever full (`GroupHasRoom`)
and no merge drops a member (`MembersFit`). `NoLeftovers`: a group that does not
exist has no member and no administrator, or `Found` would bring old ones back.
Each operation has a lemma on what it does under the mapping (`UserAddMap`,
`MergeMap`, ...), each request one that it is a step of `Membership` or a stutter
(`JoinMaps`, ...), and `StepMaps` puts them together. The hard case is a join
that fails: a user who was just registered finds room in a group that was just
founded, so it is half done in one way only.

*Action properties.* They follow from `TablesInv` and one lemma per request.
`SameBut` says that a group changes in nothing but the membership of one user:
joins, leaves and disconnections do no more (`MembershipOnly`, `JoinTouches`), and
what an administrator does leaves the other groups alone (`OtherGroups`,
`MergeOthers`). The merge is where the notices could be wrong: they are true and
complete because nobody is dropped (`MergedAreMembers`).

*Ghosts.* `GhostFree` is inductive with `TablesInv`. `group_remove_user` clears
`current_group` of active users only, which is enough as long as members are
active; a restart breaks just that.

*Registrations.* The invariant of `SemaphoreProofs` says that one server runs at
a time, that a name has one counted slot at most, that acknowledged names have
one (`RegisteredStored`), and what a server in the middle of `user_add` has
done: it searched in vain, and the slot it fills is the first behind the counted
ones (`Progress`). A stop between the writes leaves a filled slot that does not
count, which the next registration overwrites. A start clears the table only
when no slot counts, that is, when nobody was acknowledged.

*Clients.* That a prompt implies a slot is not inductive: the acknowledgement may
be late, the slot may go with a DISCONNECT that was sent long ago. `ClientInv`
therefore extends the claim to whatever stands for it: the flag
`g_connected_to_server`, an acknowledgement in the inbox, and a DISCONNECT on its
way (`Claims`). A process sends one DISCONNECT, as its last message, and none of
its successors starts before it is served (`Outgoing`); a slot holds an address
of its own user (`OwnAddrs`). So a served DISCONNECT takes the slot of its own
process only, which is gone. `ConnectionStep` says what each of the 14 requests may
do to connections; the proof covers crashes, losses and reordering (`LoseStep`
and the choice of any datagram of a queue). An interrupt while connecting breaks
it: that DISCONNECT comes from a process without a slot.

*Types of the clients.* That a colour or a group in a prompt is one needs that
the datagram that brings it carries one, and this needs the shape of the memory
from which the server takes it: `ChatTypeInv` is `ChatTypeOK` with `ServerInv`
and the contents of the queues (`Requesting`, `WellFormed`). `OneArrives` says that
one request brings a client one datagram it heeds at most, so that the order in
which `message_send_to_group` walks the members does not matter to it.

*Prompts.* The invariant `PromptInv` is `NoClientDrifts` with `ChatInv`,
`ChatTypeInv`, `TablesInv` and `GhostFree`: slots, types, tables and ghosts are all
needed to follow one request. `Outcome` says what a request of anybody may do to
a user who is connected and did not ask to move: nothing (`Unaffected`), take one
membership and send the kick (`Evicted`), or change the colour of one of the
user's groups and send it (`Recoloured`); `OwnLeave` and `OwnJoin` cover the
user's own moves. `SettlesEvicted`, `SettlesRecoloured`, ... say
that the datagram which arrives at the end of the inbox keeps `Settles` true
although the memory has changed, and `SettlesRead`, `SettlesRest` that reading
the first one does. The hard point is whose request it is: datagrams name the
user, not the process. `OneVoice` shows, from the slots, that a process other
than the one with the slot has only sent CONNECT. So a turn of the server is
the DISCONNECT of a process (`FarewellTurn`), one for a process without a slot
(`NoSlotTurn`), a JOIN that becomes a confirmation (`JoinTurn`), a LEAVE
(`LeaveTurn`), or none of the client's own (`OtherTurn`). That a join is not
refused needs room for every group, and that the user was in none, which is
what `Asking` says once the LEAVE before it has been served (`JoinAtHead`).

*Arrays.* None of the four properties is inductive: what a write does depends on
the writes that come after it. `ArraysInv` therefore speaks of the `Story`, the
memory and all memories to come of the request being served: they have no
holes (`Sound`); and, while no request was cut short, they form a `Hill`, that is,
first nobody leaves all groups (`Up`), then nobody enters a first one (`Down`),
with no last administrator lost on either side; and the last of them `Agrees`
with what `Registry` expects. `Agrees` keeps each name once in a list, without
which the counts would not be cardinalities and a list could be full too early.
After a stop inside a request only `Sound` is left, which is why `NoHoles` is
the one property without `torn`. The shape of a hill is what makes a single merge
safe: the members of the second group are in the first before the second goes
inactive; `NobodyIsLost` follows because nobody who left on the way down comes
back (`NobodyComesBack`).

Each C function has a lemma about what it appends to a run (`AppendUserWrites`,
`DropUserWrites`, ..., `GroupMergeWrites`): the run goes on soundly (`Follows`), in
which direction (`Climbs`, `Descends`), and that it ends in a memory that agrees
with the operator of `Registry` of the same name. `DropUserWrites` rests on the
shifting loop: each turn drops nobody but the user, and the last turn leaves the
one copy to forget behind the new count. `GroupMergeWrites` needs `AllFit`: with
a slot for everybody two lists without repetition always fit in one, so the
choice that `Registry` leaves open (`Fitting`) is no choice. The four loops
(`Shifted`, `leave_groups`, `merge_users`, `merge_admins`) need an induction over
their turns. The induction theorems of the library take an operator as a
parameter; `LoopInduction` has a set of turns instead and comes from the least
element of a set of numbers (`LeastNumber`), and `LoopStates` gives a recursive
function over `0 .. n` its values turn by turn.

Assumptions: `SlotsAssumption` (`MAX_CLIENTS` is not 0), `GroupsAssumption`,
`ColorsAssumption`, `LimitsAssumption`, `NamesAssumption` (finite names),
`AddrsAssumption` (a process has a name), `BoundsAssumption` (queues hold something),
`NothingAssumption` (the empty argument is no group), `NoNameAssumption` (an
entry never written holds no name), `EverybodyFits` (a slot for everybody, for
`Arrays` only), `KillsAssumption` (the bound on stops is a number; no proof uses
its value).

Only model-checked: liveness (`JoinIsAnswered`, `NoEndlessWait`), which is out of
the prover's reach.

## 5. Not modelled

* Truncation of names to 31 and of contents to 255 characters, in particular of
  the list answers: it depends on the lengths of names and texts.
* Duplicated datagrams. A server restart under running clients: `Server` and
  `Arrays` restart, `Chat` does not, since its states with one are too many for
  TLC.
* Failing system calls: `bind` of a second server on the same port (after it has
  deactivated every user), `shmget`, `semget`, `sendto`.
* Reordering of memory writes by an optimising compiler, and the writes of a
  single name: `Arrays` follows the source order.
* `/kick`, `/promote`, `/demote` or `/color` sent with an empty group, when the
  receiving thread clears it between the test and the sending; the server
  ignores such a request.
* Torn reads of the client's character buffers: the receiving thread's writes
  for one datagram (group, then colour) are one step.
* `user_set_color`, `display_users`, `display_groups`, `shm_destroy`,
  `sem_destroy`: without a caller. Display, log and prompt (`utils.c`).
* A user called `Serveur` (excluded by `Calm`; no run has one).

## 6. Plan

Done: the memory and its operations, the requests, the abstract specification
and its refinement, the clients' view of the requests over a good and a bad
network, the lock, the arrays with stops; proofs of all safety properties of
`Server`, `Semaphore`, `Chat` and `Arrays`.

Left, in this order:

1. `Chat` with a restart of the server and few enough commands.
2. The list answers: encoding, cut and decoding, against the list of complete
   entries.
