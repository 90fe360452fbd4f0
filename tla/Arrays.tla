------------------------------- MODULE Arrays -------------------------------
(***************************************************************************)
(* Inside the functions of user.c and group.c: the lists of a group are C  *)
(* arrays with a count, written entry by entry (in the order of the        *)
(* source: the Makefile asks for no optimisation) by one server process    *)
(* that a signal may stop between any two writes.  The memory outlives it. *)
(*                                                                         *)
(*   mem       the shared memory: of each user active and current_group,   *)
(*             of each group known (its slot is below group_count), active *)
(*             and the two arrays with their counts                        *)
(*   up        a server is running                                         *)
(*   todo      the memories after each write still to come of the request  *)
(*             being served                                                *)
(*   kills     how often a server was stopped                              *)
(*   torn      history: a server was stopped in the middle of a request    *)
(*   expected  history: the memory according to Registry, while not torn   *)
(*                                                                         *)
(* A name is copied in one step.  Every user has a slot, and a slot is     *)
(* indexed by its name (Registry): the arrays modelled are the four lists. *)
(* A request that writes nothing, and the colours, are in Server.          *)
(***************************************************************************)
EXTENDS Registry, SequencesExt

CONSTANTS
    NoName,       \* the name in an entry never written
    MaxKills      \* bound: how often a server is stopped

ASSUME NoNameAssumption == NoName \notin Names
ASSUME EverybodyFits == Cardinality(Names) <= MaxClients
ASSUME KillsAssumption == MaxKills \in Nat

VARIABLES mem, up, todo, kills, torn, expected

vars == <<mem, up, todo, kills, torn, expected>>

Entries == 0 .. MaxClients - 1

NoEntries == [i \in Entries |-> NoName]

Init ==
    /\ mem = [users  |-> [u \in Names |->
                            [active |-> FALSE, current_group |-> NoGroup]],
              groups |-> [g \in Groups |->
                            [known |-> FALSE, active |-> FALSE,
                             users |-> NoEntries, user_count |-> 0,
                             admins |-> NoEntries, admin_count |-> 0]]]
    /\ up = FALSE
    /\ todo = <<>>
    /\ kills = 0
    /\ torn = FALSE
    /\ expected = EmptyMemory

-----------------------------------------------------------------------------
(* Searches.                                                               *)

Live(m, g) == m.groups[g].known /\ m.groups[g].active

\* The entries of a list that hold a name.
Positions(list, count, u) == {i \in 0 .. count - 1 : list[i] = u}

Listed(m, g, u) ==
    Positions(m.groups[g].users, m.groups[g].user_count, u) # {}

HasRight(m, g, u) ==
    Positions(m.groups[g].admins, m.groups[g].admin_count, u) # {}

\* The first of them, where the search loops stop.
FirstOf(list, count, u) ==
    CHOOSE i \in Positions(list, count, u) :
        \A j \in Positions(list, count, u) : i <= j

-----------------------------------------------------------------------------
(* A run is the sequence of memories from the start of a request on, one   *)
(* more after each write.  Each C function makes a run longer.             *)

Now(run) == run[Len(run)]

\* Mutant: the list gets longer before its last entry is written.
AppendUser_CountsFirst(run, g, u) ==
    LET m  == Now(run)
        n  == m.groups[g].user_count
        m1 == [m EXCEPT !.groups[g].user_count = n + 1]
    IN  run \o <<m1, [m1 EXCEPT !.groups[g].users[n] = u]>>

\* strncpy to the entry after the last, then user_count++.
AppendUser(run, g, u) ==
    LET m  == Now(run)
        n  == m.groups[g].user_count
        m1 == [m EXCEPT !.groups[g].users[n] = u]
    IN  run \o <<m1, [m1 EXCEPT !.groups[g].user_count = n + 1]>>

AppendAdmin(run, g, u) ==
    LET m  == Now(run)
        n  == m.groups[g].admin_count
        m1 == [m EXCEPT !.groups[g].admins[n] = u]
    IN  run \o <<m1, [m1 EXCEPT !.groups[g].admin_count = n + 1]>>

\* A list after k turns of the loop that moves the entries behind i forward.
Shifted(list, i, k) ==
    LET after[n \in 0 .. k] ==
            IF n = 0 THEN list
            ELSE [after[n - 1] EXCEPT ![i + n - 1] = list[i + n]]
    IN  after[k]

\* Mutant: the count goes down before the entries move.
DropUser_CountsFirst(run, g, u) ==
    LET m    == Now(run)
        list == m.groups[g].users
        n    == m.groups[g].user_count
        i    == FirstOf(list, n, u)
        m1   == [m EXCEPT !.groups[g].user_count = n - 1]
    IN  run \o <<m1>> \o
        [k \in 1 .. n - 1 - i |->
            [m1 EXCEPT !.groups[g].users = Shifted(list, i, k)]]

\* The entries behind the first one that holds u move forward, then the count
\* goes down.
DropUser(run, g, u) ==
    LET m       == Now(run)
        list    == m.groups[g].users
        n       == m.groups[g].user_count
        i       == FirstOf(list, n, u)
        turn(k) == [m EXCEPT !.groups[g].users = Shifted(list, i, k)]
    IN  run \o [k \in 1 .. n - 1 - i |-> turn(k)] \o
        <<[turn(n - 1 - i) EXCEPT !.groups[g].user_count = n - 1]>>

DropAdmin(run, g, u) ==
    LET m       == Now(run)
        list    == m.groups[g].admins
        n       == m.groups[g].admin_count
        i       == FirstOf(list, n, u)
        turn(k) == [m EXCEPT !.groups[g].admins = Shifted(list, i, k)]
    IN  run \o [k \in 1 .. n - 1 - i |-> turn(k)] \o
        <<[turn(n - 1 - i) EXCEPT !.groups[g].admin_count = n - 1]>>

\* current_group of u, if user_find finds u.
SetCurrent(run, u, g) ==
    IF Now(run).users[u].active
    THEN Append(run, [Now(run) EXCEPT !.users[u].current_group = g])
    ELSE run

-----------------------------------------------------------------------------
(* user.c and group.c.                                                     *)

\* A new slot is not seen before user_count++, which comes last.
user_add(run, u) ==
    IF Now(run).users[u].active THEN run
    ELSE Append(run, [Now(run) EXCEPT !.users[u].active = TRUE])

group_remove_user(run, g, u) ==
    IF Live(Now(run), g) /\ Listed(Now(run), g, u)
    THEN SetCurrent(DropUser(run, g, u), u, NoGroup)
    ELSE run

\* slots: the groups in the order of their slots.
leave_groups(run, u, slots) ==
    LET after[i \in 0 .. Len(slots)] ==
            IF i = 0 THEN run
            ELSE group_remove_user(after[i - 1], slots[i], u)
    IN  after[Len(slots)]

user_remove(run, u, slots) ==
    LET left == leave_groups(run, u, slots)
    IN  Append(left, [Now(left) EXCEPT !.users[u].active = FALSE])

CreatorAdded(run, g, creator) ==
    IF creator = EmptyName THEN run
    ELSE LET m1 == [Now(run) EXCEPT !.groups[g].admins[0] = creator]
         IN  run \o <<m1, [m1 EXCEPT !.groups[g].admin_count = 1]>>

\* A group used again: it is active first.
Reactivated(run, g, creator) ==
    LET m1 == [Now(run) EXCEPT !.groups[g].active = TRUE]
        m2 == [m1 EXCEPT !.groups[g].user_count = 0]
        m3 == [m2 EXCEPT !.groups[g].admin_count = 0]
    IN  CreatorAdded(run \o <<m1, m2, m3>>, g, creator)

\* A new slot: nothing of it is seen before group_count++, which comes last.
Created(run, g, creator) ==
    LET m1 == [Now(run) EXCEPT !.groups[g] =
                  [@ EXCEPT !.active = TRUE, !.user_count = 0,
                            !.admin_count = 0]]
        m2 == Now(CreatorAdded(<<m1>>, g, creator))
    IN  Append(run, [m2 EXCEPT !.groups[g].known = TRUE])

group_create(run, g, creator) ==
    LET m    == Now(run)
        used == {h \in Groups : m.groups[h].known}
    IN  IF Live(m, g) THEN run
        ELSE IF m.groups[g].known THEN Reactivated(run, g, creator)
        ELSE IF Cardinality(used) < MaxGroups THEN Created(run, g, creator)
        ELSE run

group_add_user(run, g, u) ==
    LET m == Now(run)
    IN  IF /\ Live(m, g)
           /\ m.users[u].active
           /\ ~Listed(m, g, u)
           /\ m.groups[g].user_count < MaxClients
        THEN SetCurrent(AppendUser(run, g, u), u, g)
        ELSE run

\* Mutant: whether the user is in the first group already is not looked up.
merge_user_Unchecked(run, g1, u) ==
    IF Now(run).groups[g1].user_count < MaxClients
    THEN SetCurrent(AppendUser(run, g1, u), u, g1)
    ELSE run

\* One turn of the first loop of group_merge.
merge_user(run, g1, u) ==
    LET m == Now(run)
    IN  IF ~Listed(m, g1, u) /\ m.groups[g1].user_count < MaxClients
        THEN SetCurrent(AppendUser(run, g1, u), u, g1)
        ELSE run

\* One turn of the second.
merge_admin(run, g1, u) ==
    LET m == Now(run)
    IN  IF ~HasRight(m, g1, u) /\ m.groups[g1].admin_count < MaxClients
        THEN AppendAdmin(run, g1, u)
        ELSE run

\* Mutant: the second group is emptied before it is made inactive.
EndOfMerge_EmptiesFirst(run, g2) ==
    LET m1 == [Now(run) EXCEPT !.groups[g2].user_count = 0]
        m2 == [m1 EXCEPT !.groups[g2].admin_count = 0]
    IN  run \o <<m1, m2, [m2 EXCEPT !.groups[g2].active = FALSE]>>

EndOfMerge(run, g2) ==
    LET m1 == [Now(run) EXCEPT !.groups[g2].active = FALSE]
        m2 == [m1 EXCEPT !.groups[g2].user_count = 0]
    IN  run \o <<m1, m2, [m2 EXCEPT !.groups[g2].admin_count = 0]>>

\* The two loops, over the first count entries of a list of the second group.
merge_users(run, g1, list, count) ==
    LET after[i \in 0 .. count] ==
            IF i = 0 THEN run ELSE merge_user(after[i - 1], g1, list[i - 1])
    IN  after[count]

merge_admins(run, g1, list, count) ==
    LET after[i \in 0 .. count] ==
            IF i = 0 THEN run ELSE merge_admin(after[i - 1], g1, list[i - 1])
    IN  after[count]

group_merge(run, g1, g2) ==
    LET from  == Now(run).groups[g2]
        moved == merge_users(run, g1, from.users, from.user_count)
        ruled == merge_admins(moved, g1, from.admins, from.admin_count)
    IN  EndOfMerge(ruled, g2)

group_add_admin(run, g, u) ==
    LET m == Now(run)
    IN  IF /\ ~HasRight(m, g, u)
           /\ Listed(m, g, u)
           /\ m.groups[g].admin_count < MaxClients
        THEN AppendAdmin(run, g, u)
        ELSE run

group_remove_admin(run, g, u) ==
    IF HasRight(Now(run), g, u) /\ Now(run).groups[g].admin_count > 1
    THEN DropAdmin(run, g, u)
    ELSE run

\* The right goes first, the last one too.
group_kick_user(run, g, u) ==
    group_remove_user(IF HasRight(Now(run), g, u) THEN DropAdmin(run, g, u)
                      ELSE run, g, u)

-----------------------------------------------------------------------------
(* Requests (server.c): what handle_client_message calls, and what Registry *)
(* says of it.  Any name may send them, as in Server.                       *)

\* A request that writes: its run starts, next is the memory it should leave.
Serve(run, next) ==
    /\ up /\ todo = <<>>
    /\ Len(run) > 1
    /\ todo' = Tail(run)
    /\ expected' = IF torn THEN expected ELSE next
    /\ UNCHANGED <<mem, up, kills, torn>>

Connect(u) == Serve(user_add(<<mem>>, u), UserAdd(expected, u, NoAddr))

Join(u, g) ==
    LET registered == IF UserFound(expected, u) THEN expected
                      ELSE UserAdd(expected, u, NoAddr)
        prepared   == IF GroupFound(registered, g) THEN registered
                      ELSE GroupCreate(registered, g, u)
    IN  Serve(group_add_user(group_create(user_add(<<mem>>, u), g, u), g, u),
              IF CanJoinGroup(prepared, g, u)
              THEN GroupAddUser(prepared, g, u) ELSE prepared)

CreateGroup(u, g) ==
    Serve(group_create(<<mem>>, g, u), GroupCreate(expected, g, u))

Leave(u, g) ==
    Serve(group_remove_user(<<mem>>, g, u), GroupRemoveUser(expected, g, u))

\* A user who was never added has nothing to lose.
Disconnect(u, slots) ==
    /\ mem.users[u].active \/ \E g \in Groups : Listed(mem, g, u)
    /\ Serve(user_remove(<<mem>>, u, slots), UserRemove(expected, u))

Merge(u, g1, g2) ==
    /\ Live(mem, g1) /\ Live(mem, g2) /\ g1 # g2
    /\ HasRight(mem, g1, u)
    /\ \E next \in IF torn THEN {expected} ELSE GroupMerge(expected, g1, g2) :
          Serve(group_merge(<<mem>>, g1, g2), next)

Kick(u, g, v) ==
    /\ Live(mem, g) /\ HasRight(mem, g, u) /\ v # u
    /\ Serve(group_kick_user(<<mem>>, g, v), GroupKickUser(expected, g, v))

Promote(u, g, v) ==
    /\ Live(mem, g) /\ HasRight(mem, g, u) /\ mem.users[v].active
    /\ Serve(group_add_admin(<<mem>>, g, v), GroupAddAdmin(expected, g, v))

Demote(u, g, v) ==
    /\ Live(mem, g) /\ HasRight(mem, g, u) /\ v # u /\ mem.users[v].active
    /\ Serve(group_remove_admin(<<mem>>, g, v), GroupRemoveAdmin(expected, g, v))

Request ==
    \E u \in Names :
        \/ Connect(u)
        \/ \E slots \in SetToSeqs(Groups) : Disconnect(u, slots)
        \/ \E g \in Groups :
              \/ Join(u, g) \/ CreateGroup(u, g) \/ Leave(u, g)
              \/ \E h \in Groups : Merge(u, g, h)
              \/ \E v \in Names :
                    Kick(u, g, v) \/ Promote(u, g, v) \/ Demote(u, g, v)

-----------------------------------------------------------------------------
(* The process.                                                            *)

Write ==
    /\ todo # <<>>
    /\ mem' = Head(todo)
    /\ todo' = Tail(todo)
    /\ UNCHANGED <<up, kills, torn, expected>>

\* cleanup_and_exit, or a kill.  What a torn memory should be, nobody says.
Kill ==
    /\ up /\ kills < MaxKills
    /\ up' = FALSE
    /\ kills' = kills + 1
    /\ todo' = <<>>
    /\ torn' = (torn \/ todo # <<>>)
    /\ expected' = IF torn' THEN EmptyMemory ELSE expected
    /\ UNCHANGED mem

\* Nobody is connected any more.  Nothing reads the memory before main() is
\* done with it, and a stop in between is followed by another start.
Start ==
    /\ ~up
    /\ up' = TRUE
    /\ mem' = [mem EXCEPT !.users =
                 [u \in Names |-> [mem.users[u] EXCEPT !.active = FALSE]]]
    /\ expected' = IF torn THEN expected ELSE Deactivated(expected)
    /\ UNCHANGED <<todo, kills, torn>>

Next == Request \/ Write \/ Kill \/ Start

Spec == Init /\ [][Next]_vars

-----------------------------------------------------------------------------
(* Properties.                                                             *)

\* Whatever was stopped where, counts stay within the arrays and every entry
\* below a count holds a name: no loop over a list reads or writes outside
\* it, or an entry that was never filled.
NoHoles ==
    \A g \in Groups :
        LET G == mem.groups[g]
        IN  /\ G.user_count \in 0 .. MaxClients
            /\ G.admin_count \in 0 .. MaxClients
            /\ \A i \in 0 .. G.user_count - 1 : G.users[i] \in Names
            /\ \A i \in 0 .. G.admin_count - 1 : G.admins[i] \in Names

\* Between two requests the arrays are the sets of Registry, each name once,
\* as long as no request was cut short.
ArraysAgreeWithSets ==
    ~torn /\ todo = <<>> =>
        /\ \A u \in Names :
              /\ mem.users[u].active <=> UserFound(expected, u)
              /\ mem.users[u].current_group = expected.users[u].current_group
        /\ \A g \in Groups :
              LET G == mem.groups[g]
                  X == expected.groups[g]
              IN  /\ G.known <=> X.state # "absent"
                  /\ Live(mem, g) <=> GroupFound(expected, g)
                  /\ {u \in Names : Listed(mem, g, u)} = X.users
                  /\ {u \in Names : HasRight(mem, g, u)} = X.admins
                  /\ G.user_count = Cardinality(X.users)
                  /\ G.admin_count = Cardinality(X.admins)

InSomeGroup(m, u) == \E g \in Groups : Live(m, g) /\ Listed(m, g, u)

\* A stop never loses a member on the move: who is in no group any more after
\* a write, and was in one before it, is not put back by a later write of the
\* same request, a merge or the shifting of a list.
NobodyIsLost ==
    [][\A u \in Names :
         ~torn /\ InSomeGroup(mem, u) /\ ~InSomeGroup(mem', u) =>
            \A k \in 1 .. Len(todo') : ~InSomeGroup(todo'[k], u)]_vars

Governed(m, g) == \E u \in Names : HasRight(m, g, u)

\* No write leaves a group without administrator that had one and still
\* exists, so no single stop does: a merged group goes inactive before its
\* administrators are forgotten, and lists are shifted before they shrink.
NoWriteTakesTheLastAdmin ==
    [][\A g \in Groups :
         ~torn /\ Live(mem, g) /\ Governed(mem, g) /\ Live(mem', g) =>
            Governed(mem', g)]_vars
=============================================================================
