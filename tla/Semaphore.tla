----------------------------- MODULE Semaphore ------------------------------
(***************************************************************************)
(* Inside the lock: server processes that share one memory segment and one *)
(* semaphore (both are found by ftok on files of the working directory,    *)
(* and both outlive the processes), step by step through the start of      *)
(* main() and through one handler, the registration of a user by CONNECT.  *)
(* A signal can stop a process at every step: its handler exits without    *)
(* sem_v, and semop is called without SEM_UNDO.                            *)
(*                                                                         *)
(*   users, user_count   the user table, slots 0 .. MaxClients - 1         *)
(*   sem                 the value of the semaphore                        *)
(*   pc, request, idx    of each process: where it is, the name it serves, *)
(*                       the slot it fills                                 *)
(*   registered          history: the names whose registration was         *)
(*                       completed and acknowledged                        *)
(***************************************************************************)
EXTENDS Naturals, FiniteSets

CONSTANTS
    Servers,      \* server processes
    Names,        \* user names
    NoName,       \* the name in an unused slot
    MaxClients,   \* MAX_CLIENTS
    Concurrent,   \* whether servers run at the same time
    Kills         \* whether a server may be stopped

ASSUME ServersAssumption == IsFiniteSet(Servers)
ASSUME SlotsAssumption == MaxClients \in Nat \ {0} /\ NoName \notin Names
ASSUME ModesAssumption == Concurrent \in BOOLEAN /\ Kills \in BOOLEAN

VARIABLES users, user_count, sem, pc, request, idx, registered

memory == <<users, user_count>>
locals == <<request, idx>>
vars == <<users, user_count, sem, pc, request, idx, registered>>

Slots == 0 .. MaxClients - 1

FreeSlot == [name |-> NoName, active |-> FALSE]

Critical == {"search", "fill", "count", "answer"}

Init ==
    /\ users = [i \in Slots |-> FreeSlot]
    /\ user_count = 0
    /\ sem = 0
    /\ pc = [p \in Servers |-> "off"]
    /\ request = [p \in Servers |-> NoName]
    /\ idx = [p \in Servers |-> 0]
    /\ registered = {}

Goto(p, from, to) == pc[p] = from /\ pc' = [pc EXCEPT ![p] = to]

-----------------------------------------------------------------------------
(* main(): start.                                                          *)

Start(p) ==
    /\ Concurrent \/ \A q \in Servers : pc[q] = "off"
    /\ Goto(p, "off", "init_memory")
    /\ UNCHANGED <<memory, sem, locals, registered>>

\* Mutant: the memory is cleared at every start.
InitMemory_AlwaysClears(p) ==
    /\ Goto(p, "init_memory", "init_sem")
    /\ users' = [i \in Slots |-> FreeSlot]
    /\ UNCHANGED <<user_count, sem, locals, registered>>

\* Outside the lock: an empty memory is cleared, and in another one nobody
\* is connected any more.
InitMemory(p) ==
    /\ Goto(p, "init_memory", "init_sem")
    /\ users' = IF user_count = 0 THEN [i \in Slots |-> FreeSlot]
                ELSE [i \in Slots |-> [users[i] EXCEPT
                        !.active = @ /\ i >= user_count]]
    /\ UNCHANGED <<user_count, sem, locals, registered>>

\* Mutant: the semaphore of an earlier server is kept as it is.
SemInit_Keeps(p) ==
    /\ Goto(p, "init_sem", "receive")
    /\ sem' = IF user_count = 0 THEN 1 ELSE sem
    /\ UNCHANGED <<memory, locals, registered>>

\* sem_init(1), whoever may hold the semaphore.
SemInit(p) ==
    /\ Goto(p, "init_sem", "receive")
    /\ sem' = 1
    /\ UNCHANGED <<memory, locals, registered>>

-----------------------------------------------------------------------------
(* The loop of main() and handle_client_message.                           *)

Receive(p, n) ==
    /\ Goto(p, "receive", "sem_p")
    /\ request' = [request EXCEPT ![p] = n]
    /\ UNCHANGED <<memory, sem, idx, registered>>

SemP(p) ==
    /\ sem > 0
    /\ Goto(p, "sem_p", "search")
    /\ sem' = sem - 1
    /\ UNCHANGED <<memory, locals, registered>>

\* The slots that user_find and the first loop of user_add see.
SlotsOf(n) == {i \in Slots : i < user_count /\ users[i].name = n}

\* The name has a slot: active already, or made so again.
Reuse(p) ==
    /\ Goto(p, "search", "answer")
    /\ SlotsOf(request[p]) # {}
    /\ LET i == CHOOSE j \in SlotsOf(request[p]) :
                    \A k \in SlotsOf(request[p]) : j <= k
       IN  /\ users' = [users EXCEPT ![i].active = TRUE]
           /\ idx' = [idx EXCEPT ![p] = i]
    /\ UNCHANGED <<user_count, sem, request, registered>>

\* The table is full: nothing is stored and nothing is sent.
Full(p) ==
    /\ SlotsOf(request[p]) = {}
    /\ user_count >= MaxClients
    /\ Goto(p, "search", "sem_v")
    /\ UNCHANGED <<memory, sem, locals, registered>>

\* Mutant: one slot too many.
Choose_OffByOne(p) ==
    /\ SlotsOf(request[p]) = {}
    /\ user_count <= MaxClients
    /\ Goto(p, "search", "fill")
    /\ idx' = [idx EXCEPT ![p] = user_count]
    /\ UNCHANGED <<memory, sem, request, registered>>

Choose(p) ==
    /\ SlotsOf(request[p]) = {}
    /\ user_count < MaxClients
    /\ Goto(p, "search", "fill")
    /\ idx' = [idx EXCEPT ![p] = user_count]
    /\ UNCHANGED <<memory, sem, request, registered>>

Fill(p) ==
    /\ Goto(p, "fill", "count")
    /\ users' = [users EXCEPT ![idx[p]] = [name |-> request[p], active |-> TRUE]]
    /\ UNCHANGED <<user_count, sem, locals, registered>>

Count(p) ==
    /\ Goto(p, "count", "answer")
    /\ user_count' = user_count + 1
    /\ UNCHANGED <<users, sem, locals, registered>>

Answer(p) ==
    /\ Goto(p, "answer", "sem_v")
    /\ registered' = registered \cup {request[p]}
    /\ UNCHANGED <<memory, sem, locals>>

SemV(p) ==
    /\ Goto(p, "sem_v", "receive")
    /\ sem' = sem + 1
    /\ UNCHANGED <<memory, locals, registered>>

\* cleanup_and_exit, or a kill: the process is gone, the rest stays.
Kill(p) ==
    /\ Kills
    /\ pc[p] # "off"
    /\ pc' = [pc EXCEPT ![p] = "off"]
    /\ request' = [request EXCEPT ![p] = NoName]
    /\ idx' = [idx EXCEPT ![p] = 0]
    /\ UNCHANGED <<memory, sem, registered>>

-----------------------------------------------------------------------------
Step(p) ==
    \/ InitMemory(p) \/ SemInit(p) \/ SemP(p)
    \/ Reuse(p) \/ Full(p) \/ Choose(p)
    \/ Fill(p)  \/ Count(p) \/ Answer(p) \/ SemV(p)

Next ==
    \E p \in Servers :
        \/ Start(p) \/ Step(p) \/ Kill(p)
        \/ \E n \in Names : Receive(p, n)

\* A running process goes on; nobody must start one, or send a request.
Spec == Init /\ [][Next]_vars /\ \A p \in Servers : WF_vars(Step(p))

-----------------------------------------------------------------------------
(* Properties.                                                             *)

TypeOK ==
    /\ users \in [Slots -> [name : Names \cup {NoName}, active : BOOLEAN]]
    /\ user_count \in 0 .. MaxClients
    /\ sem \in Nat
    /\ request \in [Servers -> Names \cup {NoName}]
    /\ idx \in [Servers -> Slots]
    /\ registered \subseteq Names

\* A user whose registration was acknowledged has exactly one slot, even when
\* servers were stopped in the middle of later registrations (note.md:84, "un
\* utilisateur est perdu", is what the lock is for).
NoLostUser ==
    \A n \in registered : Cardinality(SlotsOf(n)) = 1

\* A server that waits for the semaphore gets it, whoever was stopped while
\* holding it before: the restart that follows sets it to 1 again.
NoEndlessWait ==
    \A p \in Servers : pc[p] = "sem_p" ~> pc[p] # "sem_p"

\* uml_seq_public.puml:54-58 and note.md:88: at most one process at a time is
\* between sem_p and sem_v.
MutualExclusion ==
    \A p, q \in Servers : pc[p] \in Critical /\ pc[q] \in Critical => p = q
=============================================================================
