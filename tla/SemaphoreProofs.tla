-------------------------- MODULE SemaphoreProofs --------------------------
(***************************************************************************)
(* Servers that follow one another and may be stopped at every step lose   *)
(* no user, for every number of servers and names and every MAX_CLIENTS.   *)
(***************************************************************************)
EXTENDS Semaphore, FiniteSetTheorems, TLAPS

-----------------------------------------------------------------------------
(* The invariant.                                                          *)

Positions == {"off", "init_memory", "init_sem", "receive", "sem_p", "search",
              "fill", "count", "answer", "sem_v"}

Serving == {"sem_p", "search", "fill", "count", "answer", "sem_v"}

Types == TypeOK /\ pc \in [Servers -> Positions]

\* One server at a time.
Alone == \A p, q \in Servers : pc[p] # "off" /\ pc[q] # "off" => p = q

\* A name has one slot at most.
SlotsDiffer ==
    \A i, j \in Slots :
        i < user_count /\ j < user_count /\ users[i].name = users[j].name
           => i = j

Stored(n) == \E i \in Slots : i < user_count /\ users[i].name = n

RegisteredStored == \A n \in registered : Stored(n)

\* Between the writes of user_add: the slot being filled is the first that
\* does not count yet, and its name has no other.
Progress ==
    \A p \in Servers :
        /\ pc[p] \in Serving => request[p] \in Names
        /\ pc[p] \in {"fill", "count"} =>
              /\ idx[p] = user_count /\ user_count < MaxClients
              /\ ~Stored(request[p])
        /\ pc[p] = "count" => users[idx[p]].name = request[p]
        /\ pc[p] = "answer" => Stored(request[p])

Inv == Types /\ Alone /\ SlotsDiffer /\ RegisteredStored /\ Progress

\* The first start satisfies it.
LEMMA InitInv == Init => Inv
<1> SUFFICES ASSUME Init PROVE Inv
  OBVIOUS
<1>1. 0 \in Slots
  BY SlotsAssumption DEF Slots
<1>2. Types
  BY <1>1, SlotsAssumption DEF Init, Types, TypeOK, Positions, FreeSlot
<1>3. Alone /\ RegisteredStored /\ Progress
  BY DEF Init, Alone, RegisteredStored, Progress, Serving
<1>4. SlotsDiffer
  BY SlotsAssumption DEF Init, SlotsDiffer, Slots
<1> QED
  BY <1>2, <1>3, <1>4 DEF Inv

\* Steps that leave the table, the names served and the slots chosen alone.
LEMMA SameTable ==
  ASSUME Inv, UNCHANGED <<users, user_count>>
  PROVE  /\ SlotsDiffer'
         /\ \A n : Stored(n)' <=> Stored(n)
  BY DEF Inv, SlotsDiffer, Stored

\* Start, SemInit, Receive, SemP, Full, SemV and Kill do not touch the table.
LEMMA ControlStep ==
  ASSUME Inv, Concurrent = FALSE, NEW p \in Servers,
         \/ Start(p) \/ SemInit(p) \/ SemP(p) \/ Full(p) \/ SemV(p) \/ Kill(p)
         \/ \E n \in Names : Receive(p, n)
  PROVE  Inv'
<1>1. /\ Types /\ Alone /\ Progress /\ RegisteredStored
      /\ pc \in [Servers -> Positions]
      /\ request \in [Servers -> Names \cup {NoName}]
      /\ idx \in [Servers -> Slots] /\ sem \in Nat
  BY DEF Inv, Types, TypeOK
<1>2. UNCHANGED <<users, user_count, registered>>
  BY DEF Start, SemInit, SemP, Full, SemV, Kill, Receive, memory
<1>3. SlotsDiffer' /\ (\A n : Stored(n)' <=> Stored(n))
  BY <1>2, SameTable
<1>4. 0 \in Slots
  BY SlotsAssumption DEF Slots
<1>5. Types'
  BY <1>1, <1>2, <1>4
  DEF Types, TypeOK, Positions, Start, SemInit, SemP, Full, SemV, Kill,
      Receive, Goto, locals
<1>6. Alone'
  BY <1>1 DEF Alone, Start, SemInit, SemP, Full, SemV, Kill, Receive, Goto
<1>7. RegisteredStored'
  BY <1>1, <1>2, <1>3 DEF RegisteredStored
<1>8. Progress'
  BY <1>1, <1>2, <1>3
  DEF Progress, Serving, Start, SemInit, SemP, Full, SemV, Kill, Receive,
      Goto, locals
<1> QED
  BY <1>3, <1>5, <1>6, <1>7, <1>8 DEF Inv

\* The start on existing memory changes nothing but who is active, unless no
\* slot counts.
LEMMA InitMemoryStep ==
  ASSUME Inv, NEW p \in Servers, InitMemory(p)
  PROVE  Inv'
<1>1. /\ Types /\ Alone /\ Progress /\ RegisteredStored /\ SlotsDiffer
      /\ pc \in [Servers -> Positions]
      /\ users \in [Slots -> [name : Names \cup {NoName}, active : BOOLEAN]]
      /\ user_count \in Nat
  BY DEF Inv, Types, TypeOK
<1>2. /\ pc[p] = "init_memory" /\ pc' = [pc EXCEPT ![p] = "init_sem"]
      /\ UNCHANGED <<user_count, sem, request, idx, registered>>
  BY DEF InitMemory, Goto, locals
<1>3. \A i \in Slots : i < user_count => users'[i].name = users[i].name
  <2>1. CASE user_count = 0
    BY <2>1 DEF Slots
  <2>2. CASE user_count # 0
    BY <1>1, <2>2 DEF InitMemory
  <2> QED
    BY <2>1, <2>2
<1>4. users' \in [Slots -> [name : Names \cup {NoName}, active : BOOLEAN]]
  BY <1>1 DEF InitMemory, FreeSlot
<1>5. \A q \in Servers : q # p => pc[q] = "off"
  BY <1>1, <1>2 DEF Alone
<1>6. Types'
  BY <1>1, <1>2, <1>4 DEF Types, TypeOK, Positions
<1>7. \A n : Stored(n)' <=> Stored(n)
  BY <1>2, <1>3 DEF Stored
<1>8. SlotsDiffer' /\ RegisteredStored'
  BY <1>1, <1>2, <1>3, <1>7 DEF SlotsDiffer, RegisteredStored
<1>9. Alone' /\ Progress'
  BY <1>1, <1>2, <1>5 DEF Alone, Progress, Serving
<1> QED
  BY <1>6, <1>8, <1>9 DEF Inv

\* user_add finds the name, or chooses the slot behind the last.
LEMMA SearchStep ==
  ASSUME Inv, NEW p \in Servers, Reuse(p) \/ Choose(p)
  PROVE  Inv'
<1>1. /\ Types /\ Alone /\ Progress /\ RegisteredStored /\ SlotsDiffer
      /\ pc \in [Servers -> Positions]
      /\ users \in [Slots -> [name : Names \cup {NoName}, active : BOOLEAN]]
      /\ idx \in [Servers -> Slots]
      /\ user_count \in Nat
  BY DEF Inv, Types, TypeOK
<1>2. pc[p] = "search" /\ (\A q \in Servers : q # p => pc[q] = "off")
  BY <1>1 DEF Alone, Reuse, Choose, Goto
<1>3. Stored(request[p]) <=> SlotsOf(request[p]) # {}
  BY DEF Stored, SlotsOf
<1>4. CASE Reuse(p)
  <2> DEFINE i == CHOOSE j \in SlotsOf(request[p]) :
                     \A k \in SlotsOf(request[p]) : j <= k
  <2>1. /\ pc' = [pc EXCEPT ![p] = "answer"]
        /\ users' = [users EXCEPT ![i].active = TRUE]
        /\ idx' = [idx EXCEPT ![p] = i]
        /\ UNCHANGED <<user_count, sem, request, registered>>
        /\ SlotsOf(request[p]) # {}
    BY <1>4 DEF Reuse, Goto
  <2>2. i \in SlotsOf(request[p])
    <3> DEFINE S == SlotsOf(request[p])
    <3>1. S \subseteq Nat /\ S # {}
      BY <2>1 DEF SlotsOf, Slots
    <3>2. \E j \in S : \A k \in S : j <= k
      <4>1. PICK n \in S : TRUE
        BY <3>1
      <4>2. \A a, b \in S : a = b
        BY <1>1 DEF SlotsOf, SlotsDiffer
      <4> QED
        BY <3>1, <4>1, <4>2
    <3> HIDE DEF S
    <3> QED
      BY <3>2 DEF S
  <2>3. i \in Slots
    BY <2>2 DEF SlotsOf
  <2> HIDE DEF i
  <2>4. /\ \A j \in Slots : users'[j].name = users[j].name
        /\ users' \in [Slots -> [name : Names \cup {NoName}, active : BOOLEAN]]
    BY <1>1, <2>1, <2>3
  <2>5. \A n : Stored(n)' <=> Stored(n)
    BY <2>1, <2>4 DEF Stored
  <2>6. Types'
    BY <1>1, <2>1, <2>3, <2>4 DEF Types, TypeOK, Positions
  <2>7. SlotsDiffer' /\ RegisteredStored'
    BY <1>1, <2>1, <2>4, <2>5 DEF SlotsDiffer, RegisteredStored
  <2>8. Alone' /\ Progress'
    BY <1>1, <1>2, <1>3, <2>1, <2>5 DEF Alone, Progress, Serving
  <2> QED
    BY <2>6, <2>7, <2>8 DEF Inv
<1>5. CASE Choose(p)
  <2>1. /\ pc' = [pc EXCEPT ![p] = "fill"]
        /\ idx' = [idx EXCEPT ![p] = user_count]
        /\ UNCHANGED <<users, user_count, sem, request, registered>>
        /\ SlotsOf(request[p]) = {} /\ user_count < MaxClients
    BY <1>5 DEF Choose, Goto, memory
  <2>2. user_count \in Slots
    BY <1>1, <2>1, SlotsAssumption DEF Slots
  <2>3. SlotsDiffer' /\ (\A n : Stored(n)' <=> Stored(n))
    BY <2>1, SameTable
  <2>4. Types'
    BY <1>1, <2>1, <2>2 DEF Types, TypeOK, Positions
  <2>5. RegisteredStored'
    BY <1>1, <2>1, <2>3 DEF RegisteredStored
  <2>6. Alone' /\ Progress'
    BY <1>1, <1>2, <1>3, <2>1, <2>3 DEF Alone, Progress, Serving
  <2> QED
    BY <2>3, <2>4, <2>5, <2>6 DEF Inv
<1> QED
  BY <1>4, <1>5

\* The slot is filled before it counts.
LEMMA FillStep ==
  ASSUME Inv, NEW p \in Servers, Fill(p)
  PROVE  Inv'
<1>1. /\ Types /\ Alone /\ Progress /\ RegisteredStored /\ SlotsDiffer
      /\ pc \in [Servers -> Positions]
      /\ users \in [Slots -> [name : Names \cup {NoName}, active : BOOLEAN]]
      /\ idx \in [Servers -> Slots]
      /\ user_count \in Nat
  BY DEF Inv, Types, TypeOK
<1>2. /\ pc[p] = "fill" /\ pc' = [pc EXCEPT ![p] = "count"]
      /\ users' = [users EXCEPT ![user_count] =
                      [name |-> request[p], active |-> TRUE]]
      /\ UNCHANGED <<user_count, sem, request, idx, registered>>
      /\ user_count \in Slots
  BY <1>1 DEF Fill, Goto, locals, Progress
<1>3. \A q \in Servers : q # p => pc[q] = "off"
  BY <1>1, <1>2 DEF Alone
<1>4. request[p] \in Names
  BY <1>1, <1>2 DEF Progress, Serving
<1>5. /\ \A j \in Slots : j < user_count => users'[j] = users[j]
      /\ users'[user_count].name = request[p]
      /\ users' \in [Slots -> [name : Names \cup {NoName}, active : BOOLEAN]]
  BY <1>1, <1>2, <1>4
<1>6. \A n : Stored(n)' <=> Stored(n)
  BY <1>2, <1>5 DEF Stored
<1>7. Types'
  BY <1>1, <1>2, <1>5 DEF Types, TypeOK, Positions
<1>8. SlotsDiffer' /\ RegisteredStored'
  BY <1>1, <1>2, <1>5, <1>6 DEF SlotsDiffer, RegisteredStored
<1>9. Alone' /\ Progress'
  BY <1>1, <1>2, <1>3, <1>5, <1>6 DEF Alone, Progress, Serving
<1> QED
  BY <1>7, <1>8, <1>9 DEF Inv

\* It counts: its name has no other slot.
LEMMA CountStep ==
  ASSUME Inv, NEW p \in Servers, Count(p)
  PROVE  Inv'
<1>1. /\ Types /\ Alone /\ Progress /\ RegisteredStored /\ SlotsDiffer
      /\ pc \in [Servers -> Positions]
      /\ user_count \in 0 .. MaxClients
  BY DEF Inv, Types, TypeOK
<1>2. /\ pc[p] = "count" /\ pc' = [pc EXCEPT ![p] = "answer"]
      /\ user_count' = user_count + 1
      /\ UNCHANGED <<users, sem, request, idx, registered>>
  BY DEF Count, Goto, locals
<1>3. /\ users[user_count].name = request[p] /\ ~Stored(request[p])
      /\ user_count < MaxClients
  BY <1>1, <1>2 DEF Progress
<1>4. user_count' \in 0 .. MaxClients /\ user_count \in Slots
  BY <1>1, <1>2, <1>3, SlotsAssumption DEF Slots
<1>5. \A q \in Servers : q # p => pc[q] = "off"
  BY <1>1, <1>2 DEF Alone
<1>6. \A i \in Slots : i < user_count' => i < user_count \/ i = user_count
  BY <1>1, <1>2 DEF Slots
<1>7. \A i \in Slots : i < user_count => users[i].name # request[p]
  BY <1>3 DEF Stored
<1>8. SlotsDiffer'
  BY <1>1, <1>2, <1>3, <1>6, <1>7 DEF SlotsDiffer
<1>9. Stored(request[p])' /\ (\A n : Stored(n) => Stored(n)')
  <2>1. \A i \in Slots : i < user_count => i < user_count'
    BY <1>1, <1>2 DEF Slots
  <2>2. user_count < user_count'
    BY <1>1, <1>2
  <2> QED
    BY <1>2, <1>3, <1>4, <2>1, <2>2 DEF Stored
<1>10. Types'
  BY <1>1, <1>2, <1>4 DEF Types, TypeOK, Positions
<1>11. RegisteredStored'
  BY <1>1, <1>2, <1>9 DEF RegisteredStored
<1>12. Alone' /\ Progress'
  BY <1>1, <1>2, <1>5, <1>9 DEF Alone, Progress, Serving
<1> QED
  BY <1>8, <1>10, <1>11, <1>12 DEF Inv

\* Who is acknowledged has a slot.
LEMMA AnswerStep ==
  ASSUME Inv, NEW p \in Servers, Answer(p)
  PROVE  Inv'
<1>1. /\ Types /\ Alone /\ Progress /\ RegisteredStored
      /\ pc \in [Servers -> Positions] /\ registered \subseteq Names
  BY DEF Inv, Types, TypeOK
<1>2. /\ pc[p] = "answer" /\ pc' = [pc EXCEPT ![p] = "sem_v"]
      /\ registered' = registered \cup {request[p]}
      /\ UNCHANGED <<users, user_count, sem, request, idx>>
  BY DEF Answer, Goto, locals, memory
<1>3. request[p] \in Names /\ Stored(request[p])
  BY <1>1, <1>2 DEF Progress, Serving
<1>4. SlotsDiffer' /\ (\A n : Stored(n)' <=> Stored(n))
  BY <1>2, SameTable
<1>5. Types'
  BY <1>1, <1>2, <1>3 DEF Types, TypeOK, Positions
<1>6. RegisteredStored'
  BY <1>1, <1>2, <1>3, <1>4 DEF RegisteredStored
<1>7. Alone' /\ Progress'
  BY <1>1, <1>2, <1>4 DEF Alone, Progress, Serving
<1> QED
  BY <1>4, <1>5, <1>6, <1>7 DEF Inv

-----------------------------------------------------------------------------
(* The theorems.                                                           *)

\* Every step keeps the invariant, if servers do not run at the same time.
LEMMA StepInv ==
  ASSUME Concurrent = FALSE
  PROVE  Inv /\ [Next]_vars => Inv'
<1> SUFFICES ASSUME Inv, [Next]_vars PROVE Inv'
  OBVIOUS
<1>1. CASE UNCHANGED vars
  BY <1>1
  DEF vars, Inv, Types, TypeOK, Alone, SlotsDiffer, RegisteredStored, Progress,
      Stored
<1>2. ASSUME NEW p \in Servers,
             \/ Start(p) \/ Step(p) \/ Kill(p) \/ \E n \in Names : Receive(p, n)
      PROVE  Inv'
  BY <1>2, ControlStep, InitMemoryStep, SearchStep, FillStep, CountStep,
     AnswerStep
  DEF Step
<1> QED
  BY <1>1, <1>2 DEF Next

\* So it holds in every state of every behaviour.
LEMMA InvAlways ==
  ASSUME Concurrent = FALSE
  PROVE  Spec => []Inv
<1>1. Inv /\ [Next]_vars => Inv'
  BY StepInv
<1> QED
  BY <1>1, InitInv, PTL DEF Spec

\* The table, the semaphore and the processes stay well formed: no stop makes
\* user_count or a chosen slot leave the table.
THEOREM TypesStay ==
  ASSUME Concurrent = FALSE
  PROVE  Spec => []TypeOK
<1>1. Inv => TypeOK
  BY DEF Inv, Types
<1> QED
  BY <1>1, InvAlways, PTL

\* A user who was acknowledged keeps exactly one slot, wherever servers are
\* stopped and however often they start again.
THEOREM NobodyLost ==
  ASSUME Concurrent = FALSE
  PROVE  Spec => []NoLostUser
<1>1. Inv => NoLostUser
  <2> SUFFICES ASSUME Inv, NEW n \in registered
               PROVE  Cardinality(SlotsOf(n)) = 1
    BY DEF NoLostUser
  <2>1. PICK i \in Slots : i < user_count /\ users[i].name = n
    BY DEF Inv, RegisteredStored, Stored
  <2>2. SlotsOf(n) = {i}
    BY <2>1 DEF Inv, SlotsDiffer, SlotsOf
  <2> QED
    BY <2>2, FS_Singleton
<1> QED
  BY <1>1, InvAlways, PTL
=============================================================================
