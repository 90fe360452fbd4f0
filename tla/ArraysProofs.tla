---------------------------- MODULE ArraysProofs ----------------------------
(* What holds of Arrays for any number of users, groups and stops: no loop  *)
(* leaves the arrays, between two requests they are the sets of Registry,   *)
(* and no write loses a member on the move or takes a last administrator.   *)
(*                                                                          *)
(*   1. loops: the least element of a set of numbers, and from it that a    *)
(*      loop has a last state;                                              *)
(*   2. lists: an array and its count, and the loop that shifts it;         *)
(*   3. runs: the memories after each write;                                *)
(*   4. what every function of user.c and group.c writes;                   *)
(*   5. the invariant and the theorems.                                     *)
EXTENDS Arrays, FiniteSetTheorems, SequenceTheorems, TLAPS

-----------------------------------------------------------------------------
(* 1. Loops.                                                               *)

\* A set of numbers has a least element.
LEMMA LeastNumber ==
  ASSUME NEW T \in SUBSET Nat, T # {}
  PROVE  \E x \in T : \A y \in T : x <= y
<1>1. PICK x \in T : \A y \in T : <<y, x>> \notin OpToRel(<, Nat)
  BY NatLessThanWellFounded, WFMin, Zenon
<1>2. \A y \in T : ~(y < x)
  BY <1>1 DEF OpToRel
<1> QED
  BY <1>2

\* What holds before a loop and is kept by each of its n turns holds after
\* every turn: T are the turns after which it does.
LEMMA LoopInduction ==
  ASSUME NEW n \in Nat, NEW T, 0 \in T,
         \A k \in 1 .. n : k - 1 \in T => k \in T
  PROVE  \A k \in 0 .. n : k \in T
<1> SUFFICES ASSUME {k \in 0 .. n : k \notin T} # {}
             PROVE  FALSE
  OBVIOUS
<1>1. PICK k \in {k \in 0 .. n : k \notin T} :
        \A j \in {j \in 0 .. n : j \notin T} : k <= j
  <2>1. {k \in 0 .. n : k \notin T} \in SUBSET Nat
    OBVIOUS
  <2> QED
    BY <2>1, LeastNumber
<1>2. k # 0 /\ k \in 1 .. n /\ k - 1 \in 0 .. n /\ ~(k <= k - 1)
  BY <1>1
<1> QED
  BY <1>1, <1>2

\* The states of a loop of n turns from s on: F[k] is what turn k does.
LoopOf(S, s, n, F) ==
    {f \in [0 .. n -> S] : f[0] = s /\ \A k \in 1 .. n : f[k] = F[k][f[k - 1]]}

LEMMA LoopStates ==
  ASSUME NEW S, NEW s \in S, NEW n \in Nat, NEW F \in [1 .. n -> [S -> S]]
  PROVE  LoopOf(S, s, n, F) # {}
<1> DEFINE IsRun(k, f) ==
             f[0] = s /\ \A j \in 1 .. k : f[j] = F[j][f[j - 1]]
           T == {k \in 0 .. n : \E f \in [0 .. k -> S] : IsRun(k, f)}
<1>1. 0 \in T
  <2>1. [j \in 0 .. 0 |-> s] \in [0 .. 0 -> S] /\ IsRun(0, [j \in 0 .. 0 |-> s])
    OBVIOUS
  <2>2. \E f \in [0 .. 0 -> S] : IsRun(0, f)
    BY <2>1, Zenon
  <2>3. 0 \in 0 .. n
    OBVIOUS
  <2> QED
    BY <2>2, <2>3
<1>2. ASSUME NEW k \in 1 .. n, k - 1 \in T
      PROVE  k \in T
  <2>1. PICK f \in [0 .. k - 1 -> S] : IsRun(k - 1, f)
    BY <1>2
  <2> DEFINE g == [j \in 0 .. k |-> IF j = k THEN F[k][f[k - 1]] ELSE f[j]]
  <2>2. k - 1 \in 0 .. k - 1 /\ f[k - 1] \in S
    OBVIOUS
  <2>3. F[k] \in [S -> S] /\ F[k][f[k - 1]] \in S
    BY <2>2
  <2>4. g \in [0 .. k -> S]
    BY <2>3
  <2>5. g[0] = s
    BY <2>1
  <2>6. ASSUME NEW j \in 1 .. k
        PROVE  g[j] = F[j][g[j - 1]]
    <3>1. CASE j = k
      BY <3>1
    <3>2. CASE j # k
      <4>1. j \in 1 .. k - 1 /\ g[j] = f[j] /\ g[j - 1] = f[j - 1]
        BY <3>2
      <4> QED
        BY <4>1, <2>1
    <3> QED
      BY <3>1, <3>2
  <2> HIDE DEF g
  <2>7. IsRun(k, g)
    BY <2>5, <2>6
  <2>8. \E h \in [0 .. k -> S] : IsRun(k, h)
    BY <2>4, <2>7, Zenon
  <2>9. k \in 0 .. n
    OBVIOUS
  <2> QED
    BY <2>8, <2>9
<1>3. n \in T
  <2> HIDE DEF T
  <2>1. \A k \in 0 .. n : k \in T
    BY <1>1, <1>2, LoopInduction
  <2> QED
    BY <2>1
<1> QED
  BY <1>3 DEF LoopOf

-----------------------------------------------------------------------------
(* 2. Lists.                                                               *)

Lists == [Entries -> Names \cup {NoName}]

\* The names in the first n entries.
NamesIn(list, n) == {list[i] : i \in 0 .. n - 1}

NoRepeat(list, n) ==
    \A i, j \in 0 .. n - 1 : list[i] = list[j] => i = j

\* The names in the first n entries without entry i.
Rest(list, n, i) == {list[j] : j \in (0 .. n - 1) \ {i}}

\* The search loops.
LEMMA Searches ==
  ASSUME NEW list \in Lists, NEW n \in 0 .. MaxClients, NEW u
  PROVE  /\ Positions(list, n, u) # {} <=> u \in NamesIn(list, n)
         /\ u \in NamesIn(list, n) =>
               /\ FirstOf(list, n, u) \in 0 .. n - 1
               /\ list[FirstOf(list, n, u)] = u
<1>1. Positions(list, n, u) # {} <=> u \in NamesIn(list, n)
  BY DEF Positions, NamesIn
<1>2. ASSUME u \in NamesIn(list, n)
      PROVE  FirstOf(list, n, u) \in Positions(list, n, u)
  <2>1. Positions(list, n, u) \in SUBSET Nat /\ Positions(list, n, u) # {}
    BY <1>1, <1>2 DEF Positions
  <2>2. \E i \in Positions(list, n, u) : \A j \in Positions(list, n, u) : i <= j
    BY <2>1, LeastNumber, Zenon
  <2> QED
    BY <2>2, Zenon DEF FirstOf
<1> QED
  BY <1>1, <1>2 DEF Positions

\* What the shifting loop has written after k turns.
LEMMA ShiftedByTurns ==
  ASSUME NEW list \in Lists, NEW n \in 0 .. MaxClients, NEW i \in 0 .. n - 1,
         NEW k \in 0 .. n - 1 - i
  PROVE  Shifted(list, i, k) =
           [j \in Entries |-> IF j \in i .. i + k - 1 THEN list[j + 1] ELSE list[j]]
<1> DEFINE By(c) == [j \in Entries |->
                       IF j \in i .. i + c - 1 THEN list[j + 1] ELSE list[j]]
           f == [c \in 0 .. k |-> By(c)]
           Loop(h) == [c \in 0 .. k |->
                         IF c = 0 THEN list
                         ELSE [h[c - 1] EXCEPT ![i + c - 1] = list[i + c]]]
           after == CHOOSE h : h = Loop(h)
           T == {c \in 0 .. k : after[c] = By(c)}
<1>1. /\ MaxClients \in Nat /\ k \in Nat /\ i \in Nat /\ i + k <= MaxClients - 1
      /\ list = [j \in Entries |-> list[j]]
  BY LimitsAssumption DEF Lists
<1>2. k \in Nat
  BY <1>1
<1>3. /\ 0 \in 0 .. k
      /\ \A c \in 1 .. k : c \in 0 .. k /\ c - 1 \in 0 .. k /\ c # 0
      /\ \A c \in 0 .. k : c # 0 => c \in 1 .. k /\ c - 1 \in 0 .. k
  BY <1>2
<1>4. Shifted(list, i, k) = after[k]
  BY DEF Shifted
<1>5. By(0) = list
  BY <1>1
<1>6. ASSUME NEW c \in 1 .. k
      PROVE  By(c) = [By(c - 1) EXCEPT ![i + c - 1] = list[i + c]]
  <2>1. i + c - 1 \in Entries /\ i + c - 1 + 1 = i + c
    BY <1>1 DEF Entries
  <2>2. ASSUME NEW j \in Entries
        PROVE  By(c)[j] = [By(c - 1) EXCEPT ![i + c - 1] = list[i + c]][j]
    <3>1. j \in Int
      BY DEF Entries
    <3>2. CASE j = i + c - 1
      <4>1. j \in i .. i + c - 1
        BY <1>1, <3>1, <3>2
      <4> QED
        BY <2>1, <3>2, <4>1
    <3>3. CASE j # i + c - 1
      <4>1. j \in i .. i + c - 1 <=> j \in i .. i + (c - 1) - 1
        BY <1>1, <3>1, <3>3
      <4> QED
        BY <2>1, <3>3, <4>1
    <3> QED
      BY <3>2, <3>3
  <2> QED
    BY <2>2
<1> HIDE DEF By
<1>7. f = Loop(f)
  <2>1. ASSUME NEW c \in 0 .. k
        PROVE  f[c] = Loop(f)[c]
    <3>1. CASE c = 0
      BY <1>5, <3>1
    <3>2. CASE c # 0
      <4>1. c \in 1 .. k /\ c - 1 \in 0 .. k
        BY <1>3, <3>2
      <4> QED
        BY <1>6, <3>2, <4>1
    <3> QED
      BY <3>1, <3>2
  <2> QED
    BY <2>1
<1>8. after = Loop(after)
  BY <1>7
<1> HIDE DEF after
<1>9. /\ after[0] = list
      /\ \A c \in 1 .. k : after[c] = [after[c - 1] EXCEPT ![i + c - 1] = list[i + c]]
  <2>1. after[0] = list
    BY <1>8, <1>3
  <2>2. ASSUME NEW c \in 1 .. k
        PROVE  after[c] = [after[c - 1] EXCEPT ![i + c - 1] = list[i + c]]
    <3>1. c \in 0 .. k /\ c # 0
      BY <1>3
    <3> QED
      BY <1>8, <3>1
  <2> QED
    BY <2>1, <2>2
<1>10. 0 \in T
  BY <1>5, <1>9, <1>3
<1>11. ASSUME NEW c \in 1 .. k, c - 1 \in T
      PROVE  c \in T
  <2>1. after[c - 1] = By(c - 1)
    BY <1>11
  <2>2. after[c] = By(c)
    BY <1>6, <1>9, <2>1
  <2> QED
    BY <1>3, <2>2
<1> HIDE DEF T
<1>12. \A c \in 0 .. k : c \in T
  BY <1>1, <1>10, <1>11, LoopInduction
<1>13. after[k] = By(k)
  BY <1>1, <1>12 DEF T
<1> QED
  BY <1>4, <1>13 DEF By

\* The entries after k turns of the shifting loop.
LEMMA ShiftedEntries ==
  ASSUME NEW list \in Lists, NEW n \in 0 .. MaxClients, NEW i \in 0 .. n - 1,
         NEW k \in 0 .. n - 1 - i
  PROVE  /\ Shifted(list, i, k) \in Lists
         /\ \A j \in 0 .. n - 1 :
               Shifted(list, i, k)[j] =
                  IF j \in i .. i + k - 1 THEN list[j + 1] ELSE list[j]
<1>1. MaxClients \in Nat
  BY LimitsAssumption
<1>2. i .. i + k - 1 \subseteq Entries /\ 0 .. n - 1 \subseteq Entries
      /\ \A j \in i .. i + k - 1 : j + 1 \in Entries
  BY <1>1 DEF Entries
<1>3. Shifted(list, i, k) =
        [j \in Entries |-> IF j \in i .. i + k - 1 THEN list[j + 1] ELSE list[j]]
  BY ShiftedByTurns
<1> QED
  BY <1>2, <1>3 DEF Lists

\* The shifting loop loses the name of entry i in its first turn (or when the
\* count goes down, if it is the last entry), and no other name ever.
LEMMA ShiftedNames ==
  ASSUME NEW list \in Lists, NEW n \in 0 .. MaxClients, NEW i \in 0 .. n - 1,
         NEW k \in 0 .. n - 1 - i
  PROVE  /\ k # 0 => NamesIn(Shifted(list, i, k), n) = Rest(list, n, i)
         /\ k = n - 1 - i =>
               NamesIn(Shifted(list, i, k), n - 1) = Rest(list, n, i)
         /\ NoRepeat(list, n) /\ k = n - 1 - i =>
               NoRepeat(Shifted(list, i, k), n - 1)
<1> DEFINE L == Shifted(list, i, k)
<1>1. \A j \in 0 .. n - 1 :
        L[j] = IF j \in i .. i + k - 1 THEN list[j + 1] ELSE list[j]
  BY ShiftedEntries
<1> HIDE DEF L
<1>2. ASSUME k # 0
      PROVE  NamesIn(L, n) = Rest(list, n, i)
  <2>1. ASSUME NEW j \in 0 .. n - 1
        PROVE  \E p \in (0 .. n - 1) \ {i} : L[j] = list[p]
    <3>1. CASE j \in i .. i + k - 1
      <4>1. j + 1 \in (0 .. n - 1) \ {i}
        BY <3>1
      <4> QED
        BY <4>1, <1>1, <3>1
    <3>2. CASE j \notin i .. i + k - 1
      <4>1. j # i
        BY <3>2, <1>2
      <4> QED
        BY <4>1, <1>1, <3>2
    <3> QED
      BY <3>1, <3>2
  <2>2. ASSUME NEW p \in (0 .. n - 1) \ {i}
        PROVE  \E j \in 0 .. n - 1 : L[j] = list[p]
    <3>1. CASE p \in i + 1 .. i + k
      <4>1. p - 1 \in 0 .. n - 1 /\ p - 1 \in i .. i + k - 1 /\ (p - 1) + 1 = p
        BY <3>1
      <4> QED
        BY <4>1, <1>1
    <3>2. CASE p \notin i + 1 .. i + k
      <4>1. p \notin i .. i + k - 1
        BY <3>2
      <4> QED
        BY <4>1, <1>1
    <3> QED
      BY <3>1, <3>2
  <2> QED
    BY <2>1, <2>2 DEF NamesIn, Rest
<1>3. ASSUME k = n - 1 - i
      PROVE  NamesIn(L, n - 1) = Rest(list, n, i)
  <2>1. \A j \in 0 .. n - 2 : L[j] = IF j < i THEN list[j] ELSE list[j + 1]
    BY <1>1, <1>3
  <2>2. ASSUME NEW j \in 0 .. n - 2
        PROVE  \E p \in (0 .. n - 1) \ {i} : L[j] = list[p]
    <3>1. CASE j < i
      BY <3>1, <2>1
    <3>2. CASE ~(j < i)
      <4>1. j + 1 \in (0 .. n - 1) \ {i}
        BY <3>2
      <4> QED
        BY <4>1, <2>1, <3>2
    <3> QED
      BY <3>1, <3>2
  <2>3. ASSUME NEW p \in (0 .. n - 1) \ {i}
        PROVE  \E j \in 0 .. n - 2 : L[j] = list[p]
    <3>1. CASE p < i
      <4>1. p \in 0 .. n - 2
        BY <3>1
      <4> QED
        BY <4>1, <2>1, <3>1
    <3>2. CASE ~(p < i)
      <4>1. p - 1 \in 0 .. n - 2 /\ ~(p - 1 < i) /\ (p - 1) + 1 = p
        BY <3>2
      <4> QED
        BY <4>1, <2>1
    <3> QED
      BY <3>1, <3>2
  <2>4. 0 .. (n - 1) - 1 = 0 .. n - 2
    OBVIOUS
  <2> QED
    BY <2>2, <2>3, <2>4 DEF NamesIn, Rest
<1>4. ASSUME NoRepeat(list, n), k = n - 1 - i
      PROVE  NoRepeat(L, n - 1)
  <2>1. \A j \in 0 .. n - 2 : L[j] = IF j < i THEN list[j] ELSE list[j + 1]
    BY <1>1, <1>4
  <2>2. ASSUME NEW j1 \in 0 .. n - 2, NEW j2 \in 0 .. n - 2, L[j1] = L[j2]
        PROVE  j1 = j2
    <3> DEFINE at(j) == IF j < i THEN j ELSE j + 1
    <3>1. /\ at(j1) \in 0 .. n - 1 /\ L[j1] = list[at(j1)]
          /\ at(j2) \in 0 .. n - 1 /\ L[j2] = list[at(j2)]
      BY <2>1
    <3> HIDE DEF at
    <3>2. at(j1) = at(j2)
      BY <3>1, <2>2, <1>4 DEF NoRepeat
    <3> QED
      BY <3>2 DEF at
  <2>3. 0 .. (n - 1) - 1 = 0 .. n - 2
    OBVIOUS
  <2> QED
    BY <2>2, <2>3 DEF NoRepeat
<1> QED
  BY <1>2, <1>3, <1>4 DEF L

\* What is left of a list without repetition.
LEMMA RestOfDistinct ==
  ASSUME NEW list, NEW n \in Nat, NEW i \in 0 .. n - 1, NoRepeat(list, n)
  PROVE  Rest(list, n, i) = NamesIn(list, n) \ {list[i]}
BY DEF Rest, NamesIn, NoRepeat

\* What is written behind the last entry is not seen until the count goes up.
LEMMA Appended ==
  ASSUME NEW list \in Lists, NEW n \in 0 .. MaxClients, n < MaxClients,
         NEW u \in Names
  PROVE  LET L == [list EXCEPT ![n] = u]
         IN  /\ L \in Lists
             /\ NamesIn(L, n) = NamesIn(list, n)
             /\ NamesIn(L, n + 1) = NamesIn(list, n) \cup {u}
             /\ NoRepeat(list, n) => NoRepeat(L, n)
             /\ NoRepeat(list, n) /\ u \notin NamesIn(list, n) =>
                   NoRepeat(L, n + 1)
<1> DEFINE L == [list EXCEPT ![n] = u]
<1>1. n \in Entries /\ 0 .. n - 1 \subseteq Entries /\ n \in Nat
  BY LimitsAssumption DEF Entries
<1>2. L \in Lists /\ L[n] = u /\ \A i \in 0 .. n - 1 : L[i] = list[i]
  BY <1>1 DEF Lists
<1> HIDE DEF L
<1>3. 0 .. (n + 1) - 1 = (0 .. n - 1) \cup {n}
  BY <1>1
<1>4. NamesIn(L, n) = NamesIn(list, n)
  BY <1>2 DEF NamesIn
<1>5. NamesIn(L, n + 1) = NamesIn(list, n) \cup {u}
  BY <1>2, <1>3 DEF NamesIn
<1>6. NoRepeat(list, n) => NoRepeat(L, n)
  BY <1>2 DEF NoRepeat
<1>7. NoRepeat(list, n) /\ u \notin NamesIn(list, n) => NoRepeat(L, n + 1)
  BY <1>2, <1>3 DEF NoRepeat, NamesIn
<1> QED
  BY <1>2, <1>4, <1>5, <1>6, <1>7 DEF L

\* The count of a list without repetition is the number of its names.
LEMMA CountOfNames ==
  ASSUME NEW list, NEW n \in Nat, NoRepeat(list, n)
  PROVE  IsFiniteSet(NamesIn(list, n)) /\ Cardinality(NamesIn(list, n)) = n
<1> DEFINE f == [i \in 0 .. n - 1 |-> list[i]]
<1>1. IsFiniteSet(0 .. n - 1) /\ Cardinality(0 .. n - 1) = n
  BY FS_Interval
<1>2. f \in Bijection(0 .. n - 1, NamesIn(list, n))
  <2>1. f \in [0 .. n - 1 -> NamesIn(list, n)]
    BY DEF NamesIn
  <2>2. \A i, j \in 0 .. n - 1 : f[i] = f[j] => i = j
    BY DEF NoRepeat
  <2>3. \A u \in NamesIn(list, n) : \E i \in 0 .. n - 1 : f[i] = u
    BY DEF NamesIn
  <2> HIDE DEF f
  <2>4. f \in Injection(0 .. n - 1, NamesIn(list, n))
    BY <2>1, <2>2 DEF Injection, IsInjective
  <2>5. f \in Surjection(0 .. n - 1, NamesIn(list, n))
    BY <2>1, <2>3 DEF Surjection
  <2> QED
    BY <2>4, <2>5 DEF Bijection
<1>3. ExistsBijection(0 .. n - 1, NamesIn(list, n))
  BY <1>2 DEF ExistsBijection
<1> QED
  BY <1>1, <1>3, FS_Bijection

\* A list that misses somebody is not full.
LEMMA RoomForOneMore ==
  ASSUME NEW list, NEW n \in Nat, NoRepeat(list, n),
         NamesIn(list, n) \subseteq Names,
         NEW u \in Names, u \notin NamesIn(list, n)
  PROVE  n < MaxClients
<1>1. /\ Cardinality(NamesIn(list, n)) = n
      /\ IsFiniteSet(NamesIn(list, n))
  BY CountOfNames
<1>2. /\ Cardinality(NamesIn(list, n)) <= Cardinality(Names)
      /\ Cardinality(Names) = Cardinality(NamesIn(list, n)) =>
            Names = NamesIn(list, n)
  BY FS_Subset, NamesAssumption
<1>3. Cardinality(Names) \in Nat /\ MaxClients \in Nat
  BY FS_CardinalityType, NamesAssumption, LimitsAssumption
<1> QED
  BY <1>1, <1>2, <1>3, EverybodyFits

-----------------------------------------------------------------------------
(* 3. Runs.                                                                *)

UserEntries == [active : BOOLEAN, current_group : Groups \cup {NoGroup}]

GroupEntries == [known : BOOLEAN, active : BOOLEAN,
                 users : Lists, user_count : 0 .. MaxClients,
                 admins : Lists, admin_count : 0 .. MaxClients]

Memories == [users : [Names -> UserEntries], groups : [Groups -> GroupEntries]]

UsersOf(G) == NamesIn(G.users, G.user_count)

AdminsOf(G) == NamesIn(G.admins, G.admin_count)

Filled(G) == UsersOf(G) \subseteq Names /\ AdminsOf(G) \subseteq Names

\* The memories without holes.
Sound == {m \in Memories : \A g \in Groups : Filled(m.groups[g])}

Runs == Seq(Sound) \ {<<>>}

Members(m, g) == UsersOf(m.groups[g])

Admins(m, g) == AdminsOf(m.groups[g])

\* A group that exists, had an administrator and still exists has one.
KeepsAdmins(m, w) ==
    \A g \in Groups :
        Live(m, g) /\ Admins(m, g) # {} /\ Live(w, g) => Admins(w, g) # {}

Inside(m) == {u \in Names : InSomeGroup(m, u)}

\* The writes after which everybody who was in some group still is, and those
\* that bring nobody into a first group.
Up == {p \in Sound \X Sound :
         Inside(p[1]) \subseteq Inside(p[2]) /\ KeepsAdmins(p[1], p[2])}

Down == {p \in Sound \X Sound :
           Inside(p[2]) \subseteq Inside(p[1]) /\ KeepsAdmins(p[1], p[2])}

\* Every write of the run is in R.
Chain(run, R) == \A k \in 1 .. Len(run) - 1 : <<run[k], run[k + 1]>> \in R

\* Up first, then down.
Hill(run) ==
    \E p \in 1 .. Len(run) :
        /\ \A k \in 1 .. p - 1 : <<run[k], run[k + 1]>> \in Up
        /\ \A k \in p .. Len(run) - 1 : <<run[k], run[k + 1]>> \in Down

\* Membership and rights are what the search loops find.
LEMMA Found ==
  ASSUME NEW m \in Sound, NEW g \in Groups, NEW u
  PROVE  /\ Listed(m, g, u) <=> u \in Members(m, g)
         /\ HasRight(m, g, u) <=> u \in Admins(m, g)
BY Searches DEF Sound, Memories, GroupEntries, Listed, HasRight, Members, Admins,
                UsersOf, AdminsOf

GroupWrite(m, g, G) == [m EXCEPT !.groups[g] = G]

UserWrite(m, u, U) == [m EXCEPT !.users[u] = U]

\* A write to one group.
LEMMA GroupWritten ==
  ASSUME NEW m \in Sound, NEW g \in Groups, NEW G \in GroupEntries, Filled(G)
  PROVE  LET w == GroupWrite(m, g, G)
         IN  /\ w \in Sound
             /\ w.users = m.users
             /\ w.groups[g] = G
             /\ \A h \in Groups \ {g} : w.groups[h] = m.groups[h]
<1> DEFINE w == GroupWrite(m, g, G)
<1>1. m.groups \in [Groups -> GroupEntries]
  BY DEF Sound, Memories
<1>2. w \in Memories /\ w.users = m.users /\ w.groups = [m.groups EXCEPT ![g] = G]
  BY DEF Sound, Memories, GroupWrite
<1> HIDE DEF w
<1>3. w.groups[g] = G /\ \A h \in Groups \ {g} : w.groups[h] = m.groups[h]
  BY <1>1, <1>2
<1>4. \A h \in Groups : Filled(w.groups[h])
  BY <1>3 DEF Sound
<1> QED
  BY <1>2, <1>3, <1>4 DEF w, Sound

\* A write to one user.
LEMMA UserWritten ==
  ASSUME NEW m \in Sound, NEW u \in Names, NEW U \in UserEntries
  PROVE  LET w == UserWrite(m, u, U)
         IN  /\ w \in Sound
             /\ w.groups = m.groups
             /\ w.users[u] = U
             /\ \A v \in Names \ {u} : w.users[v] = m.users[v]
<1> DEFINE w == UserWrite(m, u, U)
<1>1. m.users \in [Names -> UserEntries]
  BY DEF Sound, Memories
<1>2. w \in Memories /\ w.groups = m.groups /\ w.users = [m.users EXCEPT ![u] = U]
  BY DEF Sound, Memories, UserWrite
<1> HIDE DEF w
<1>3. w.users[u] = U /\ \A v \in Names \ {u} : w.users[v] = m.users[v]
  BY <1>1, <1>2
<1> QED
  BY <1>2, <1>3 DEF w, Sound

\* Who is in some group, in terms of the lists.
LEMMA WhoIsInside ==
  ASSUME NEW m \in Sound
  PROVE  \A u \in Names :
            u \in Inside(m) <=> \E g \in Groups : Live(m, g) /\ u \in Members(m, g)
BY Found DEF Inside, InSomeGroup

\* A write to one group goes up or down by what it does to that group.
LEMMA StepOfGroup ==
  ASSUME NEW m \in Sound, NEW w \in Sound, NEW g \in Groups,
         \A h \in Groups \ {g} : w.groups[h] = m.groups[h],
         Live(m, g) /\ Admins(m, g) # {} /\ Live(w, g) => Admins(w, g) # {}
  PROVE  /\ (Live(m, g) => Live(w, g) /\ Members(m, g) \subseteq Members(w, g))
               => <<m, w>> \in Up
         /\ (Live(w, g) => Live(m, g) /\ Members(w, g) \subseteq Members(m, g))
               => <<m, w>> \in Down
<1>1. \A h \in Groups \ {g} :
         /\ Live(w, h) <=> Live(m, h)
         /\ Members(w, h) = Members(m, h)
         /\ Admins(w, h) = Admins(m, h)
  BY DEF Live, Members, Admins
<1>2. KeepsAdmins(m, w)
  BY <1>1 DEF KeepsAdmins
<1>3. ASSUME Live(m, g) => Live(w, g) /\ Members(m, g) \subseteq Members(w, g)
      PROVE  Inside(m) \subseteq Inside(w)
  <2> SUFFICES ASSUME NEW u \in Names, u \in Inside(m)
               PROVE  u \in Inside(w)
    BY DEF Inside
  <2>1. PICK h \in Groups : Live(m, h) /\ u \in Members(m, h)
    BY WhoIsInside
  <2>2. Live(w, h) /\ u \in Members(w, h)
    BY <1>1, <1>3, <2>1
  <2> QED
    BY <2>2, WhoIsInside
<1>4. ASSUME Live(w, g) => Live(m, g) /\ Members(w, g) \subseteq Members(m, g)
      PROVE  Inside(w) \subseteq Inside(m)
  <2> SUFFICES ASSUME NEW u \in Names, u \in Inside(w)
               PROVE  u \in Inside(m)
    BY DEF Inside
  <2>1. PICK h \in Groups : Live(w, h) /\ u \in Members(w, h)
    BY WhoIsInside
  <2>2. Live(m, h) /\ u \in Members(m, h)
    BY <1>1, <1>4, <2>1
  <2> QED
    BY <2>2, WhoIsInside
<1> QED
  BY <1>2, <1>3, <1>4 DEF Up, Down

\* A write to the users does both.
LEMMA StepOfUsers ==
  ASSUME NEW m \in Sound, NEW w \in Sound, w.groups = m.groups
  PROVE  <<m, w>> \in Up /\ <<m, w>> \in Down
<1>1. Inside(w) = Inside(m) /\ KeepsAdmins(m, w)
  BY DEF Inside, InSomeGroup, Live, Listed, KeepsAdmins, Admins
<1> QED
  BY <1>1 DEF Up, Down

\* A run is not empty.
LEMMA NowIsSound ==
  ASSUME NEW run \in Runs
  PROVE  Len(run) \in Nat \ {0} /\ Now(run) \in Sound
BY EmptySeq, ElementOfSeq DEF Runs, Now

\* One more write.
LEMMA NextWrite ==
  ASSUME NEW run \in Runs, NEW w \in Sound
  PROVE  /\ Append(run, w) \in Runs
         /\ Now(Append(run, w)) = w
         /\ Len(Append(run, w)) = Len(run) + 1
         /\ Append(run, w)[1] = run[1]
         /\ \A k \in 1 .. Len(run) : Append(run, w)[k] = run[k]
         /\ \A R : Chain(run, R) /\ <<Now(run), w>> \in R =>
                      Chain(Append(run, w), R)
<1> DEFINE r == Append(run, w)
<1>1. run \in Seq(Sound) /\ Len(run) \in Nat \ {0}
  BY NowIsSound DEF Runs
<1>2. /\ r \in Seq(Sound)
      /\ Len(r) = Len(run) + 1
      /\ \A k \in 1 .. Len(run) : r[k] = run[k]
      /\ r[Len(run) + 1] = w
  BY <1>1
<1> HIDE DEF r
<1>3. r \in Runs
  <2>1. r # <<>>
    BY <1>1, <1>2, EmptySeq
  <2> QED
    BY <1>2, <2>1 DEF Runs
<1>4. Now(r) = w /\ r[1] = run[1]
  BY <1>1, <1>2 DEF Now
<1>5. ASSUME NEW R, Chain(run, R), <<Now(run), w>> \in R
      PROVE  Chain(r, R)
  <2> SUFFICES ASSUME NEW k \in 1 .. Len(run)
               PROVE  <<r[k], r[k + 1]>> \in R
    BY <1>1, <1>2 DEF Chain
  <2>1. CASE k = Len(run)
    BY <2>1, <1>1, <1>2, <1>5 DEF Now
  <2>2. CASE k # Len(run)
    <3>1. k \in 1 .. Len(run) - 1 /\ k + 1 \in 1 .. Len(run)
      BY <2>2, <1>1
    <3> QED
      BY <3>1, <1>2, <1>5 DEF Chain
  <2> QED
    BY <2>1, <2>2
<1> QED
  BY <1>2, <1>3, <1>4, <1>5 DEF r

\* A run that goes down from where it was.
LEMMA HillGoesDown ==
  ASSUME NEW run \in Runs, NEW r \in Runs, Len(r) >= Len(run),
         \A k \in 1 .. Len(run) : r[k] = run[k],
         \A k \in Len(run) .. Len(r) - 1 : <<r[k], r[k + 1]>> \in Down,
         Hill(run)
  PROVE  Hill(r)
<1>1. Len(run) \in Nat \ {0} /\ Len(r) \in Nat \ {0}
  BY NowIsSound
<1>2. PICK p \in 1 .. Len(run) :
         /\ \A k \in 1 .. p - 1 : <<run[k], run[k + 1]>> \in Up
         /\ \A k \in p .. Len(run) - 1 : <<run[k], run[k + 1]>> \in Down
  BY DEF Hill
<1>3. p \in 1 .. Len(r)
  BY <1>1
<1>4. ASSUME NEW k \in 1 .. p - 1
      PROVE  <<r[k], r[k + 1]>> \in Up
  <2>1. k \in 1 .. Len(run) /\ k + 1 \in 1 .. Len(run)
    BY <1>1
  <2> QED
    BY <2>1, <1>2
<1>5. ASSUME NEW k \in p .. Len(r) - 1
      PROVE  <<r[k], r[k + 1]>> \in Down
  <2>1. CASE k < Len(run)
    <3>1. /\ k \in 1 .. Len(run) /\ k + 1 \in 1 .. Len(run)
          /\ k \in p .. Len(run) - 1
      BY <1>1, <2>1
    <3>2. <<run[k], run[k + 1]>> \in Down
      BY <3>1, <1>2
    <3> QED
      BY <3>1, <3>2
  <2>2. CASE ~(k < Len(run))
    <3>1. k \in Len(run) .. Len(r) - 1
      BY <1>1, <2>2
    <3> QED
      BY <3>1
  <2> QED
    BY <2>1, <2>2
<1> QED
  BY <1>3, <1>4, <1>5 DEF Hill

LEMMA ClimbIsHill ==
  ASSUME NEW run \in Runs, Chain(run, Up)
  PROVE  Hill(run)
<1>1. Len(run) \in 1 .. Len(run)
  BY NowIsSound
<1>2. \A k \in Len(run) .. Len(run) - 1 : <<run[k], run[k + 1]>> \in Down
  BY <1>1
<1>3. \A k \in 1 .. Len(run) - 1 : <<run[k], run[k + 1]>> \in Up
  BY DEF Chain
<1> QED
  BY <1>1, <1>2, <1>3 DEF Hill

LEMMA OneWrite ==
  ASSUME NEW run \in Runs, NEW w \in Sound
  PROVE  run \o <<w>> = Append(run, w)
BY DEF Runs

LEMMA TwoWrites ==
  ASSUME NEW run \in Runs, NEW w1 \in Sound, NEW w2 \in Sound
  PROVE  run \o <<w1, w2>> = Append(Append(run, w1), w2)
<1> run \in Seq(Sound)
  BY DEF Runs
<1> QED
  OBVIOUS

LEMMA ThreeWrites ==
  ASSUME NEW run \in Runs, NEW w1 \in Sound, NEW w2 \in Sound, NEW w3 \in Sound
  PROVE  run \o <<w1, w2, w3>> = Append(Append(Append(run, w1), w2), w3)
<1> run \in Seq(Sound)
  BY DEF Runs
<1> QED
  OBVIOUS

\* The writes of a loop.
LEMMA ManyWrites ==
  ASSUME NEW run \in Runs, NEW s \in Seq(Sound)
  PROVE  /\ run \o s \in Runs
         /\ Len(run \o s) = Len(run) + Len(s)
         /\ (run \o s)[1] = run[1]
         /\ \A k \in 1 .. Len(run) : (run \o s)[k] = run[k]
         /\ Now(run \o s) = IF s = <<>> THEN Now(run) ELSE s[Len(s)]
         /\ \A R : Chain(s, R) /\ (s # <<>> => <<Now(run), s[1]>> \in R) =>
               /\ Chain(run, R) => Chain(run \o s, R)
               /\ \A k \in Len(run) .. Len(run \o s) - 1 :
                     <<(run \o s)[k], (run \o s)[k + 1]>> \in R
<1> DEFINE r == run \o s
<1>1. run \in Seq(Sound) /\ Len(run) \in Nat \ {0} /\ Len(s) \in Nat
  BY NowIsSound DEF Runs
<1>2. /\ r \in Seq(Sound)
      /\ Len(r) = Len(run) + Len(s)
      /\ \A k \in 1 .. Len(run) + Len(s) :
            r[k] = IF k <= Len(run) THEN run[k] ELSE s[k - Len(run)]
  BY <1>1, ConcatProperties
<1>3. s # <<>> => Len(s) > 0
  BY <1>1, EmptySeq
<1> HIDE DEF r
<1>4. r \in Runs
  <2>1. r # <<>>
    BY <1>1, <1>2, EmptySeq
  <2> QED
    BY <1>2, <2>1 DEF Runs
<1>5. r[1] = run[1] /\ \A k \in 1 .. Len(run) : r[k] = run[k]
  BY <1>1, <1>2
<1>6. Now(r) = IF s = <<>> THEN Now(run) ELSE s[Len(s)]
  <2>1. CASE s = <<>>
    <3>1. Len(s) = 0
      BY <2>1
    <3> QED
      BY <2>1, <3>1, <1>1, <1>2 DEF Now
  <2>2. CASE s # <<>>
    <3>1. /\ Len(r) \in 1 .. Len(run) + Len(s) /\ ~(Len(r) <= Len(run))
          /\ Len(r) - Len(run) = Len(s)
      BY <2>2, <1>1, <1>2, <1>3
    <3>2. r[Len(r)] = s[Len(r) - Len(run)]
      BY <3>1, <1>2
    <3> QED
      BY <2>2, <3>1, <3>2 DEF Now
  <2> QED
    BY <2>1, <2>2
<1>7. ASSUME NEW R, Chain(s, R), s # <<>> => <<Now(run), s[1]>> \in R,
             NEW k \in Len(run) .. Len(r) - 1
      PROVE  <<r[k], r[k + 1]>> \in R
  <2>1. CASE k = Len(run)
    <3>1. Len(s) > 0
      BY <2>1, <1>1, <1>2
    <3>2. r[k] = run[k]
      BY <2>1, <3>1, <1>1, <1>2
    <3>3. /\ k + 1 \in 1 .. Len(run) + Len(s) /\ ~(k + 1 <= Len(run))
          /\ (k + 1) - Len(run) = 1
      BY <2>1, <3>1, <1>1
    <3>4. r[k + 1] = s[(k + 1) - Len(run)]
      BY <3>3, <1>2
    <3>5. r[k + 1] = s[1] /\ s # <<>>
      BY <3>1, <3>3, <3>4
    <3> QED
      BY <2>1, <3>2, <3>5, <1>7 DEF Now
  <2>2. CASE k > Len(run)
    <3> DEFINE j == k - Len(run)
    <3>1. j \in 1 .. Len(s) - 1 /\ r[k] = s[j] /\ r[k + 1] = s[j + 1]
      BY <2>2, <1>1, <1>2
    <3> QED
      BY <3>1, <1>7 DEF Chain
  <2> QED
    BY <2>1, <2>2, <1>1
<1>8. ASSUME NEW R, Chain(run, R),
             \A k \in Len(run) .. Len(r) - 1 : <<r[k], r[k + 1]>> \in R
      PROVE  Chain(r, R)
  <2> SUFFICES ASSUME NEW k \in 1 .. Len(r) - 1
               PROVE  <<r[k], r[k + 1]>> \in R
    BY DEF Chain
  <2>1. CASE k < Len(run)
    <3>1. /\ k \in 1 .. Len(run) - 1 /\ k \in 1 .. Len(run)
          /\ k + 1 \in 1 .. Len(run)
      BY <2>1, <1>1
    <3> QED
      BY <3>1, <1>5, <1>8 DEF Chain
  <2>2. CASE ~(k < Len(run))
    <3>1. k \in Len(run) .. Len(r) - 1
      BY <2>2, <1>1, <1>2
    <3> QED
      BY <3>1, <1>8
  <2> QED
    BY <2>1, <2>2
<1> QED
  BY <1>2, <1>4, <1>5, <1>6, <1>7, <1>8 DEF r

-----------------------------------------------------------------------------
(* 4. What every function writes.                                          *)

\* r is run with the writes of a function behind it.
Follows(run, r) == r \in Runs /\ r[1] = run[1] /\ Len(r) >= Len(run)

Climbs(run, r) == Chain(run, Up) => Chain(r, Up)

Descends(run, r) == Hill(run) => Hill(r)

\* What the memories before and after the writes have in common.
OnlyGroup(m, w, g) ==
    w.users = m.users /\ \A h \in Groups \ {g} : w.groups[h] = m.groups[h]

OnlyUser(m, w, u) ==
    w.groups = m.groups /\ \A v \in Names \ {u} : w.users[v] = m.users[v]

\* What a write to a group may do for the run to go up, or down.
Exists(G) == G.known /\ G.active

KeepsRights(H, G) ==
    Exists(H) /\ AdminsOf(H) # {} /\ Exists(G) => AdminsOf(G) # {}

Rises(H, G) ==
    /\ KeepsRights(H, G)
    /\ Exists(H) => Exists(G) /\ UsersOf(H) \subseteq UsersOf(G)

Falls(H, G) ==
    /\ KeepsRights(H, G)
    /\ Exists(G) => Exists(H) /\ UsersOf(G) \subseteq UsersOf(H)

LEMMA LastGoesDown ==
  ASSUME NEW run \in Runs, NEW r \in Runs, Len(r) = Len(run) + 1,
         \A k \in 1 .. Len(run) : r[k] = run[k],
         <<Now(run), Now(r)>> \in Down
  PROVE  Descends(run, r)
<1>1. Len(run) \in Nat \ {0} /\ Len(r) >= Len(run)
  BY NowIsSound
<1>2. \A k \in Len(run) .. Len(r) - 1 : k = Len(run)
  BY <1>1
<1>3. <<r[Len(run)], r[Len(run) + 1]>> \in Down
  BY <1>1 DEF Now
<1>4. \A k \in Len(run) .. Len(r) - 1 : <<r[k], r[k + 1]>> \in Down
  BY <1>2, <1>3
<1> QED
  BY <1>1, <1>4, HillGoesDown DEF Descends

\* One write to a group: its slot becomes G.
LEMMA GroupStep ==
  ASSUME NEW run \in Runs, NEW g \in Groups, NEW G \in GroupEntries, Filled(G)
  PROVE  LET m == Now(run)
             w == GroupWrite(m, g, G)
             r == Append(run, w)
         IN  /\ Follows(run, r)
             /\ Len(r) = Len(run) + 1
             /\ w \in Sound
             /\ Now(r) = w
             /\ OnlyGroup(m, w, g)
             /\ w.groups[g] = G
             /\ Rises(m.groups[g], G) => Climbs(run, r)
             /\ Falls(m.groups[g], G) => Descends(run, r)
<1> DEFINE m == Now(run)
           w == GroupWrite(m, g, G)
           r == Append(run, w)
<1>1. m \in Sound /\ Len(run) \in Nat
  BY NowIsSound
<1> HIDE DEF m
<1>2. /\ w \in Sound /\ w.users = m.users /\ w.groups[g] = G
      /\ \A h \in Groups \ {g} : w.groups[h] = m.groups[h]
  BY <1>1, GroupWritten
<1> HIDE DEF w
<1>3. /\ r \in Runs /\ Now(r) = w /\ Len(r) = Len(run) + 1 /\ r[1] = run[1]
      /\ \A k \in 1 .. Len(run) : r[k] = run[k]
      /\ \A R : Chain(run, R) /\ <<m, w>> \in R => Chain(r, R)
  BY <1>2, NextWrite DEF m
<1> HIDE DEF r
<1>4. Follows(run, r)
  BY <1>1, <1>3 DEF Follows
<1>5. Rises(m.groups[g], G) => <<m, w>> \in Up
  BY <1>1, <1>2, StepOfGroup
     DEF Rises, KeepsRights, Exists, Members, Admins, Live
<1>6. Falls(m.groups[g], G) => <<m, w>> \in Down
  BY <1>1, <1>2, StepOfGroup
     DEF Falls, KeepsRights, Exists, Members, Admins, Live
<1>7. Rises(m.groups[g], G) => Climbs(run, r)
  BY <1>3, <1>5 DEF Climbs
<1>8. Falls(m.groups[g], G) => Descends(run, r)
  BY <1>1, <1>3, <1>6, LastGoesDown DEF m
<1> QED
  BY <1>2, <1>3, <1>4, <1>7, <1>8 DEF OnlyGroup, m, w, r

\* One write to a user.
LEMMA UserStep ==
  ASSUME NEW run \in Runs, NEW u \in Names, NEW U \in UserEntries
  PROVE  LET m == Now(run)
             w == UserWrite(m, u, U)
             r == Append(run, w)
         IN  /\ Follows(run, r)
             /\ Len(r) = Len(run) + 1
             /\ Now(r) = w
             /\ OnlyUser(m, w, u)
             /\ w.users[u] = U
             /\ Climbs(run, r)
             /\ Descends(run, r)
<1> DEFINE m == Now(run)
           w == UserWrite(m, u, U)
           r == Append(run, w)
<1>1. m \in Sound /\ Len(run) \in Nat
  BY NowIsSound
<1> HIDE DEF m
<1>2. /\ w \in Sound /\ w.groups = m.groups /\ w.users[u] = U
      /\ \A v \in Names \ {u} : w.users[v] = m.users[v]
  BY <1>1, UserWritten
<1> HIDE DEF w
<1>3. /\ r \in Runs /\ Now(r) = w /\ Len(r) = Len(run) + 1 /\ r[1] = run[1]
      /\ \A k \in 1 .. Len(run) : r[k] = run[k]
      /\ \A R : Chain(run, R) /\ <<m, w>> \in R => Chain(r, R)
  BY <1>2, NextWrite DEF m
<1> HIDE DEF r
<1>4. Follows(run, r)
  BY <1>1, <1>3 DEF Follows
<1>5. <<m, w>> \in Up /\ <<m, w>> \in Down
  BY <1>1, <1>2, StepOfUsers
<1>6. Climbs(run, r)
  BY <1>3, <1>5 DEF Climbs
<1>7. Descends(run, r)
  BY <1>1, <1>3, <1>5, LastGoesDown DEF m
<1> QED
  BY <1>2, <1>3, <1>4, <1>6, <1>7 DEF OnlyUser, m, w, r

LEMMA FollowsFurther ==
  ASSUME NEW run \in Runs, NEW r1, NEW r2, Follows(run, r1), Follows(r1, r2)
  PROVE  /\ Follows(run, r2)
         /\ Climbs(run, r1) /\ Climbs(r1, r2) => Climbs(run, r2)
         /\ Descends(run, r1) /\ Descends(r1, r2) => Descends(run, r2)
<1>1. Len(run) \in Nat /\ Len(r1) \in Nat /\ Len(r2) \in Nat
  BY NowIsSound DEF Follows
<1> QED
  BY <1>1 DEF Follows, Climbs, Descends

LEMMA FollowsItself ==
  ASSUME NEW run \in Runs
  PROVE  Follows(run, run) /\ Climbs(run, run) /\ Descends(run, run)
BY NowIsSound DEF Follows, Climbs, Descends

\* The slot of a group in a run.
LEMMA SlotOf ==
  ASSUME NEW run \in Runs, NEW g \in Groups
  PROVE  /\ Now(run) \in Sound
         /\ Now(run).groups[g] \in GroupEntries
         /\ Filled(Now(run).groups[g])
BY NowIsSound DEF Sound, Memories

\* A group with somebody behind the list of its members.
PlusUser(G, u) == [G EXCEPT !.users = [@ EXCEPT ![G.user_count] = u],
                            !.user_count = @ + 1]

PlusAdmin(G, u) == [G EXCEPT !.admins = [@ EXCEPT ![G.admin_count] = u],
                             !.admin_count = @ + 1]

LEMMA AppendUserWrites ==
  ASSUME NEW run \in Runs, NEW g \in Groups, NEW u \in Names,
         Now(run).groups[g].user_count < MaxClients
  PROVE  LET r == AppendUser(run, g, u)
         IN  /\ Follows(run, r)
             /\ Len(r) > Len(run)
             /\ Climbs(run, r)
             /\ OnlyGroup(Now(run), Now(r), g)
             /\ Now(r).groups[g] = PlusUser(Now(run).groups[g], u)
<1> DEFINE m  == Now(run)
           G  == m.groups[g]
           n  == G.user_count
           L  == [G.users EXCEPT ![n] = u]
           G1 == [G EXCEPT !.users = L]
           G2 == [G EXCEPT !.users = L, !.user_count = n + 1]
           w1 == GroupWrite(m, g, G1)
           w2 == GroupWrite(w1, g, G2)
           r1 == Append(run, w1)
           r2 == Append(r1, w2)
<1>1. m \in Sound /\ G \in GroupEntries /\ Filled(G)
  BY SlotOf
<1> HIDE DEF m
<1> HIDE DEF G
<1>2. /\ G.users \in Lists /\ n \in 0 .. MaxClients /\ n < MaxClients
      /\ n + 1 \in 0 .. MaxClients
  BY <1>1, LimitsAssumption DEF GroupEntries, m, G
<1> HIDE DEF n
<1>3. /\ L \in Lists
      /\ NamesIn(L, n) = NamesIn(G.users, n)
      /\ NamesIn(L, n + 1) = NamesIn(G.users, n) \cup {u}
  BY <1>2, Appended
<1>4. AppendUser(run, g, u) = run \o <<w1, w2>>
  <2>1. w1 = [m EXCEPT !.groups[g].users[n] = u]
    BY DEF G, GroupWrite
  <2>2. w2 = [w1 EXCEPT !.groups[g].user_count = n + 1]
    <3>1. w1.groups[g] = G1
      BY <1>1 DEF Sound, Memories, GroupWrite
    <3>2. G2 = [G1 EXCEPT !.user_count = n + 1]
      BY <1>1 DEF GroupEntries
    <3> QED
      BY <3>1, <3>2 DEF GroupWrite
  <2> QED
    BY <2>1, <2>2 DEF AppendUser, m, n, G
<1> HIDE DEF L
<1>5. /\ G1 \in GroupEntries
      /\ UsersOf(G1) = UsersOf(G) /\ AdminsOf(G1) = AdminsOf(G)
      /\ Exists(G1) <=> Exists(G)
  BY <1>1, <1>2, <1>3 DEF GroupEntries, UsersOf, AdminsOf, Exists, n
<1>6. /\ G2 \in GroupEntries
      /\ UsersOf(G2) = UsersOf(G) \cup {u} /\ AdminsOf(G2) = AdminsOf(G)
      /\ Exists(G2) <=> Exists(G)
  BY <1>1, <1>2, <1>3 DEF GroupEntries, UsersOf, AdminsOf, Exists, n
<1> HIDE DEF G1, G2
<1>7. Filled(G1) /\ Filled(G2) /\ Rises(G, G1) /\ Rises(G1, G2)
  BY <1>1, <1>5, <1>6 DEF Filled, Rises, KeepsRights
<1>8. /\ Follows(run, r1) /\ Len(r1) = Len(run) + 1 /\ w1 \in Sound
      /\ Now(r1) = w1 /\ OnlyGroup(m, w1, g) /\ w1.groups[g] = G1
      /\ Climbs(run, r1)
  BY <1>5, <1>7, GroupStep DEF m, G
<1>9. r1 \in Runs /\ Now(r1) = w1
  BY <1>8 DEF Follows
<1> HIDE DEF w1, r1
<1>10. /\ Follows(r1, r2) /\ Len(r2) = Len(r1) + 1 /\ w2 \in Sound
       /\ Now(r2) = w2 /\ OnlyGroup(w1, w2, g) /\ w2.groups[g] = G2
       /\ Climbs(r1, r2)
  BY <1>6, <1>7, <1>8, <1>9, GroupStep
<1> HIDE DEF w2, r2
<1>11. AppendUser(run, g, u) = r2
  BY <1>4, <1>8, <1>10, TwoWrites DEF r1, r2
<1>12. Follows(run, r2) /\ Climbs(run, r2)
  BY <1>8, <1>9, <1>10, FollowsFurther
<1>13. Len(r2) > Len(run)
  BY <1>8, <1>10, NowIsSound
<1>14. OnlyGroup(m, w2, g)
  BY <1>8, <1>10 DEF OnlyGroup
<1>15. G2 = PlusUser(G, u)
  BY DEF G2, L, n, PlusUser
<1> QED
  BY <1>10, <1>11, <1>12, <1>13, <1>14, <1>15 DEF m, G

LEMMA AppendAdminWrites ==
  ASSUME NEW run \in Runs, NEW g \in Groups, NEW u \in Names,
         Now(run).groups[g].admin_count < MaxClients
  PROVE  LET r == AppendAdmin(run, g, u)
         IN  /\ Follows(run, r)
             /\ Len(r) > Len(run)
             /\ Climbs(run, r) /\ Descends(run, r)
             /\ OnlyGroup(Now(run), Now(r), g)
             /\ Now(r).groups[g] = PlusAdmin(Now(run).groups[g], u)
<1> DEFINE m  == Now(run)
           G  == m.groups[g]
           n  == G.admin_count
           L  == [G.admins EXCEPT ![n] = u]
           G1 == [G EXCEPT !.admins = L]
           G2 == [G EXCEPT !.admins = L, !.admin_count = n + 1]
           w1 == GroupWrite(m, g, G1)
           w2 == GroupWrite(w1, g, G2)
           r1 == Append(run, w1)
           r2 == Append(r1, w2)
<1>1. m \in Sound /\ G \in GroupEntries /\ Filled(G)
  BY SlotOf
<1> HIDE DEF m
<1> HIDE DEF G
<1>2. /\ G.admins \in Lists /\ n \in 0 .. MaxClients /\ n < MaxClients
      /\ n + 1 \in 0 .. MaxClients
  BY <1>1, LimitsAssumption DEF GroupEntries, m, G
<1> HIDE DEF n
<1>3. /\ L \in Lists
      /\ NamesIn(L, n) = NamesIn(G.admins, n)
      /\ NamesIn(L, n + 1) = NamesIn(G.admins, n) \cup {u}
  BY <1>2, Appended
<1>4. AppendAdmin(run, g, u) = run \o <<w1, w2>>
  <2>1. w1 = [m EXCEPT !.groups[g].admins[n] = u]
    BY DEF G, GroupWrite
  <2>2. w2 = [w1 EXCEPT !.groups[g].admin_count = n + 1]
    <3>1. w1.groups[g] = G1
      BY <1>1 DEF Sound, Memories, GroupWrite
    <3>2. G2 = [G1 EXCEPT !.admin_count = n + 1]
      BY <1>1 DEF GroupEntries
    <3> QED
      BY <3>1, <3>2 DEF GroupWrite
  <2> QED
    BY <2>1, <2>2 DEF AppendAdmin, m, n, G
<1> HIDE DEF L
<1>5. /\ G1 \in GroupEntries
      /\ AdminsOf(G1) = AdminsOf(G) /\ UsersOf(G1) = UsersOf(G)
      /\ Exists(G1) <=> Exists(G)
  BY <1>1, <1>2, <1>3 DEF GroupEntries, UsersOf, AdminsOf, Exists, n
<1>6. /\ G2 \in GroupEntries
      /\ AdminsOf(G2) = AdminsOf(G) \cup {u} /\ UsersOf(G2) = UsersOf(G)
      /\ Exists(G2) <=> Exists(G)
  BY <1>1, <1>2, <1>3 DEF GroupEntries, UsersOf, AdminsOf, Exists, n
<1> HIDE DEF G1, G2
<1>7. Filled(G1) /\ Filled(G2) /\ Rises(G, G1) /\ Rises(G1, G2)
      /\ Falls(G, G1) /\ Falls(G1, G2)
  BY <1>1, <1>5, <1>6 DEF Filled, Rises, Falls, KeepsRights
<1>8. /\ Follows(run, r1) /\ Len(r1) = Len(run) + 1 /\ w1 \in Sound
      /\ Now(r1) = w1 /\ OnlyGroup(m, w1, g) /\ w1.groups[g] = G1
      /\ Climbs(run, r1) /\ Descends(run, r1)
  BY <1>5, <1>7, GroupStep DEF m, G
<1>9. r1 \in Runs /\ Now(r1) = w1
  BY <1>8 DEF Follows
<1> HIDE DEF w1, r1
<1>10. /\ Follows(r1, r2) /\ Len(r2) = Len(r1) + 1 /\ w2 \in Sound
       /\ Now(r2) = w2 /\ OnlyGroup(w1, w2, g) /\ w2.groups[g] = G2
       /\ Climbs(r1, r2) /\ Descends(r1, r2)
  BY <1>6, <1>7, <1>8, <1>9, GroupStep
<1> HIDE DEF w2, r2
<1>11. AppendAdmin(run, g, u) = r2
  BY <1>4, <1>8, <1>10, TwoWrites DEF r1, r2
<1>12. Follows(run, r2) /\ Climbs(run, r2) /\ Descends(run, r2)
  BY <1>8, <1>9, <1>10, FollowsFurther
<1>13. Len(r2) > Len(run)
  BY <1>8, <1>10, NowIsSound
<1>14. OnlyGroup(m, w2, g)
  BY <1>8, <1>10 DEF OnlyGroup
<1>15. G2 = PlusAdmin(G, u)
  BY DEF G2, L, n, PlusAdmin
<1> QED
  BY <1>10, <1>11, <1>12, <1>13, <1>14, <1>15 DEF m, G

\* The memories of a loop that writes one group: T[k] is its slot after turn k.
GroupWrites(m, g, T, c) == [k \in 1 .. c |-> GroupWrite(m, g, T[k])]

\* A loop that writes one group c times.
LEMMA GroupLoop ==
  ASSUME NEW run \in Runs, NEW g \in Groups, NEW c \in Nat,
         NEW T \in [0 .. c -> GroupEntries],
         T[0] = Now(run).groups[g],
         \A k \in 0 .. c : Filled(T[k])
  PROVE  LET m == Now(run)
             r == run \o GroupWrites(m, g, T, c)
             w == GroupWrite(m, g, T[c])
         IN  /\ Follows(run, r)
             /\ Len(r) = Len(run) + c
             /\ Now(r) = w
             /\ w \in Sound
             /\ OnlyGroup(m, w, g)
             /\ w.groups[g] = T[c]
             /\ (\A k \in 1 .. c : Rises(T[k - 1], T[k])) => Climbs(run, r)
             /\ (\A k \in 1 .. c : Falls(T[k - 1], T[k])) => Descends(run, r)
<1> DEFINE m     == Now(run)
           at(k) == GroupWrite(m, g, T[k])
           s     == GroupWrites(m, g, T, c)
           r     == run \o s
<1>1. m \in Sound /\ Len(run) \in Nat /\ m.groups[g] \in GroupEntries
  BY NowIsSound, SlotOf
<1> HIDE DEF m
<1>2. ASSUME NEW k \in 0 .. c
      PROVE  /\ at(k) \in Sound /\ at(k).users = m.users /\ at(k).groups[g] = T[k]
             /\ \A h \in Groups \ {g} : at(k).groups[h] = m.groups[h]
  BY <1>1, GroupWritten
<1>3. at(0) = m
  BY <1>1 DEF Sound, Memories, m, GroupWrite
<1> HIDE DEF at
<1>4. ASSUME NEW k \in 1 .. c
      PROVE  /\ Rises(T[k - 1], T[k]) => <<at(k - 1), at(k)>> \in Up
             /\ Falls(T[k - 1], T[k]) => <<at(k - 1), at(k)>> \in Down
  <2>1. k - 1 \in 0 .. c /\ k \in 0 .. c
    OBVIOUS
  <2>2. \A h \in Groups \ {g} : at(k).groups[h] = at(k - 1).groups[h]
    BY <1>2, <2>1
  <2>3. /\ at(k - 1) \in Sound /\ at(k) \in Sound
        /\ at(k - 1).groups[g] = T[k - 1] /\ at(k).groups[g] = T[k]
    BY <1>2, <2>1
  <2> QED
    BY <2>2, <2>3, StepOfGroup
       DEF Rises, Falls, KeepsRights, Exists, Members, Admins, Live
<1>5. s \in Seq(Sound) /\ Len(s) = c /\ \A k \in 1 .. c : s[k] = at(k)
  <2>1. s = [k \in 1 .. c |-> at(k)]
    BY DEF GroupWrites, at
  <2> QED
    BY <1>2, <2>1
<1>6. s # <<>> <=> c # 0
  BY <1>5, EmptySeq
<1> HIDE DEF s
<1>7. /\ r \in Runs /\ Len(r) = Len(run) + c /\ r[1] = run[1]
      /\ Now(r) = IF s = <<>> THEN m ELSE s[c]
      /\ \A R : Chain(s, R) /\ (s # <<>> => <<m, s[1]>> \in R) =>
            /\ Chain(run, R) => Chain(r, R)
            /\ \A k \in Len(run) .. Len(r) - 1 : <<r[k], r[k + 1]>> \in R
      /\ \A k \in 1 .. Len(run) : r[k] = run[k]
  BY <1>5, ManyWrites DEF m
<1> HIDE DEF r
<1>8. Now(r) = at(c)
  BY <1>3, <1>5, <1>6, <1>7
<1>9. Follows(run, r)
  BY <1>1, <1>7 DEF Follows
<1>10. ASSUME NEW R, \A k \in 1 .. c : <<at(k - 1), at(k)>> \in R
       PROVE  /\ Chain(run, R) => Chain(r, R)
              /\ \A k \in Len(run) .. Len(r) - 1 : <<r[k], r[k + 1]>> \in R
  <2>1. Chain(s, R)
    <3> SUFFICES ASSUME NEW k \in 1 .. c - 1
                 PROVE  <<s[k], s[k + 1]>> \in R
      BY <1>5 DEF Chain
    <3>1. k \in 1 .. c /\ k + 1 \in 1 .. c /\ (k + 1) - 1 = k
      OBVIOUS
    <3>2. s[k] = at(k) /\ s[k + 1] = at(k + 1)
      BY <1>5, <3>1
    <3>3. <<at((k + 1) - 1), at(k + 1)>> \in R
      BY <1>10, <3>1
    <3> QED
      BY <3>1, <3>2, <3>3
  <2>2. s # <<>> => <<m, s[1]>> \in R
    <3> SUFFICES ASSUME c # 0
                 PROVE  <<m, s[1]>> \in R
      BY <1>6
    <3>1. 1 \in 1 .. c /\ 1 - 1 = 0
      OBVIOUS
    <3>2. <<at(1 - 1), at(1)>> \in R
      BY <1>10, <3>1
    <3> QED
      BY <1>3, <1>5, <3>1, <3>2
  <2> QED
    BY <1>7, <2>1, <2>2
<1>11. (\A k \in 1 .. c : Rises(T[k - 1], T[k])) => Climbs(run, r)
  BY <1>4, <1>10 DEF Climbs
<1>12. (\A k \in 1 .. c : Falls(T[k - 1], T[k])) => Descends(run, r)
  <2> SUFFICES ASSUME \A k \in 1 .. c : Falls(T[k - 1], T[k]), Hill(run)
               PROVE  Hill(r)
    BY DEF Descends
  <2>1. \A k \in 1 .. c : <<at(k - 1), at(k)>> \in Down
    BY <1>4
  <2>2. \A k \in Len(run) .. Len(r) - 1 : <<r[k], r[k + 1]>> \in Down
    BY <1>10, <2>1
  <2>3. Len(r) >= Len(run)
    BY <1>1, <1>7
  <2> QED
    BY <1>7, <2>2, <2>3, HillGoesDown
<1>13. at(c) \in Sound /\ OnlyGroup(m, at(c), g) /\ at(c).groups[g] = T[c]
  BY <1>2 DEF OnlyGroup
<1> QED
  BY <1>7, <1>8, <1>9, <1>11, <1>12, <1>13 DEF m, at, s, r

\* A group without the entry i of the list of its members.
MinusUser(G, i) ==
    [G EXCEPT !.users = Shifted(G.users, i, G.user_count - 1 - i),
              !.user_count = @ - 1]

MinusAdmin(G, i) ==
    [G EXCEPT !.admins = Shifted(G.admins, i, G.admin_count - 1 - i),
              !.admin_count = @ - 1]

LEMMA DropUserWrites ==
  ASSUME NEW run \in Runs, NEW g \in Groups, NEW u,
         u \in UsersOf(Now(run).groups[g])
  PROVE  LET r == DropUser(run, g, u)
             G == Now(run).groups[g]
         IN  /\ Follows(run, r)
             /\ Len(r) > Len(run)
             /\ Descends(run, r)
             /\ OnlyGroup(Now(run), Now(r), g)
             /\ Now(r).groups[g] =
                   MinusUser(G, FirstOf(G.users, G.user_count, u))
<1> DEFINE m    == Now(run)
           G    == m.groups[g]
           list == G.users
           n    == G.user_count
           i    == FirstOf(list, n, u)
           c    == n - 1 - i
           S(k) == Shifted(list, i, k)
           T    == [k \in 0 .. c |-> [G EXCEPT !.users = S(k)]]
           s    == GroupWrites(m, g, T, c)
           r1   == run \o s
           w1   == GroupWrite(m, g, T[c])
           G2   == [T[c] EXCEPT !.user_count = n - 1]
           w2   == GroupWrite(w1, g, G2)
           r2   == Append(r1, w2)
<1>1. m \in Sound /\ G \in GroupEntries /\ Filled(G)
  BY SlotOf
<1> HIDE DEF m
<1> HIDE DEF G
<1>2. /\ list \in Lists /\ n \in 0 .. MaxClients /\ MaxClients \in Nat
      /\ UsersOf(G) = NamesIn(list, n) /\ u \in NamesIn(list, n)
  BY <1>1, LimitsAssumption DEF GroupEntries, UsersOf, m, G
<1> HIDE DEF list, n
<1>3. i \in 0 .. n - 1 /\ c \in Nat /\ c = n - 1 - i
  <2>1. i \in 0 .. n - 1
    BY <1>2, Searches
  <2> QED
    BY <1>2, <2>1
<1> HIDE DEF i
<1> HIDE DEF c
<1>4. ASSUME NEW k \in 0 .. c
      PROVE  /\ S(k) \in Lists
             /\ k # 0 => NamesIn(S(k), n) = Rest(list, n, i)
             /\ k = c => NamesIn(S(k), n - 1) = Rest(list, n, i)
  BY <1>2, <1>3, ShiftedEntries, ShiftedNames
<1>5. S(0) = list
  <2>1. 0 \in 0 .. n - 1 - i
    BY <1>3 DEF c
  <2>2. S(0) = [j \in Entries |-> IF j \in i .. i + 0 - 1 THEN list[j + 1]
                                   ELSE list[j]]
    BY <1>2, <1>3, <2>1, ShiftedByTurns
  <2>3. list = [j \in Entries |-> list[j]]
    BY <1>2 DEF Lists
  <2> QED
    BY <1>3, <2>2, <2>3
<1>6. Rest(list, n, i) \subseteq UsersOf(G)
  BY <1>2 DEF Rest, NamesIn
<1> HIDE DEF S
<1>7. T[0] = G
  <2>1. [G EXCEPT !.users = list] = G
    BY <1>1 DEF GroupEntries, list
  <2>2. 0 \in 0 .. c
    BY <1>3
  <2> QED
    BY <1>5, <2>1, <2>2
<1>8. ASSUME NEW k \in 0 .. c
      PROVE  /\ T[k] \in GroupEntries
             /\ UsersOf(T[k]) = IF k = 0 THEN UsersOf(G) ELSE Rest(list, n, i)
             /\ AdminsOf(T[k]) = AdminsOf(G)
             /\ Exists(T[k]) <=> Exists(G)
  <2>1. T[k] = [G EXCEPT !.users = S(k)]
    OBVIOUS
  <2>2. /\ T[k] \in GroupEntries /\ T[k].users = S(k) /\ T[k].user_count = n
        /\ T[k].admins = G.admins /\ T[k].admin_count = G.admin_count
        /\ T[k].known = G.known /\ T[k].active = G.active
    BY <1>1, <1>4, <2>1 DEF GroupEntries, n
  <2> HIDE DEF T
  <2>3. UsersOf(T[k]) = IF k = 0 THEN UsersOf(G) ELSE Rest(list, n, i)
    BY <1>2, <1>4, <1>5, <2>2 DEF UsersOf
  <2> QED
    BY <2>2, <2>3 DEF AdminsOf, Exists
<1>9. T \in [0 .. c -> GroupEntries] /\ T[0] = Now(run).groups[g]
  <2>1. \A k \in 0 .. c : T[k] \in GroupEntries
    BY <1>8
  <2>2. DOMAIN T = 0 .. c /\ T = [k \in 0 .. c |-> T[k]]
    OBVIOUS
  <2> QED
    BY <1>7, <2>1, <2>2 DEF G, m
<1>10. \A k \in 0 .. c : Filled(T[k])
  BY <1>1, <1>6, <1>8 DEF Filled
<1>11. \A k \in 1 .. c : Falls(T[k - 1], T[k])
  <2> SUFFICES ASSUME NEW k \in 1 .. c
               PROVE  Falls(T[k - 1], T[k])
    OBVIOUS
  <2>1. k - 1 \in 0 .. c /\ k \in 0 .. c /\ k # 0
    BY <1>3
  <2> HIDE DEF T
  <2> QED
    BY <1>6, <1>8, <2>1 DEF Falls, KeepsRights
<1>12. T[c] = [G EXCEPT !.users = S(c)]
  BY <1>3
<1> HIDE DEF T
<1>13. /\ Follows(run, r1) /\ Len(r1) = Len(run) + c /\ Now(r1) = w1
       /\ w1 \in Sound /\ OnlyGroup(m, w1, g) /\ w1.groups[g] = T[c]
       /\ Descends(run, r1)
  BY <1>3, <1>9, <1>10, <1>11, GroupLoop, Zenon DEF m
<1>14. /\ G2 \in GroupEntries /\ UsersOf(G2) = Rest(list, n, i)
       /\ AdminsOf(G2) = AdminsOf(G) /\ (Exists(G2) <=> Exists(G))
  <2>1. c \in 0 .. c /\ n - 1 \in 0 .. MaxClients
    BY <1>2, <1>3
  <2>2. S(c) \in Lists /\ NamesIn(S(c), n - 1) = Rest(list, n, i)
    BY <1>4, <2>1
  <2>3. /\ G2 \in GroupEntries /\ G2.users = S(c) /\ G2.user_count = n - 1
        /\ G2.admins = G.admins /\ G2.admin_count = G.admin_count
        /\ G2.known = G.known /\ G2.active = G.active
    BY <1>1, <1>12, <2>1, <2>2 DEF GroupEntries
  <2> HIDE DEF G2
  <2> QED
    BY <2>2, <2>3 DEF UsersOf, AdminsOf, Exists
<1>15. G2 = MinusUser(G, i)
  <2>1. G2 = [G EXCEPT !.users = S(c), !.user_count = n - 1]
    BY <1>12
  <2>2. S(c) = Shifted(G.users, i, G.user_count - 1 - i) /\ n = G.user_count
    BY <1>3 DEF S, list, n
  <2> QED
    BY <2>1, <2>2 DEF MinusUser
<1> HIDE DEF G2
<1>16. Filled(G2) /\ Falls(T[c], G2)
  <2>1. c \in 0 .. c
    BY <1>3
  <2>2. /\ UsersOf(T[c]) = IF c = 0 THEN UsersOf(G) ELSE Rest(list, n, i)
        /\ AdminsOf(T[c]) = AdminsOf(G) /\ (Exists(T[c]) <=> Exists(G))
    BY <1>8, <2>1
  <2> QED
    BY <1>1, <1>6, <1>14, <2>2 DEF Filled, Falls, KeepsRights
<1>17. r1 \in Runs
  BY <1>13 DEF Follows
<1>18. DropUser(run, g, u) = r1 \o <<w2>>
  <2>1. s = [k \in 1 .. c |-> [m EXCEPT !.groups[g].users = S(k)]]
    <3> SUFFICES ASSUME NEW k \in 1 .. c
                 PROVE  GroupWrite(m, g, T[k]) =
                          [m EXCEPT !.groups[g].users = S(k)]
      BY DEF GroupWrites
    <3>1. T[k] = [G EXCEPT !.users = S(k)]
      BY DEF T
    <3> QED
      BY <3>1 DEF G, GroupWrite
  <2>2. w1 = [m EXCEPT !.groups[g].users = S(c)]
    BY <1>12 DEF G, GroupWrite
  <2>3. w2 = [w1 EXCEPT !.groups[g].user_count = n - 1]
    BY <1>13 DEF G2, GroupWrite
  <2> HIDE DEF s, w1, w2
  <2> QED
    BY <2>1, <2>2, <2>3 DEF DropUser, m, G, list, n, i, c, S
<1> HIDE DEF r1, w1
<1>19. /\ Follows(r1, r2) /\ Len(r2) = Len(r1) + 1 /\ w2 \in Sound
       /\ Now(r2) = w2 /\ OnlyGroup(w1, w2, g) /\ w2.groups[g] = G2
       /\ Descends(r1, r2)
  <2>1. w2 = GroupWrite(Now(r1), g, G2)
    BY <1>13
  <2> HIDE DEF w2
  <2>2. /\ Follows(r1, r2) /\ Len(r2) = Len(r1) + 1 /\ w2 \in Sound
        /\ Now(r2) = w2 /\ OnlyGroup(Now(r1), w2, g) /\ w2.groups[g] = G2
        /\ Falls(Now(r1).groups[g], G2) => Descends(r1, r2)
    BY <1>14, <1>16, <1>17, <2>1, GroupStep, Zenon
  <2> QED
    BY <1>13, <1>16, <2>2
<1> HIDE DEF w2, r2
<1>20. DropUser(run, g, u) = r2
  BY <1>17, <1>18, <1>19, OneWrite DEF r2
<1>21. Follows(run, r2) /\ Descends(run, r2)
  BY <1>13, <1>17, <1>19, FollowsFurther
<1>22. Len(r2) > Len(run)
  BY <1>3, <1>13, <1>19, NowIsSound
<1>23. OnlyGroup(m, w2, g)
  BY <1>13, <1>19 DEF OnlyGroup
<1> QED
  BY <1>15, <1>19, <1>20, <1>21, <1>22, <1>23 DEF m, G, list, n, i

\* The right of u goes, the right of v stays.
LEMMA DropAdminWrites ==
  ASSUME NEW run \in Runs, NEW g \in Groups, NEW u,
         u \in AdminsOf(Now(run).groups[g]),
         NEW v \in AdminsOf(Now(run).groups[g]), v # u
  PROVE  LET r == DropAdmin(run, g, u)
             G == Now(run).groups[g]
         IN  /\ Follows(run, r)
             /\ Len(r) > Len(run)
             /\ Climbs(run, r) /\ Descends(run, r)
             /\ OnlyGroup(Now(run), Now(r), g)
             /\ Now(r).groups[g] =
                   MinusAdmin(G, FirstOf(G.admins, G.admin_count, u))
<1> DEFINE m    == Now(run)
           G    == m.groups[g]
           list == G.admins
           n    == G.admin_count
           i    == FirstOf(list, n, u)
           c    == n - 1 - i
           S(k) == Shifted(list, i, k)
           T    == [k \in 0 .. c |-> [G EXCEPT !.admins = S(k)]]
           s    == GroupWrites(m, g, T, c)
           r1   == run \o s
           w1   == GroupWrite(m, g, T[c])
           G2   == [T[c] EXCEPT !.admin_count = n - 1]
           w2   == GroupWrite(w1, g, G2)
           r2   == Append(r1, w2)
<1>1. m \in Sound /\ G \in GroupEntries /\ Filled(G)
      /\ v \in AdminsOf(G)
  BY SlotOf
<1> HIDE DEF m
<1> HIDE DEF G
<1>2. /\ list \in Lists /\ n \in 0 .. MaxClients /\ MaxClients \in Nat
      /\ AdminsOf(G) = NamesIn(list, n) /\ u \in NamesIn(list, n)
  BY <1>1, LimitsAssumption DEF GroupEntries, AdminsOf, m, G
<1> HIDE DEF list, n
<1>3. i \in 0 .. n - 1 /\ c \in Nat /\ c = n - 1 - i /\ list[i] = u
  <2>1. i \in 0 .. n - 1 /\ list[i] = u
    BY <1>2, Searches
  <2> QED
    BY <1>2, <2>1
<1> HIDE DEF i
<1> HIDE DEF c
<1>4. ASSUME NEW k \in 0 .. c
      PROVE  /\ S(k) \in Lists
             /\ k # 0 => NamesIn(S(k), n) = Rest(list, n, i)
             /\ k = c => NamesIn(S(k), n - 1) = Rest(list, n, i)
  BY <1>2, <1>3, ShiftedEntries, ShiftedNames
<1>5. S(0) = list
  <2>1. 0 \in 0 .. n - 1 - i
    BY <1>3 DEF c
  <2>2. S(0) = [j \in Entries |-> IF j \in i .. i + 0 - 1 THEN list[j + 1]
                                   ELSE list[j]]
    BY <1>2, <1>3, <2>1, ShiftedByTurns
  <2>3. list = [j \in Entries |-> list[j]]
    BY <1>2 DEF Lists
  <2> QED
    BY <1>3, <2>2, <2>3
<1>6. Rest(list, n, i) \subseteq AdminsOf(G) /\ v \in Rest(list, n, i)
  BY <1>1, <1>2, <1>3 DEF Rest, NamesIn
<1> HIDE DEF S
<1>7. T[0] = G
  <2>1. [G EXCEPT !.admins = list] = G
    BY <1>1 DEF GroupEntries, list
  <2>2. 0 \in 0 .. c
    BY <1>3
  <2> QED
    BY <1>5, <2>1, <2>2
<1>8. ASSUME NEW k \in 0 .. c
      PROVE  /\ T[k] \in GroupEntries
             /\ AdminsOf(T[k]) = IF k = 0 THEN AdminsOf(G) ELSE Rest(list, n, i)
             /\ UsersOf(T[k]) = UsersOf(G)
             /\ Exists(T[k]) <=> Exists(G)
  <2>1. T[k] = [G EXCEPT !.admins = S(k)]
    OBVIOUS
  <2>2. /\ T[k] \in GroupEntries /\ T[k].admins = S(k) /\ T[k].admin_count = n
        /\ T[k].users = G.users /\ T[k].user_count = G.user_count
        /\ T[k].known = G.known /\ T[k].active = G.active
    BY <1>1, <1>4, <2>1 DEF GroupEntries, n
  <2> HIDE DEF T
  <2>3. AdminsOf(T[k]) = IF k = 0 THEN AdminsOf(G) ELSE Rest(list, n, i)
    BY <1>2, <1>4, <1>5, <2>2 DEF AdminsOf
  <2> QED
    BY <2>2, <2>3 DEF UsersOf, Exists
<1>9. T \in [0 .. c -> GroupEntries] /\ T[0] = Now(run).groups[g]
  <2>1. \A k \in 0 .. c : T[k] \in GroupEntries
    BY <1>8
  <2>2. DOMAIN T = 0 .. c /\ T = [k \in 0 .. c |-> T[k]]
    OBVIOUS
  <2> QED
    BY <1>7, <2>1, <2>2 DEF G, m
<1>10. \A k \in 0 .. c : Filled(T[k])
  BY <1>1, <1>6, <1>8 DEF Filled
<1>11. \A k \in 1 .. c : Rises(T[k - 1], T[k]) /\ Falls(T[k - 1], T[k])
  <2> SUFFICES ASSUME NEW k \in 1 .. c
               PROVE  Rises(T[k - 1], T[k]) /\ Falls(T[k - 1], T[k])
    OBVIOUS
  <2>1. k - 1 \in 0 .. c /\ k \in 0 .. c /\ k # 0
    BY <1>3
  <2> HIDE DEF T
  <2> QED
    BY <1>6, <1>8, <2>1 DEF Rises, Falls, KeepsRights
<1>12. T[c] = [G EXCEPT !.admins = S(c)]
  BY <1>3
<1> HIDE DEF T
<1>13. /\ Follows(run, r1) /\ Len(r1) = Len(run) + c /\ Now(r1) = w1
       /\ w1 \in Sound /\ OnlyGroup(m, w1, g) /\ w1.groups[g] = T[c]
       /\ Climbs(run, r1) /\ Descends(run, r1)
  BY <1>3, <1>9, <1>10, <1>11, GroupLoop, Zenon DEF m
<1>14. /\ G2 \in GroupEntries /\ AdminsOf(G2) = Rest(list, n, i)
       /\ UsersOf(G2) = UsersOf(G) /\ (Exists(G2) <=> Exists(G))
  <2>1. c \in 0 .. c /\ n - 1 \in 0 .. MaxClients
    BY <1>2, <1>3
  <2>2. S(c) \in Lists /\ NamesIn(S(c), n - 1) = Rest(list, n, i)
    BY <1>4, <2>1
  <2>3. /\ G2 \in GroupEntries /\ G2.admins = S(c) /\ G2.admin_count = n - 1
        /\ G2.users = G.users /\ G2.user_count = G.user_count
        /\ G2.known = G.known /\ G2.active = G.active
    BY <1>1, <1>12, <2>1, <2>2 DEF GroupEntries
  <2> HIDE DEF G2
  <2> QED
    BY <2>2, <2>3 DEF AdminsOf, UsersOf, Exists
<1>15. G2 = MinusAdmin(G, i)
  <2>1. G2 = [G EXCEPT !.admins = S(c), !.admin_count = n - 1]
    BY <1>12
  <2>2. S(c) = Shifted(G.admins, i, G.admin_count - 1 - i) /\ n = G.admin_count
    BY <1>3 DEF S, list, n
  <2> QED
    BY <2>1, <2>2 DEF MinusAdmin
<1> HIDE DEF G2
<1>16. Filled(G2) /\ Rises(T[c], G2) /\ Falls(T[c], G2)
  <2>1. c \in 0 .. c
    BY <1>3
  <2>2. /\ AdminsOf(T[c]) = IF c = 0 THEN AdminsOf(G) ELSE Rest(list, n, i)
        /\ UsersOf(T[c]) = UsersOf(G) /\ (Exists(T[c]) <=> Exists(G))
    BY <1>8, <2>1
  <2> QED
    BY <1>1, <1>6, <1>14, <2>2 DEF Filled, Rises, Falls, KeepsRights
<1>17. r1 \in Runs
  BY <1>13 DEF Follows
<1>18. DropAdmin(run, g, u) = r1 \o <<w2>>
  <2>1. s = [k \in 1 .. c |-> [m EXCEPT !.groups[g].admins = S(k)]]
    <3> SUFFICES ASSUME NEW k \in 1 .. c
                 PROVE  GroupWrite(m, g, T[k]) =
                          [m EXCEPT !.groups[g].admins = S(k)]
      BY DEF GroupWrites
    <3>1. T[k] = [G EXCEPT !.admins = S(k)]
      BY DEF T
    <3> QED
      BY <3>1 DEF G, GroupWrite
  <2>2. w1 = [m EXCEPT !.groups[g].admins = S(c)]
    BY <1>12 DEF G, GroupWrite
  <2>3. w2 = [w1 EXCEPT !.groups[g].admin_count = n - 1]
    BY <1>13 DEF G2, GroupWrite
  <2> HIDE DEF s, w1, w2
  <2> QED
    BY <2>1, <2>2, <2>3 DEF DropAdmin, m, G, list, n, i, c, S
<1> HIDE DEF r1, w1
<1>19. /\ Follows(r1, r2) /\ Len(r2) = Len(r1) + 1 /\ w2 \in Sound
       /\ Now(r2) = w2 /\ OnlyGroup(w1, w2, g) /\ w2.groups[g] = G2
       /\ Climbs(r1, r2) /\ Descends(r1, r2)
  <2>1. w2 = GroupWrite(Now(r1), g, G2)
    BY <1>13
  <2> HIDE DEF w2
  <2>2. /\ Follows(r1, r2) /\ Len(r2) = Len(r1) + 1 /\ w2 \in Sound
        /\ Now(r2) = w2 /\ OnlyGroup(Now(r1), w2, g) /\ w2.groups[g] = G2
        /\ Rises(Now(r1).groups[g], G2) => Climbs(r1, r2)
        /\ Falls(Now(r1).groups[g], G2) => Descends(r1, r2)
    BY <1>14, <1>16, <1>17, <2>1, GroupStep, Zenon
  <2> QED
    BY <1>13, <1>16, <2>2
<1> HIDE DEF w2, r2
<1>20. DropAdmin(run, g, u) = r2
  BY <1>17, <1>18, <1>19, OneWrite DEF r2
<1>21. Follows(run, r2) /\ Climbs(run, r2) /\ Descends(run, r2)
  BY <1>13, <1>17, <1>19, FollowsFurther
<1>22. Len(r2) > Len(run)
  BY <1>3, <1>13, <1>19, NowIsSound
<1>23. OnlyGroup(m, w2, g)
  BY <1>13, <1>19 DEF OnlyGroup
<1> QED
  BY <1>15, <1>19, <1>20, <1>21, <1>22, <1>23 DEF m, G, list, n, i

LEMMA SetCurrentWrites ==
  ASSUME NEW run \in Runs, NEW u \in Names, NEW g \in Groups \cup {NoGroup}
  PROVE  LET r == SetCurrent(run, u, g)
             U == Now(run).users[u]
         IN  /\ Follows(run, r) /\ Climbs(run, r) /\ Descends(run, r)
             /\ OnlyUser(Now(run), Now(r), u)
             /\ Now(r).users[u] = IF U.active
                                  THEN [U EXCEPT !.current_group = g] ELSE U
<1> DEFINE m == Now(run)
           U == m.users[u]
           V == [U EXCEPT !.current_group = g]
           w == UserWrite(m, u, V)
           r == Append(run, w)
<1>1. m \in Sound /\ U \in UserEntries
  BY NowIsSound DEF Sound, Memories
<1>2. CASE ~U.active
  <2>1. SetCurrent(run, u, g) = run
    BY <1>2 DEF SetCurrent
  <2> QED
    BY <1>2, <2>1, FollowsItself DEF OnlyUser
<1>3. CASE U.active
  <2>1. V \in UserEntries
    BY <1>1 DEF UserEntries
  <2>2. SetCurrent(run, u, g) = r
    BY <1>3 DEF SetCurrent, UserWrite
  <2> HIDE DEF V
  <2>3. /\ Follows(run, r) /\ Climbs(run, r) /\ Descends(run, r)
        /\ OnlyUser(m, Now(r), u) /\ Now(r).users[u] = V
    BY <2>1, UserStep
  <2> HIDE DEF w, r
  <2> QED
    BY <1>3, <2>2, <2>3 DEF V
<1> QED
  BY <1>2, <1>3

-----------------------------------------------------------------------------
(* The sets of Registry.                                                   *)

UserAgrees(U, X) ==
    /\ U.active <=> X.state = "active"
    /\ U.current_group = X.current_group

\* The arrays of a group hold its sets, each name once; a group that does not
\* exist has empty lists.
GroupAgrees(G, X) ==
    /\ G.known <=> X.state # "absent"
    /\ Exists(G) <=> X.state = "active"
    /\ UsersOf(G) = X.users /\ NoRepeat(G.users, G.user_count)
    /\ AdminsOf(G) = X.admins /\ NoRepeat(G.admins, G.admin_count)
    /\ ~Exists(G) => G.user_count = 0 /\ G.admin_count = 0

\* A member was registered once.
MembersHaveSlots(s) ==
    \A g \in Groups : \A u \in s.groups[g].users : s.users[u].state # "absent"

Agrees(m, s) ==
    /\ s \in SharedMemory
    /\ MembersHaveSlots(s)
    /\ \A u \in Names : UserAgrees(m.users[u], s.users[u])
    /\ \A g \in Groups : GroupAgrees(m.groups[g], s.groups[g])

LEMMA NobodyInAnEmptyList ==
  ASSUME NEW list
  PROVE  NamesIn(list, 0) = {} /\ NoRepeat(list, 0)
BY DEF NamesIn, NoRepeat

LEMMA EmptyListHasNobody ==
  ASSUME NEW list, NEW n \in Nat, NamesIn(list, n) = {}
  PROVE  n = 0
<1>1. n # 0 => 0 \in 0 .. n - 1
  OBVIOUS
<1> QED
  BY <1>1 DEF NamesIn

\* The searches of the two agree.
LEMMA SameSearches ==
  ASSUME NEW m \in Sound, NEW s, Agrees(m, s), NEW u \in Names, NEW g \in Groups
  PROVE  /\ m.users[u].active <=> UserFound(s, u)
         /\ Live(m, g) <=> GroupFound(s, g)
         /\ Listed(m, g, u) <=> u \in s.groups[g].users
         /\ HasRight(m, g, u) <=> u \in s.groups[g].admins
         /\ m.groups[g].known <=> s.groups[g].state # "absent"
         /\ m.groups[g].user_count = Cardinality(s.groups[g].users)
         /\ m.groups[g].admin_count = Cardinality(s.groups[g].admins)
<1> DEFINE G == m.groups[g]
           X == s.groups[g]
<1>1. G \in GroupEntries /\ GroupAgrees(G, X) /\ UserAgrees(m.users[u], s.users[u])
  BY DEF Agrees, Sound, Memories
<1>2. G.user_count \in Nat /\ G.admin_count \in Nat
  BY <1>1, LimitsAssumption DEF GroupEntries
<1>3. /\ G.user_count = Cardinality(X.users)
      /\ G.admin_count = Cardinality(X.admins)
  BY <1>1, <1>2, CountOfNames DEF GroupAgrees, UsersOf, AdminsOf
<1>4. Live(m, g) <=> GroupFound(s, g)
  BY <1>1 DEF GroupAgrees, Exists, Live, GroupFound
<1>5. /\ Listed(m, g, u) <=> u \in X.users
      /\ HasRight(m, g, u) <=> u \in X.admins
  BY <1>1, Found DEF GroupAgrees, Members, Admins
<1> QED
  BY <1>1, <1>3, <1>4, <1>5 DEF UserAgrees, UserFound, GroupAgrees

\* Everybody fits: who is not in a list finds a free entry.
LEMMA RoomInLists ==
  ASSUME NEW m \in Sound, NEW s, Agrees(m, s), NEW u \in Names, NEW g \in Groups
  PROVE  /\ u \notin UsersOf(m.groups[g]) => m.groups[g].user_count < MaxClients
         /\ u \notin AdminsOf(m.groups[g]) => m.groups[g].admin_count < MaxClients
<1> DEFINE G == m.groups[g]
<1>1. G \in GroupEntries /\ Filled(G) /\ GroupAgrees(G, s.groups[g])
  BY DEF Agrees, Sound, Memories
<1>2. G.user_count \in Nat /\ G.admin_count \in Nat
  BY <1>1, LimitsAssumption DEF GroupEntries
<1> QED
  BY <1>1, <1>2, RoomForOneMore DEF GroupAgrees, Filled, UsersOf, AdminsOf

\* One user changes on both sides.
LEMMA AgreesByUser ==
  ASSUME NEW m, NEW s, Agrees(m, s), NEW u \in Names, NEW w, OnlyUser(m, w, u),
         NEW X \in Users, UserAgrees(w.users[u], X),
         s.users[u].state # "absent" => X.state # "absent"
  PROVE  Agrees(w, [users |-> [s.users EXCEPT ![u] = X], groups |-> s.groups])
<1> DEFINE t == [users |-> [s.users EXCEPT ![u] = X], groups |-> s.groups]
<1>1. s \in SharedMemory
  BY DEF Agrees
<1>2. s.users \in [Names -> Users] /\ s.groups \in [Groups -> GroupSlots]
  BY <1>1 DEF SharedMemory
<1>3. /\ t \in SharedMemory /\ t.groups = s.groups
      /\ t.users[u] = X /\ \A v \in Names \ {u} : t.users[v] = s.users[v]
  BY <1>2 DEF SharedMemory
<1> HIDE DEF t
<1>4. s.groups \in [Groups -> [state : SlotStates, users : SUBSET Names,
                               admins : SUBSET Names, color : Colors]]
  BY <1>2 DEF GroupSlots
<1>5. MembersHaveSlots(t)
  <2>1. \A v \in Names : s.users[v].state # "absent" => t.users[v].state # "absent"
    BY <1>3
  <2> QED
    BY <1>3, <1>4, <2>1 DEF Agrees, MembersHaveSlots
<1>6. \A v \in Names : UserAgrees(w.users[v], t.users[v])
  BY <1>3 DEF Agrees, OnlyUser
<1>7. \A g \in Groups : GroupAgrees(w.groups[g], t.groups[g])
  BY <1>3 DEF Agrees, OnlyUser
<1>8. Agrees(w, t)
  BY <1>3, <1>5, <1>6, <1>7 DEF Agrees
<1> QED
  BY <1>8 DEF t

\* One group changes on both sides.
LEMMA AgreesByGroup ==
  ASSUME NEW m, NEW s, Agrees(m, s), NEW g \in Groups, NEW w, OnlyGroup(m, w, g),
         NEW X \in GroupSlots, GroupAgrees(w.groups[g], X),
         \A u \in X.users : s.users[u].state # "absent"
  PROVE  Agrees(w, [users |-> s.users, groups |-> [s.groups EXCEPT ![g] = X]])
<1> DEFINE t == [users |-> s.users, groups |-> [s.groups EXCEPT ![g] = X]]
<1>1. s \in SharedMemory
  BY DEF Agrees
<1>2. s.users \in [Names -> Users] /\ s.groups \in [Groups -> GroupSlots]
  BY <1>1 DEF SharedMemory
<1>3. /\ t \in SharedMemory /\ t.users = s.users
      /\ t.groups[g] = X /\ \A h \in Groups \ {g} : t.groups[h] = s.groups[h]
  BY <1>2 DEF SharedMemory
<1> HIDE DEF t
<1>4. MembersHaveSlots(t)
  BY <1>3 DEF Agrees, MembersHaveSlots
<1>5. \A v \in Names : UserAgrees(w.users[v], t.users[v])
  BY <1>3 DEF Agrees, OnlyGroup
<1>6. \A h \in Groups : GroupAgrees(w.groups[h], t.groups[h])
  BY <1>3 DEF Agrees, OnlyGroup
<1>7. Agrees(w, t)
  BY <1>3, <1>4, <1>5, <1>6 DEF Agrees
<1> QED
  BY <1>7 DEF t

\* A slot of Registry.
LEMMA SlotTypes ==
  ASSUME NEW m, NEW s, Agrees(m, s)
  PROVE  /\ s.users \in [Names -> Users] /\ s.groups \in [Groups -> GroupSlots]
         /\ \A u \in Names : s.users[u] \in Users
         /\ \A g \in Groups : s.groups[g] \in GroupSlots
         /\ s = [users |-> s.users, groups |-> s.groups]
BY DEF Agrees, SharedMemory

\* A new user always finds a slot.
LEMMA RoomForUsers ==
  ASSUME NEW s \in SharedMemory, NEW u \in Names, ~UserFound(s, u)
  PROVE  CanAddUser(s, u)
<1>1. s.users[u].state \in {"absent", "inactive"}
  BY DEF UserFound, SharedMemory, Users, SlotStates
<1>2. CASE s.users[u].state = "absent"
  <2>1. u \notin UserSlots(s) /\ UserSlots(s) \in SUBSET Names
    BY <1>2 DEF UserSlots
  <2>2. /\ IsFiniteSet(UserSlots(s))
        /\ Cardinality(UserSlots(s)) <= Cardinality(Names)
        /\ Cardinality(Names) = Cardinality(UserSlots(s)) => Names = UserSlots(s)
    BY <2>1, FS_Subset, NamesAssumption
  <2>3. /\ Cardinality(UserSlots(s)) \in Nat /\ Cardinality(Names) \in Nat
        /\ MaxClients \in Nat
    BY <2>2, FS_CardinalityType, NamesAssumption, LimitsAssumption
  <2> QED
    BY <1>2, <2>1, <2>2, <2>3, EverybodyFits DEF CanAddUser
<1> QED
  BY <1>1, <1>2 DEF CanAddUser

LEMMA UserAddWrites ==
  ASSUME NEW run \in Runs, NEW u \in Names
  PROVE  LET r == user_add(run, u)
         IN  /\ Follows(run, r) /\ Climbs(run, r) /\ Descends(run, r)
             /\ Now(r).users[u].active
             /\ \A s : Agrees(Now(run), s) =>
                   Agrees(Now(r), IF UserFound(s, u) THEN s
                                  ELSE UserAdd(s, u, NoAddr))
<1> DEFINE m == Now(run)
           U == m.users[u]
           V == [U EXCEPT !.active = TRUE]
           w == UserWrite(m, u, V)
           r == Append(run, w)
<1>1. m \in Sound /\ U \in UserEntries
  BY NowIsSound DEF Sound, Memories
<1>2. CASE U.active
  <2>1. user_add(run, u) = run
    BY <1>2 DEF user_add
  <2>2. \A s : Agrees(m, s) => UserFound(s, u)
    BY <1>2 DEF Agrees, UserAgrees, UserFound
  <2> QED
    BY <1>2, <2>1, <2>2, FollowsItself
<1>3. CASE ~U.active
  <2>1. V \in UserEntries /\ V.active /\ V.current_group = U.current_group
    BY <1>1 DEF UserEntries
  <2>2. user_add(run, u) = r
    BY <1>3 DEF user_add, UserWrite
  <2> HIDE DEF V
  <2>3. /\ Follows(run, r) /\ Climbs(run, r) /\ Descends(run, r)
        /\ Now(r) = w /\ OnlyUser(m, w, u) /\ w.users[u] = V
    BY <2>1, UserStep
  <2> HIDE DEF w, r
  <2>4. ASSUME NEW s, Agrees(m, s)
        PROVE  ~UserFound(s, u) /\ Agrees(w, UserAdd(s, u, NoAddr))
    <3> DEFINE Y == s.users[u]
               X == [Y EXCEPT !.state = "active", !.addr = NoAddr]
    <3>1. UserAgrees(U, Y) /\ Y \in Users
      BY <2>4, SlotTypes DEF Agrees
    <3>2. ~UserFound(s, u)
      BY <1>3, <3>1 DEF UserAgrees, UserFound
    <3>3. CanAddUser(s, u)
      BY <2>4, <3>2, RoomForUsers DEF Agrees
    <3>4. X \in Users /\ X.state = "active" /\ X.current_group = Y.current_group
      BY <3>1 DEF Users, SlotStates
    <3>5. UserAgrees(w.users[u], X)
      BY <2>1, <2>3, <3>1, <3>4 DEF UserAgrees
    <3>6. UserAdd(s, u, NoAddr) =
            [users |-> [s.users EXCEPT ![u] = X], groups |-> s.groups]
      BY <2>4, <3>3, SlotTypes DEF UserAdd
    <3> HIDE DEF X
    <3>7. Agrees(w, [users |-> [s.users EXCEPT ![u] = X], groups |-> s.groups])
      BY <2>3, <2>4, <3>4, <3>5, AgreesByUser
    <3> QED
      BY <3>2, <3>6, <3>7
  <2> QED
    BY <2>1, <2>2, <2>3, <2>4
<1> QED
  BY <1>2, <1>3

\* current_group of u becomes g, if u is active.
WithHome(s, u, g) ==
    [users  |-> [s.users EXCEPT ![u].current_group =
                    IF UserFound(s, u) THEN g ELSE @],
     groups |-> s.groups]

LEMMA SetCurrentAgrees ==
  ASSUME NEW run \in Runs, NEW u \in Names, NEW g \in Groups \cup {NoGroup},
         NEW s, Agrees(Now(run), s)
  PROVE  Agrees(Now(SetCurrent(run, u, g)), WithHome(s, u, g))
<1> DEFINE m == Now(run)
           w == Now(SetCurrent(run, u, g))
           U == m.users[u]
           Y == s.users[u]
           X == [Y EXCEPT !.current_group = IF UserFound(s, u) THEN g ELSE @]
<1>1. /\ OnlyUser(m, w, u)
      /\ w.users[u] = IF U.active THEN [U EXCEPT !.current_group = g] ELSE U
  BY SetCurrentWrites
<1>2. m \in Sound /\ U \in UserEntries
  BY NowIsSound DEF Sound, Memories
<1>3. UserAgrees(U, Y) /\ Y \in Users /\ s.users \in [Names -> Users]
  BY SlotTypes DEF Agrees
<1> HIDE DEF m, w
<1>4. /\ X \in Users /\ X.state = Y.state
      /\ X.current_group = IF UserFound(s, u) THEN g ELSE Y.current_group
  BY <1>3 DEF Users
<1>5. UserAgrees(w.users[u], X)
  BY <1>1, <1>2, <1>3, <1>4 DEF UserAgrees, UserFound, UserEntries
<1>6. WithHome(s, u, g) = [users |-> [s.users EXCEPT ![u] = X], groups |-> s.groups]
  BY <1>3 DEF WithHome
<1> HIDE DEF X
<1>7. Agrees(m, s)
  BY DEF m
<1>8. Agrees(w, [users |-> [s.users EXCEPT ![u] = X], groups |-> s.groups])
  BY <1>1, <1>4, <1>5, <1>7, AgreesByUser
<1> QED
  BY <1>6, <1>8 DEF w

\* What a list becomes when a name is put behind it, or taken out of it.
LEMMA PlusUserFacts ==
  ASSUME NEW G \in GroupEntries, Filled(G), NEW u \in Names,
         G.user_count < MaxClients
  PROVE  LET H == PlusUser(G, u)
         IN  /\ H \in GroupEntries
             /\ UsersOf(H) = UsersOf(G) \cup {u} /\ AdminsOf(H) = AdminsOf(G)
             /\ NoRepeat(G.users, G.user_count) /\ u \notin UsersOf(G) =>
                   NoRepeat(H.users, H.user_count)
             /\ H.admins = G.admins /\ H.admin_count = G.admin_count
             /\ H.known = G.known /\ H.active = G.active
<1> DEFINE n == G.user_count
           L == [G.users EXCEPT ![n] = u]
           H == PlusUser(G, u)
<1>1. /\ G.users \in Lists /\ n \in 0 .. MaxClients /\ n + 1 \in 0 .. MaxClients
      /\ UsersOf(G) = NamesIn(G.users, n)
  BY LimitsAssumption DEF GroupEntries, UsersOf
<1>2. /\ L \in Lists
      /\ NamesIn(L, n + 1) = NamesIn(G.users, n) \cup {u}
      /\ NoRepeat(G.users, n) /\ u \notin NamesIn(G.users, n) =>
            NoRepeat(L, n + 1)
  BY <1>1, Appended
<1>3. H = [G EXCEPT !.users = L, !.user_count = n + 1]
  BY DEF PlusUser
<1> HIDE DEF L
<1>4. /\ H \in GroupEntries /\ H.users = L /\ H.user_count = n + 1
      /\ H.admins = G.admins /\ H.admin_count = G.admin_count
      /\ H.known = G.known /\ H.active = G.active
  BY <1>1, <1>2, <1>3 DEF GroupEntries
<1> HIDE DEF H
<1> QED
  BY <1>1, <1>2, <1>4 DEF UsersOf, AdminsOf, H

LEMMA MinusUserFacts ==
  ASSUME NEW G \in GroupEntries, Filled(G), NEW u \in UsersOf(G),
         NoRepeat(G.users, G.user_count)
  PROVE  LET H == MinusUser(G, FirstOf(G.users, G.user_count, u))
         IN  /\ H \in GroupEntries
             /\ UsersOf(H) = UsersOf(G) \ {u} /\ AdminsOf(H) = AdminsOf(G)
             /\ NoRepeat(H.users, H.user_count)
             /\ H.admins = G.admins /\ H.admin_count = G.admin_count
             /\ H.known = G.known /\ H.active = G.active
<1> DEFINE n == G.user_count
           i == FirstOf(G.users, n, u)
           c == n - 1 - i
           L == Shifted(G.users, i, c)
           H == MinusUser(G, i)
<1>1. /\ G.users \in Lists /\ n \in 0 .. MaxClients /\ MaxClients \in Nat
      /\ UsersOf(G) = NamesIn(G.users, n)
  BY LimitsAssumption DEF GroupEntries, UsersOf
<1>2. i \in 0 .. n - 1 /\ G.users[i] = u
  BY <1>1, Searches
<1> HIDE DEF i
<1>3. c \in 0 .. n - 1 - i /\ n \in Nat /\ n - 1 \in 0 .. MaxClients
  BY <1>1, <1>2
<1>4. /\ L \in Lists
      /\ NamesIn(L, n - 1) = Rest(G.users, n, i)
      /\ NoRepeat(L, n - 1)
  BY <1>1, <1>2, <1>3, ShiftedEntries, ShiftedNames
<1>5. Rest(G.users, n, i) = UsersOf(G) \ {u}
  BY <1>1, <1>2, <1>3, RestOfDistinct
<1>6. H = [G EXCEPT !.users = L, !.user_count = n - 1]
  BY DEF MinusUser
<1> HIDE DEF L
<1>7. /\ H \in GroupEntries /\ H.users = L /\ H.user_count = n - 1
      /\ H.admins = G.admins /\ H.admin_count = G.admin_count
      /\ H.known = G.known /\ H.active = G.active
  BY <1>3, <1>4, <1>6 DEF GroupEntries
<1> HIDE DEF H
<1> QED
  BY <1>4, <1>5, <1>7 DEF UsersOf, AdminsOf, H, i

LEMMA PlusAdminFacts ==
  ASSUME NEW G \in GroupEntries, Filled(G), NEW u \in Names,
         G.admin_count < MaxClients
  PROVE  LET H == PlusAdmin(G, u)
         IN  /\ H \in GroupEntries
             /\ AdminsOf(H) = AdminsOf(G) \cup {u} /\ UsersOf(H) = UsersOf(G)
             /\ NoRepeat(G.admins, G.admin_count) /\ u \notin AdminsOf(G) =>
                   NoRepeat(H.admins, H.admin_count)
             /\ H.users = G.users /\ H.user_count = G.user_count
             /\ H.known = G.known /\ H.active = G.active
<1> DEFINE n == G.admin_count
           L == [G.admins EXCEPT ![n] = u]
           H == PlusAdmin(G, u)
<1>1. /\ G.admins \in Lists /\ n \in 0 .. MaxClients /\ n + 1 \in 0 .. MaxClients
      /\ AdminsOf(G) = NamesIn(G.admins, n)
  BY LimitsAssumption DEF GroupEntries, AdminsOf
<1>2. /\ L \in Lists
      /\ NamesIn(L, n + 1) = NamesIn(G.admins, n) \cup {u}
      /\ NoRepeat(G.admins, n) /\ u \notin NamesIn(G.admins, n) =>
            NoRepeat(L, n + 1)
  BY <1>1, Appended
<1>3. H = [G EXCEPT !.admins = L, !.admin_count = n + 1]
  BY DEF PlusAdmin
<1> HIDE DEF L
<1>4. /\ H \in GroupEntries /\ H.admins = L /\ H.admin_count = n + 1
      /\ H.users = G.users /\ H.user_count = G.user_count
      /\ H.known = G.known /\ H.active = G.active
  BY <1>1, <1>2, <1>3 DEF GroupEntries
<1> HIDE DEF H
<1> QED
  BY <1>1, <1>2, <1>4 DEF AdminsOf, UsersOf, H

LEMMA MinusAdminFacts ==
  ASSUME NEW G \in GroupEntries, Filled(G), NEW u \in AdminsOf(G),
         NoRepeat(G.admins, G.admin_count)
  PROVE  LET H == MinusAdmin(G, FirstOf(G.admins, G.admin_count, u))
         IN  /\ H \in GroupEntries
             /\ AdminsOf(H) = AdminsOf(G) \ {u} /\ UsersOf(H) = UsersOf(G)
             /\ NoRepeat(H.admins, H.admin_count)
             /\ H.users = G.users /\ H.user_count = G.user_count
             /\ H.known = G.known /\ H.active = G.active
<1> DEFINE n == G.admin_count
           i == FirstOf(G.admins, n, u)
           c == n - 1 - i
           L == Shifted(G.admins, i, c)
           H == MinusAdmin(G, i)
<1>1. /\ G.admins \in Lists /\ n \in 0 .. MaxClients /\ MaxClients \in Nat
      /\ AdminsOf(G) = NamesIn(G.admins, n)
  BY LimitsAssumption DEF GroupEntries, AdminsOf
<1>2. i \in 0 .. n - 1 /\ G.admins[i] = u
  BY <1>1, Searches
<1> HIDE DEF i
<1>3. c \in 0 .. n - 1 - i /\ n \in Nat /\ n - 1 \in 0 .. MaxClients
  BY <1>1, <1>2
<1>4. /\ L \in Lists
      /\ NamesIn(L, n - 1) = Rest(G.admins, n, i)
      /\ NoRepeat(L, n - 1)
  BY <1>1, <1>2, <1>3, ShiftedEntries, ShiftedNames
<1>5. Rest(G.admins, n, i) = AdminsOf(G) \ {u}
  BY <1>1, <1>2, <1>3, RestOfDistinct
<1>6. H = [G EXCEPT !.admins = L, !.admin_count = n - 1]
  BY DEF MinusAdmin
<1> HIDE DEF L
<1>7. /\ H \in GroupEntries /\ H.admins = L /\ H.admin_count = n - 1
      /\ H.users = G.users /\ H.user_count = G.user_count
      /\ H.known = G.known /\ H.active = G.active
  BY <1>3, <1>4, <1>6 DEF GroupEntries
<1> HIDE DEF H
<1> QED
  BY <1>4, <1>5, <1>7 DEF AdminsOf, UsersOf, H, i

\* u becomes a member of g, or stops being one, and nothing else.
WithMember(s, g, u) ==
    [users  |-> s.users,
     groups |-> [s.groups EXCEPT ![g].users = @ \cup {u}]]

WithoutMember(s, g, u) ==
    [users  |-> s.users,
     groups |-> [s.groups EXCEPT ![g].users = @ \ {u}]]

LEMMA AppendUserAgrees ==
  ASSUME NEW run \in Runs, NEW g \in Groups, NEW u \in Names,
         NEW s, Agrees(Now(run), s),
         Live(Now(run), g), u \notin UsersOf(Now(run).groups[g]),
         s.users[u].state # "absent"
  PROVE  Agrees(Now(AppendUser(run, g, u)), WithMember(s, g, u))
<1> DEFINE m == Now(run)
           w == Now(AppendUser(run, g, u))
           G == m.groups[g]
           H == PlusUser(G, u)
           Y == s.groups[g]
           X == [Y EXCEPT !.users = @ \cup {u}]
<1>1. m \in Sound /\ G \in GroupEntries /\ Filled(G) /\ G.user_count < MaxClients
  BY SlotOf, RoomInLists
<1>2. GroupAgrees(G, Y) /\ Y \in GroupSlots /\ s.groups \in [Groups -> GroupSlots]
  BY SlotTypes DEF Agrees
<1>3. OnlyGroup(m, w, g) /\ w.groups[g] = H
  BY <1>1, AppendUserWrites
<1>4. Agrees(m, s) /\ Exists(G) /\ u \notin UsersOf(G)
  BY DEF Live, Exists
<1> HIDE DEF m, w, G
<1>5. /\ UsersOf(H) = UsersOf(G) \cup {u} /\ AdminsOf(H) = AdminsOf(G)
      /\ NoRepeat(G.users, G.user_count) => NoRepeat(H.users, H.user_count)
      /\ H.admins = G.admins /\ H.admin_count = G.admin_count
      /\ H.known = G.known /\ H.active = G.active
  BY <1>1, <1>4, PlusUserFacts
<1> HIDE DEF H
<1>6. /\ X \in GroupSlots /\ X.users = Y.users \cup {u} /\ X.admins = Y.admins
      /\ X.state = Y.state
  BY <1>2 DEF GroupSlots
<1>7. GroupAgrees(w.groups[g], X)
  BY <1>2, <1>3, <1>4, <1>5, <1>6 DEF GroupAgrees, Exists
<1>8. \A v \in X.users : s.users[v].state # "absent"
  BY <1>4, <1>6 DEF Agrees, MembersHaveSlots
<1>9. WithMember(s, g, u) = [users |-> s.users, groups |-> [s.groups EXCEPT ![g] = X]]
  BY DEF WithMember
<1> HIDE DEF X
<1>10. Agrees(w, [users |-> s.users, groups |-> [s.groups EXCEPT ![g] = X]])
  BY <1>3, <1>4, <1>6, <1>7, <1>8, AgreesByGroup
<1> QED
  BY <1>9, <1>10 DEF w

LEMMA DropUserAgrees ==
  ASSUME NEW run \in Runs, NEW g \in Groups, NEW u,
         NEW s, Agrees(Now(run), s), Live(Now(run), g),
         u \in UsersOf(Now(run).groups[g])
  PROVE  Agrees(Now(DropUser(run, g, u)), WithoutMember(s, g, u))
<1> DEFINE m == Now(run)
           w == Now(DropUser(run, g, u))
           G == m.groups[g]
           H == MinusUser(G, FirstOf(G.users, G.user_count, u))
           Y == s.groups[g]
           X == [Y EXCEPT !.users = @ \ {u}]
<1>1. m \in Sound /\ G \in GroupEntries /\ Filled(G)
  BY SlotOf
<1>2. GroupAgrees(G, Y) /\ Y \in GroupSlots /\ s.groups \in [Groups -> GroupSlots]
  BY SlotTypes DEF Agrees
<1>3. OnlyGroup(m, w, g) /\ w.groups[g] = H
  BY DropUserWrites
<1>4. Agrees(m, s) /\ u \in UsersOf(G) /\ Exists(G)
  BY DEF Live, Exists
<1> HIDE DEF m, w, G
<1>5. /\ UsersOf(H) = UsersOf(G) \ {u} /\ AdminsOf(H) = AdminsOf(G)
      /\ NoRepeat(H.users, H.user_count)
      /\ H.admins = G.admins /\ H.admin_count = G.admin_count
      /\ H.known = G.known /\ H.active = G.active
  BY <1>1, <1>2, <1>4, MinusUserFacts DEF GroupAgrees
<1> HIDE DEF H
<1>6. /\ X \in GroupSlots /\ X.users = Y.users \ {u} /\ X.admins = Y.admins
      /\ X.state = Y.state
  BY <1>2 DEF GroupSlots
<1>7. GroupAgrees(w.groups[g], X)
  BY <1>2, <1>3, <1>4, <1>5, <1>6 DEF GroupAgrees, Exists
<1>8. \A v \in X.users : s.users[v].state # "absent"
  BY <1>4, <1>6 DEF Agrees, MembersHaveSlots
<1>9. WithoutMember(s, g, u) = [users |-> s.users, groups |-> [s.groups EXCEPT ![g] = X]]
  BY DEF WithoutMember
<1> HIDE DEF X
<1>10. Agrees(w, [users |-> s.users, groups |-> [s.groups EXCEPT ![g] = X]])
  BY <1>3, <1>4, <1>6, <1>7, <1>8, AgreesByGroup
<1> QED
  BY <1>9, <1>10 DEF w

LEMMA AppendAdminAgrees ==
  ASSUME NEW run \in Runs, NEW g \in Groups, NEW u \in Names,
         NEW s, Agrees(Now(run), s),
         Live(Now(run), g), u \notin AdminsOf(Now(run).groups[g])
  PROVE  Agrees(Now(AppendAdmin(run, g, u)), GroupAddAdmin(s, g, u))
<1> DEFINE m == Now(run)
           w == Now(AppendAdmin(run, g, u))
           G == m.groups[g]
           H == PlusAdmin(G, u)
           Y == s.groups[g]
           X == [Y EXCEPT !.admins = @ \cup {u}]
<1>1. m \in Sound /\ G \in GroupEntries /\ Filled(G) /\ G.admin_count < MaxClients
  BY SlotOf, RoomInLists
<1>2. GroupAgrees(G, Y) /\ Y \in GroupSlots /\ s.groups \in [Groups -> GroupSlots]
  BY SlotTypes DEF Agrees
<1>3. OnlyGroup(m, w, g) /\ w.groups[g] = H
  BY <1>1, AppendAdminWrites
<1>4. Agrees(m, s) /\ Exists(G) /\ u \notin AdminsOf(G)
  BY DEF Live, Exists
<1> HIDE DEF m, w, G
<1>5. /\ AdminsOf(H) = AdminsOf(G) \cup {u} /\ UsersOf(H) = UsersOf(G)
      /\ NoRepeat(G.admins, G.admin_count) => NoRepeat(H.admins, H.admin_count)
      /\ H.users = G.users /\ H.user_count = G.user_count
      /\ H.known = G.known /\ H.active = G.active
  BY <1>1, <1>4, PlusAdminFacts
<1> HIDE DEF H
<1>6. /\ X \in GroupSlots /\ X.admins = Y.admins \cup {u} /\ X.users = Y.users
      /\ X.state = Y.state
  BY <1>2 DEF GroupSlots
<1>7. GroupAgrees(w.groups[g], X)
  BY <1>2, <1>3, <1>4, <1>5, <1>6 DEF GroupAgrees, Exists
<1>8. \A v \in X.users : s.users[v].state # "absent"
  BY <1>4, <1>6 DEF Agrees, MembersHaveSlots
<1>9. GroupAddAdmin(s, g, u) =
        [users |-> s.users, groups |-> [s.groups EXCEPT ![g] = X]]
  BY DEF GroupAddAdmin
<1> HIDE DEF X
<1>10. Agrees(w, [users |-> s.users, groups |-> [s.groups EXCEPT ![g] = X]])
  BY <1>3, <1>4, <1>6, <1>7, <1>8, AgreesByGroup
<1> QED
  BY <1>9, <1>10 DEF w

LEMMA DropAdminAgrees ==
  ASSUME NEW run \in Runs, NEW g \in Groups, NEW u,
         NEW s, Agrees(Now(run), s), Live(Now(run), g),
         u \in AdminsOf(Now(run).groups[g]),
         NEW v \in AdminsOf(Now(run).groups[g]), v # u
  PROVE  Agrees(Now(DropAdmin(run, g, u)), GroupRemoveAdmin(s, g, u))
<1> DEFINE m == Now(run)
           w == Now(DropAdmin(run, g, u))
           G == m.groups[g]
           H == MinusAdmin(G, FirstOf(G.admins, G.admin_count, u))
           Y == s.groups[g]
           X == [Y EXCEPT !.admins = @ \ {u}]
<1>1. m \in Sound /\ G \in GroupEntries /\ Filled(G)
  BY SlotOf
<1>2. GroupAgrees(G, Y) /\ Y \in GroupSlots /\ s.groups \in [Groups -> GroupSlots]
  BY SlotTypes DEF Agrees
<1>3. OnlyGroup(m, w, g) /\ w.groups[g] = H
  BY DropAdminWrites
<1>4. Agrees(m, s) /\ u \in AdminsOf(G) /\ Exists(G)
  BY DEF Live, Exists
<1> HIDE DEF m, w, G
<1>5. /\ AdminsOf(H) = AdminsOf(G) \ {u} /\ UsersOf(H) = UsersOf(G)
      /\ NoRepeat(H.admins, H.admin_count)
      /\ H.users = G.users /\ H.user_count = G.user_count
      /\ H.known = G.known /\ H.active = G.active
  BY <1>1, <1>2, <1>4, MinusAdminFacts DEF GroupAgrees
<1> HIDE DEF H
<1>6. /\ X \in GroupSlots /\ X.admins = Y.admins \ {u} /\ X.users = Y.users
      /\ X.state = Y.state
  BY <1>2 DEF GroupSlots
<1>7. GroupAgrees(w.groups[g], X)
  BY <1>2, <1>3, <1>4, <1>5, <1>6 DEF GroupAgrees, Exists
<1>8. \A x \in X.users : s.users[x].state # "absent"
  BY <1>4, <1>6 DEF Agrees, MembersHaveSlots
<1>9. GroupRemoveAdmin(s, g, u) =
        [users |-> s.users, groups |-> [s.groups EXCEPT ![g] = X]]
  BY DEF GroupRemoveAdmin
<1> HIDE DEF X
<1>10. Agrees(w, [users |-> s.users, groups |-> [s.groups EXCEPT ![g] = X]])
  BY <1>3, <1>4, <1>6, <1>7, <1>8, AgreesByGroup
<1> QED
  BY <1>9, <1>10 DEF w

LEMMA GroupAddUserWrites ==
  ASSUME NEW run \in Runs, NEW g \in Groups, NEW u \in Names
  PROVE  LET r == group_add_user(run, g, u)
         IN  /\ Follows(run, r) /\ Climbs(run, r)
             /\ \A s : Agrees(Now(run), s) =>
                   Agrees(Now(r), IF CanJoinGroup(s, g, u)
                                  THEN GroupAddUser(s, g, u) ELSE s)
<1> DEFINE m  == Now(run)
           r1 == AppendUser(run, g, u)
           r  == group_add_user(run, g, u)
           CanAdd == /\ Live(m, g) /\ m.users[u].active /\ ~Listed(m, g, u)
                     /\ m.groups[g].user_count < MaxClients
<1>1. m \in Sound
  BY NowIsSound
<1>2. ASSUME NEW s, Agrees(m, s)
      PROVE  CanAdd <=> CanJoinGroup(s, g, u)
  <2>1. /\ m.users[u].active <=> UserFound(s, u)
        /\ Live(m, g) <=> GroupFound(s, g)
        /\ Listed(m, g, u) <=> u \in s.groups[g].users
        /\ m.groups[g].user_count = Cardinality(s.groups[g].users)
    BY <1>1, <1>2, SameSearches
  <2> QED
    BY <2>1 DEF CanJoinGroup
<1>3. CASE ~CanAdd
  <2>1. r = run
    BY <1>3 DEF group_add_user
  <2> QED
    BY <1>2, <1>3, <2>1, FollowsItself
<1>4. CASE CanAdd
  <2>1. r = SetCurrent(r1, u, g)
    BY <1>4 DEF group_add_user
  <2>2. Follows(run, r1) /\ Climbs(run, r1)
    BY <1>4, AppendUserWrites
  <2>3. r1 \in Runs
    BY <2>2 DEF Follows
  <2>4. Follows(r1, r) /\ Climbs(r1, r)
    BY <2>1, <2>3, SetCurrentWrites
  <2>5. ASSUME NEW s, Agrees(m, s)
        PROVE  Agrees(Now(r), GroupAddUser(s, g, u))
    <3>1. UserFound(s, u) /\ u \notin UsersOf(m.groups[g])
      BY <1>1, <1>4, <2>5, SameSearches, Found DEF Members
    <3>2. Agrees(Now(r1), WithMember(s, g, u))
      BY <1>4, <2>5, <3>1, AppendUserAgrees DEF UserFound
    <3>3. Agrees(Now(r), WithHome(WithMember(s, g, u), u, g))
      BY <2>1, <2>3, <3>2, SetCurrentAgrees
    <3>4. WithHome(WithMember(s, g, u), u, g) = GroupAddUser(s, g, u)
      BY <3>1 DEF WithHome, WithMember, GroupAddUser, UserFound
    <3> QED
      BY <3>3, <3>4
  <2> HIDE DEF r, r1, CanAdd, m
  <2> QED
    BY <1>2, <1>4, <2>2, <2>4, <2>5, FollowsFurther DEF r, m
<1> QED
  BY <1>3, <1>4

LEMMA GroupRemoveUserWrites ==
  ASSUME NEW run \in Runs, NEW g \in Groups, NEW u \in Names
  PROVE  LET r == group_remove_user(run, g, u)
         IN  /\ Follows(run, r) /\ Descends(run, r)
             /\ \A s : Agrees(Now(run), s) =>
                          Agrees(Now(r), GroupRemoveUser(s, g, u))
<1> DEFINE m  == Now(run)
           r1 == DropUser(run, g, u)
           r  == group_remove_user(run, g, u)
           Inside1 == Live(m, g) /\ Listed(m, g, u)
<1>1. m \in Sound
  BY NowIsSound
<1>2. ASSUME NEW s, Agrees(m, s)
      PROVE  Inside1 <=> IsMember(s, g, u)
  BY <1>1, <1>2, SameSearches DEF IsMember
<1>3. CASE ~Inside1
  <2>1. r = run
    BY <1>3 DEF group_remove_user
  <2>2. ASSUME NEW s, Agrees(m, s)
        PROVE  GroupRemoveUser(s, g, u) = s
    BY <1>2, <1>3, <2>2 DEF GroupRemoveUser
  <2> QED
    BY <2>1, <2>2, FollowsItself
<1>4. CASE Inside1
  <2>1. r = SetCurrent(r1, u, NoGroup)
    BY <1>4 DEF group_remove_user
  <2>2. u \in UsersOf(m.groups[g])
    BY <1>1, <1>4, Found DEF Members
  <2>3. Follows(run, r1) /\ Descends(run, r1)
    BY <2>2, DropUserWrites
  <2>4. r1 \in Runs
    BY <2>3 DEF Follows
  <2>5. Follows(r1, r) /\ Descends(r1, r)
    BY <2>1, <2>4, SetCurrentWrites
  <2>6. ASSUME NEW s, Agrees(m, s)
        PROVE  Agrees(Now(r), GroupRemoveUser(s, g, u))
    <3>1. Agrees(Now(r1), WithoutMember(s, g, u))
      BY <1>4, <2>2, <2>6, DropUserAgrees
    <3>2. Agrees(Now(r), WithHome(WithoutMember(s, g, u), u, NoGroup))
      BY <2>1, <2>4, <3>1, SetCurrentAgrees
    <3>3. WithHome(WithoutMember(s, g, u), u, NoGroup) = GroupRemoveUser(s, g, u)
      BY <1>2, <1>4, <2>6
         DEF WithHome, WithoutMember, GroupRemoveUser, UserFound
    <3> QED
      BY <3>2, <3>3
  <2> HIDE DEF r, r1, Inside1, m
  <2> QED
    BY <2>3, <2>5, <2>6, FollowsFurther DEF r, m
<1> QED
  BY <1>3, <1>4

LEMMA GroupAddAdminWrites ==
  ASSUME NEW run \in Runs, NEW g \in Groups, NEW u \in Names, Live(Now(run), g)
  PROVE  LET r == group_add_admin(run, g, u)
         IN  /\ Follows(run, r) /\ Climbs(run, r)
             /\ \A s : Agrees(Now(run), s) /\ r # run =>
                          Agrees(Now(r), GroupAddAdmin(s, g, u))
<1> DEFINE m == Now(run)
           CanAdd == /\ ~HasRight(m, g, u) /\ Listed(m, g, u)
                     /\ m.groups[g].admin_count < MaxClients
<1>1. CASE ~CanAdd
  <2>1. group_add_admin(run, g, u) = run
    BY <1>1 DEF group_add_admin
  <2> QED
    BY <2>1, FollowsItself
<1>2. CASE CanAdd
  <2>1. group_add_admin(run, g, u) = AppendAdmin(run, g, u)
    BY <1>2 DEF group_add_admin
  <2>2. u \notin AdminsOf(m.groups[g])
    BY <1>2, NowIsSound, Found DEF Admins
  <2>3. Follows(run, AppendAdmin(run, g, u)) /\ Climbs(run, AppendAdmin(run, g, u))
    BY <1>2, AppendAdminWrites
  <2>4. \A s : Agrees(m, s) =>
                  Agrees(Now(AppendAdmin(run, g, u)), GroupAddAdmin(s, g, u))
    BY <2>2, AppendAdminAgrees
  <2> QED
    BY <2>1, <2>3, <2>4
<1> QED
  BY <1>1, <1>2

LEMMA GroupRemoveAdminWrites ==
  ASSUME NEW run \in Runs, NEW g \in Groups, NEW u \in Names, Live(Now(run), g),
         NEW v \in Names, v # u, HasRight(Now(run), g, v)
  PROVE  LET r == group_remove_admin(run, g, u)
         IN  /\ Follows(run, r) /\ Climbs(run, r)
             /\ \A s : Agrees(Now(run), s) /\ r # run =>
                          Agrees(Now(r), GroupRemoveAdmin(s, g, u))
<1> DEFINE m == Now(run)
           CanDrop == HasRight(m, g, u) /\ m.groups[g].admin_count > 1
<1>1. CASE ~CanDrop
  <2>1. group_remove_admin(run, g, u) = run
    BY <1>1 DEF group_remove_admin
  <2> QED
    BY <2>1, FollowsItself
<1>2. CASE CanDrop
  <2>1. group_remove_admin(run, g, u) = DropAdmin(run, g, u)
    BY <1>2 DEF group_remove_admin
  <2>2. u \in AdminsOf(m.groups[g]) /\ v \in AdminsOf(m.groups[g])
    BY <1>2, NowIsSound, Found DEF Admins
  <2>3. Follows(run, DropAdmin(run, g, u)) /\ Climbs(run, DropAdmin(run, g, u))
    BY <2>2, DropAdminWrites
  <2>4. \A s : Agrees(m, s) =>
                  Agrees(Now(DropAdmin(run, g, u)), GroupRemoveAdmin(s, g, u))
    BY <2>2, DropAdminAgrees
  <2> QED
    BY <2>1, <2>3, <2>4
<1> QED
  BY <1>1, <1>2

LEMMA GroupKickUserWrites ==
  ASSUME NEW run \in Runs, NEW g \in Groups, NEW u \in Names, Live(Now(run), g),
         NEW v \in Names, v # u, HasRight(Now(run), g, v)
  PROVE  LET r == group_kick_user(run, g, u)
         IN  /\ Follows(run, r) /\ Descends(run, r)
             /\ \A s : Agrees(Now(run), s) =>
                          Agrees(Now(r), GroupKickUser(s, g, u))
<1> DEFINE m  == Now(run)
           r1 == IF HasRight(m, g, u) THEN DropAdmin(run, g, u) ELSE run
           r  == group_remove_user(r1, g, u)
<1>1. group_kick_user(run, g, u) = r
  BY DEF group_kick_user
<1>2. m \in Sound /\ v \in AdminsOf(m.groups[g])
      /\ (HasRight(m, g, u) <=> u \in AdminsOf(m.groups[g]))
  BY NowIsSound, Found DEF Admins
<1>3. /\ Follows(run, r1) /\ Descends(run, r1)
      /\ \A s : Agrees(m, s) => Agrees(Now(r1), GroupRemoveAdmin(s, g, u))
  <2>1. CASE HasRight(m, g, u)
    <3>1. u \in AdminsOf(m.groups[g])
      BY <1>2, <2>1
    <3>2. /\ Follows(run, DropAdmin(run, g, u))
          /\ Descends(run, DropAdmin(run, g, u))
      BY <1>2, <3>1, DropAdminWrites
    <3>3. \A s : Agrees(m, s) =>
                    Agrees(Now(DropAdmin(run, g, u)), GroupRemoveAdmin(s, g, u))
      BY <1>2, <3>1, DropAdminAgrees
    <3> QED
      BY <2>1, <3>2, <3>3
  <2>2. CASE ~HasRight(m, g, u)
    <3>1. r1 = run
      BY <2>2
    <3>2. ASSUME NEW s, Agrees(m, s)
          PROVE  GroupRemoveAdmin(s, g, u) = s
      <4>1. /\ s.groups \in [Groups -> GroupSlots] /\ s.groups[g] \in GroupSlots
            /\ s = [users |-> s.users, groups |-> s.groups]
        BY <3>2, SlotTypes
      <4>2. u \notin s.groups[g].admins
        BY <1>2, <2>2, <3>2, SameSearches
      <4>3. [s.groups[g] EXCEPT !.admins = @ \ {u}] = s.groups[g]
        BY <4>1, <4>2 DEF GroupSlots
      <4>4. [s.groups EXCEPT ![g].admins = @ \ {u}] = s.groups
        BY <4>1, <4>3
      <4> QED
        BY <4>1, <4>4 DEF GroupRemoveAdmin
    <3> QED
      BY <3>1, <3>2, FollowsItself
  <2> QED
    BY <2>1, <2>2
<1>4. r1 \in Runs
  BY <1>3 DEF Follows
<1> HIDE DEF r1
<1>5. /\ Follows(r1, r) /\ Descends(r1, r)
      /\ \A s : Agrees(Now(r1), s) => Agrees(Now(r), GroupRemoveUser(s, g, u))
  BY <1>4, GroupRemoveUserWrites
<1> HIDE DEF r, m
<1>6. \A s : Agrees(m, s) => Agrees(Now(r), GroupKickUser(s, g, u))
  BY <1>3, <1>5 DEF GroupKickUser
<1>7. Follows(run, r) /\ Descends(run, r)
  BY <1>3, <1>5, FollowsFurther
<1> QED
  BY <1>1, <1>6, <1>7 DEF m

\* There is room for a first administrator.
LEMMA RoomForCreator ==
  ASSUME NEW u \in Names
  PROVE  0 < MaxClients
<1>1. Cardinality(Names) \in Nat /\ Cardinality(Names) # 0
  BY FS_CardinalityType, FS_EmptySet, NamesAssumption
<1> QED
  BY <1>1, EverybodyFits, LimitsAssumption

\* A new group, active and with empty lists, gets its creator.
LEMMA CreatorAddedIsAppend ==
  ASSUME NEW run \in Runs, NEW g \in Groups, NEW u,
         Now(run).groups[g].admin_count = 0
  PROVE  CreatorAdded(run, g, u) =
            IF u = EmptyName THEN run ELSE AppendAdmin(run, g, u)
BY DEF CreatorAdded, AppendAdmin

LEMMA CreatorAddedWrites ==
  ASSUME NEW run \in Runs, NEW g \in Groups, NEW u \in Names,
         Now(run).groups[g].admin_count = 0
  PROVE  LET r == CreatorAdded(run, g, u)
             G == Now(run).groups[g]
             H == Now(r).groups[g]
         IN  /\ Follows(run, r) /\ Climbs(run, r)
             /\ OnlyGroup(Now(run), Now(r), g)
             /\ H \in GroupEntries /\ Filled(H)
             /\ H.known = G.known /\ H.active = G.active
             /\ H.users = G.users /\ H.user_count = G.user_count
             /\ AdminsOf(H) = {u} \ {EmptyName}
             /\ NoRepeat(H.admins, H.admin_count)
<1> DEFINE G == Now(run).groups[g]
           r == CreatorAdded(run, g, u)
<1>1. G \in GroupEntries /\ Filled(G) /\ G.admin_count = 0
  BY SlotOf
<1>2. AdminsOf(G) = {} /\ NoRepeat(G.admins, G.admin_count)
  BY <1>1, NobodyInAnEmptyList DEF AdminsOf
<1>3. CASE u = EmptyName
  <2>1. r = run
    BY <1>3 DEF CreatorAdded
  <2> QED
    BY <1>1, <1>2, <1>3, <2>1, FollowsItself DEF OnlyGroup
<1>4. CASE u # EmptyName
  <2>1. r = AppendAdmin(run, g, u)
    BY <1>4, CreatorAddedIsAppend
  <2>2. G.admin_count < MaxClients
    BY <1>1, RoomForCreator
  <2>3. /\ Follows(run, r) /\ Climbs(run, r) /\ OnlyGroup(Now(run), Now(r), g)
        /\ Now(r).groups[g] = PlusAdmin(G, u)
    BY <2>1, <2>2, AppendAdminWrites
  <2> DEFINE H == PlusAdmin(G, u)
  <2> HIDE DEF G, r
  <2>4. /\ H \in GroupEntries
        /\ AdminsOf(H) = AdminsOf(G) \cup {u}
        /\ NoRepeat(G.admins, G.admin_count) /\ u \notin AdminsOf(G) =>
              NoRepeat(H.admins, H.admin_count)
        /\ H.users = G.users /\ H.user_count = G.user_count
        /\ H.known = G.known /\ H.active = G.active
    BY <1>1, <2>2, PlusAdminFacts
  <2> HIDE DEF H
  <2>5. /\ AdminsOf(H) = {u} \ {EmptyName} /\ NoRepeat(H.admins, H.admin_count)
    BY <1>2, <1>4, <2>4
  <2>6. Filled(H)
    BY <1>1, <2>4, <2>5 DEF Filled, UsersOf
  <2> QED
    BY <2>3, <2>4, <2>5, <2>6 DEF G, r, H
<1> QED
  BY <1>3, <1>4

\* A group that a name was just given.
NewGroup(u) == [state |-> "active", users |-> {}, admins |-> {u} \ {EmptyName},
                color |-> Green]

WithNewGroup(s, g, u) ==
    [users |-> s.users, groups |-> [s.groups EXCEPT ![g] = NewGroup(u)]]

LEMMA NewGroupAgrees ==
  ASSUME NEW m, NEW s, Agrees(m, s), NEW g \in Groups, NEW u \in Names,
         NEW w, OnlyGroup(m, w, g),
         Exists(w.groups[g]),
         w.groups[g].user_count = 0,
         AdminsOf(w.groups[g]) = {u} \ {EmptyName},
         NoRepeat(w.groups[g].admins, w.groups[g].admin_count)
  PROVE  Agrees(w, WithNewGroup(s, g, u))
<1> DEFINE G == w.groups[g]
           X == NewGroup(u)
<1>1. UsersOf(G) = {} /\ NoRepeat(G.users, G.user_count)
  BY NobodyInAnEmptyList DEF UsersOf
<1>2. X \in GroupSlots /\ X.users = {} /\ X.admins = {u} \ {EmptyName}
      /\ X.state = "active"
  BY ColorsAssumption DEF NewGroup, GroupSlots, SlotStates
<1> HIDE DEF X
<1>3. GroupAgrees(G, X)
  BY <1>1, <1>2 DEF GroupAgrees, Exists
<1>4. Agrees(w, [users |-> s.users, groups |-> [s.groups EXCEPT ![g] = X]])
  BY <1>2, <1>3, AgreesByGroup
<1> QED
  BY <1>4 DEF WithNewGroup, X

\* A group made active again.
LEMMA ReactivatedWrites ==
  ASSUME NEW run \in Runs, NEW g \in Groups, NEW u \in Names,
         Now(run).groups[g].known, ~Now(run).groups[g].active
  PROVE  LET r == Reactivated(run, g, u)
         IN  /\ Follows(run, r)
             /\ \A s : Agrees(Now(run), s) =>
                   Climbs(run, r) /\ Agrees(Now(r), WithNewGroup(s, g, u))
<1> DEFINE m  == Now(run)
           G  == m.groups[g]
           G1 == [G EXCEPT !.active = TRUE]
           G2 == [G1 EXCEPT !.user_count = 0]
           G3 == [G2 EXCEPT !.admin_count = 0]
           w1 == GroupWrite(m, g, G1)
           w2 == GroupWrite(w1, g, G2)
           w3 == GroupWrite(w2, g, G3)
           r1 == Append(run, w1)
           r2 == Append(r1, w2)
           r3 == Append(r2, w3)
           r  == CreatorAdded(r3, g, u)
           Empty == G.user_count = 0 /\ G.admin_count = 0
<1>1. /\ m \in Sound /\ G \in GroupEntries /\ Filled(G)
      /\ G.known /\ ~G.active /\ 0 \in 0 .. MaxClients
  BY SlotOf, LimitsAssumption
<1> HIDE DEF m
<1> HIDE DEF G
<1>2. /\ G1 \in GroupEntries /\ G1.users = G.users /\ G1.user_count = G.user_count
      /\ G1.admins = G.admins /\ G1.admin_count = G.admin_count
      /\ G1.known = G.known /\ G1.active
  BY <1>1 DEF GroupEntries
<1> HIDE DEF G1
<1>3. /\ G2 \in GroupEntries /\ G2.users = G.users /\ G2.user_count = 0
      /\ G2.admins = G.admins /\ G2.admin_count = G.admin_count
      /\ G2.known = G.known /\ G2.active
  BY <1>1, <1>2 DEF GroupEntries
<1> HIDE DEF G2
<1>4. /\ G3 \in GroupEntries /\ G3.users = G.users /\ G3.user_count = 0
      /\ G3.admins = G.admins /\ G3.admin_count = 0
      /\ G3.known = G.known /\ G3.active
  BY <1>1, <1>3 DEF GroupEntries
<1> HIDE DEF G3
<1>5. /\ UsersOf(G1) = UsersOf(G) /\ AdminsOf(G1) = AdminsOf(G)
      /\ UsersOf(G2) = {} /\ AdminsOf(G2) = AdminsOf(G)
      /\ UsersOf(G3) = {} /\ AdminsOf(G3) = {}
      /\ Empty => UsersOf(G) = {} /\ AdminsOf(G) = {}
  BY <1>2, <1>3, <1>4, NobodyInAnEmptyList DEF UsersOf, AdminsOf
<1>6. Filled(G1) /\ Filled(G2) /\ Filled(G3)
  BY <1>1, <1>5 DEF Filled
<1>7. /\ Rises(G, G1)
      /\ Empty => Rises(G1, G2) /\ Rises(G2, G3)
  BY <1>1, <1>2, <1>3, <1>4, <1>5 DEF Rises, KeepsRights, Exists
<1>8. /\ Follows(run, r1) /\ w1 \in Sound /\ Now(r1) = w1 /\ OnlyGroup(m, w1, g)
      /\ w1.groups[g] = G1 /\ Climbs(run, r1)
  BY <1>2, <1>6, <1>7, GroupStep DEF m, G
<1>9. r1 \in Runs
  BY <1>8 DEF Follows
<1> HIDE DEF r1, w1
<1>10. /\ Follows(r1, r2) /\ w2 \in Sound /\ Now(r2) = w2 /\ OnlyGroup(w1, w2, g)
       /\ w2.groups[g] = G2 /\ (Empty => Climbs(r1, r2))
  <2>1. w2 = GroupWrite(Now(r1), g, G2) /\ G1 = Now(r1).groups[g]
    BY <1>8
  <2> HIDE DEF w2
  <2>2. /\ Follows(r1, r2) /\ w2 \in Sound /\ Now(r2) = w2
        /\ OnlyGroup(Now(r1), w2, g) /\ w2.groups[g] = G2
        /\ Rises(Now(r1).groups[g], G2) => Climbs(r1, r2)
    BY <1>3, <1>6, <1>9, <2>1, GroupStep, Zenon
  <2> QED
    BY <1>7, <1>8, <2>1, <2>2
<1>11. r2 \in Runs
  BY <1>10 DEF Follows
<1> HIDE DEF r2, w2
<1>12. /\ Follows(r2, r3) /\ w3 \in Sound /\ Now(r3) = w3 /\ OnlyGroup(w2, w3, g)
       /\ w3.groups[g] = G3 /\ (Empty => Climbs(r2, r3))
  <2>1. w3 = GroupWrite(Now(r2), g, G3) /\ G2 = Now(r2).groups[g]
    BY <1>10
  <2> HIDE DEF w3
  <2>2. /\ Follows(r2, r3) /\ w3 \in Sound /\ Now(r3) = w3
        /\ OnlyGroup(Now(r2), w3, g) /\ w3.groups[g] = G3
        /\ Rises(Now(r2).groups[g], G3) => Climbs(r2, r3)
    BY <1>4, <1>6, <1>11, <2>1, GroupStep, Zenon
  <2> QED
    BY <1>7, <1>10, <2>1, <2>2
<1>13. r3 \in Runs
  BY <1>12 DEF Follows
<1>14. run \o <<w1, w2, w3>> = r3
  BY <1>8, <1>10, <1>12, ThreeWrites DEF r1, r2
<1> HIDE DEF w3
<1>15. Reactivated(run, g, u) = r
  <2>1. w1 = [m EXCEPT !.groups[g].active = TRUE]
    BY DEF w1, GroupWrite, G1, G
  <2>2. w2 = [w1 EXCEPT !.groups[g].user_count = 0]
    BY <1>8 DEF w2, GroupWrite, G2
  <2>3. w3 = [w2 EXCEPT !.groups[g].admin_count = 0]
    BY <1>10 DEF w3, GroupWrite, G3
  <2> HIDE DEF r3
  <2>4. Reactivated(run, g, u) = CreatorAdded(run \o <<w1, w2, w3>>, g, u)
    BY <2>1, <2>2, <2>3 DEF Reactivated, m
  <2> QED
    BY <1>14, <2>4
<1> HIDE DEF r3
<1> DEFINE H == Now(r).groups[g]
<1>16. /\ Follows(r3, r) /\ Climbs(r3, r)
       /\ OnlyGroup(Now(r3), Now(r), g)
       /\ H \in GroupEntries /\ Filled(H)
       /\ H.known = G3.known /\ H.active = G3.active
       /\ H.users = G3.users /\ H.user_count = G3.user_count
       /\ AdminsOf(H) = {u} \ {EmptyName}
       /\ NoRepeat(H.admins, H.admin_count)
  <2>1. Now(r3).groups[g] = G3 /\ Now(r3).groups[g].admin_count = 0
    BY <1>4, <1>12
  <2> QED
    BY <1>13, <2>1, CreatorAddedWrites
<1> HIDE DEF r
<1>17. Follows(run, r)
  BY <1>8, <1>9, <1>10, <1>11, <1>12, <1>13, <1>16, FollowsFurther
<1>18. ASSUME NEW s, Agrees(m, s)
       PROVE  Climbs(run, r) /\ Agrees(Now(r), WithNewGroup(s, g, u))
  <2>1. Empty
    <3>1. GroupAgrees(G, s.groups[g])
      BY <1>18 DEF Agrees, G
    <3> QED
      BY <1>1, <3>1 DEF GroupAgrees, Exists
  <2>2. Climbs(run, r)
    BY <2>1, <1>8, <1>10, <1>12, <1>16 DEF Climbs
  <2>3. OnlyGroup(m, Now(r), g)
    BY <1>8, <1>10, <1>12, <1>16 DEF OnlyGroup
  <2>4. Exists(H) /\ H.user_count = 0
    BY <1>1, <1>4, <1>16 DEF Exists
  <2>5. Agrees(Now(r), WithNewGroup(s, g, u))
    BY <1>16, <1>18, <2>3, <2>4, NewGroupAgrees
  <2> QED
    BY <2>2, <2>5
<1> QED
  BY <1>15, <1>17, <1>18 DEF m

\* A group in a new slot: one write, of a slot nobody saw before.
LEMMA CreatedWrites ==
  ASSUME NEW run \in Runs, NEW g \in Groups, NEW u \in Names,
         ~Now(run).groups[g].known
  PROVE  LET r == Created(run, g, u)
         IN  /\ Follows(run, r) /\ Climbs(run, r)
             /\ \A s : Agrees(Now(run), s) =>
                          Agrees(Now(r), WithNewGroup(s, g, u))
<1> DEFINE m  == Now(run)
           G  == m.groups[g]
           G1 == [G EXCEPT !.active = TRUE, !.user_count = 0, !.admin_count = 0]
           w1 == GroupWrite(m, g, G1)
           r1 == <<w1>>
           r2 == CreatorAdded(r1, g, u)
           w2 == Now(r2)
           G2 == w2.groups[g]
           G3 == [G2 EXCEPT !.known = TRUE]
           w3 == GroupWrite(w2, g, G3)
           r  == Append(run, w3)
<1>1. /\ m \in Sound /\ G \in GroupEntries /\ Filled(G) /\ ~G.known
      /\ 0 \in 0 .. MaxClients
  BY SlotOf, LimitsAssumption
<1> HIDE DEF m
<1> HIDE DEF G
<1>2. /\ G1 \in GroupEntries /\ G1.user_count = 0 /\ G1.admin_count = 0 /\ G1.active
  BY <1>1 DEF GroupEntries
<1>3. w1 = [m EXCEPT !.groups[g] = [@ EXCEPT !.active = TRUE, !.user_count = 0,
                                             !.admin_count = 0]]
  BY DEF GroupWrite, G
<1> HIDE DEF G1
<1>4. Filled(G1)
  BY <1>2, NobodyInAnEmptyList DEF Filled, UsersOf, AdminsOf
<1>5. /\ w1 \in Sound /\ w1.users = m.users /\ w1.groups[g] = G1
      /\ \A h \in Groups \ {g} : w1.groups[h] = m.groups[h]
  BY <1>1, <1>2, <1>4, GroupWritten
<1> HIDE DEF w1
<1>6. r1 \in Runs /\ Now(r1) = w1
  <2>1. r1 \in Seq(Sound) /\ r1 # <<>> /\ Len(r1) = 1 /\ r1[1] = w1
    BY <1>5
  <2> QED
    BY <2>1 DEF Runs, Now
<1> HIDE DEF r1
<1>7. /\ Follows(r1, r2) /\ OnlyGroup(w1, w2, g)
      /\ G2 \in GroupEntries /\ Filled(G2) /\ G2.active /\ G2.user_count = 0
      /\ AdminsOf(G2) = {u} \ {EmptyName} /\ NoRepeat(G2.admins, G2.admin_count)
  <2>1. Now(r1).groups[g].admin_count = 0 /\ Now(r1).groups[g] = G1
    BY <1>2, <1>5, <1>6
  <2>2. /\ Follows(r1, r2) /\ OnlyGroup(Now(r1), Now(r2), g)
        /\ G2 \in GroupEntries /\ Filled(G2)
        /\ G2.active = G1.active /\ G2.user_count = G1.user_count
        /\ AdminsOf(G2) = {u} \ {EmptyName} /\ NoRepeat(G2.admins, G2.admin_count)
    BY <1>6, <2>1, CreatorAddedWrites
  <2> QED
    BY <1>2, <1>6, <2>2
<1>8. w2 \in Sound
  BY <1>7, NowIsSound DEF Follows
<1> HIDE DEF r2
<1>9. OnlyGroup(m, w2, g)
  BY <1>5, <1>7 DEF OnlyGroup
<1>10. w3 = [w2 EXCEPT !.groups[g].known = TRUE]
  BY DEF GroupWrite
<1>11. Created(run, g, u) = r
  <2> HIDE DEF w3, w2, r
  <2>1. r = Append(run, w3)
    BY DEF r
  <2>2. w2 = Now(CreatorAdded(<<w1>>, g, u))
    BY DEF w2, r2, r1
  <2> QED
    BY <1>3, <1>10, <2>1, <2>2 DEF Created, m
<1> HIDE DEF w2
<1>12. /\ G3 \in GroupEntries /\ G3.known /\ G3.active
       /\ G3.users = G2.users /\ G3.user_count = 0
       /\ G3.admins = G2.admins /\ G3.admin_count = G2.admin_count
  BY <1>7 DEF GroupEntries
<1>13. w3 = GroupWrite(m, g, G3)
  <2>1. m \in Memories /\ w2 \in Memories
    BY <1>1, <1>8 DEF Sound
  <2>2. m.groups \in [Groups -> GroupEntries] /\ w2.groups \in [Groups -> GroupEntries]
        /\ m = [users |-> m.users, groups |-> m.groups]
        /\ w2 = [users |-> w2.users, groups |-> w2.groups]
    BY <2>1 DEF Memories
  <2> HIDE DEF G3
  <2>3. [m.groups EXCEPT ![g] = G3] = [w2.groups EXCEPT ![g] = G3]
    BY <2>2, <1>9 DEF OnlyGroup
  <2> QED
    BY <2>2, <2>3, <1>9 DEF OnlyGroup, GroupWrite
<1> HIDE DEF G3, w3
<1>14. Filled(G3) /\ Rises(G, G3)
  BY <1>1, <1>7, <1>12
     DEF Filled, UsersOf, AdminsOf, Rises, KeepsRights, Exists
<1>15. /\ Follows(run, r) /\ Now(r) = w3 /\ OnlyGroup(m, w3, g)
       /\ w3.groups[g] = G3 /\ Climbs(run, r)
  <2>1. r = Append(run, GroupWrite(Now(run), g, G3)) /\ G = Now(run).groups[g]
    BY <1>13 DEF m, G
  <2> HIDE DEF r
  <2> QED
    BY <1>12, <1>13, <1>14, <2>1, GroupStep DEF m
<1> HIDE DEF r
<1>16. ASSUME NEW s, Agrees(m, s)
       PROVE  Agrees(Now(r), WithNewGroup(s, g, u))
  <2>1. /\ Exists(G3) /\ AdminsOf(G3) = {u} \ {EmptyName}
        /\ NoRepeat(G3.admins, G3.admin_count)
    BY <1>7, <1>12 DEF Exists, AdminsOf
  <2> QED
    BY <1>12, <1>15, <1>16, <2>1, NewGroupAgrees
<1> QED
  BY <1>11, <1>15, <1>16 DEF m

LEMMA GroupCreateWrites ==
  ASSUME NEW run \in Runs, NEW g \in Groups, NEW u \in Names
  PROVE  LET r == group_create(run, g, u)
         IN  /\ Follows(run, r)
             /\ \A s : Agrees(Now(run), s) =>
                   Climbs(run, r) /\ Agrees(Now(r), GroupCreate(s, g, u))
<1> DEFINE m    == Now(run)
           G    == m.groups[g]
           used == {h \in Groups : m.groups[h].known}
           r    == group_create(run, g, u)
<1>1. m \in Sound
  BY NowIsSound
<1>2. ASSUME NEW s, Agrees(m, s)
      PROVE  /\ Live(m, g) <=> s.groups[g].state = "active"
             /\ G.known <=> s.groups[g].state # "absent"
             /\ used = GroupSlotsUsed(s)
             /\ s.groups[g].state \in {"absent", "inactive", "active"}
             /\ CanCreateGroup(s, g) => GroupCreate(s, g, u) = WithNewGroup(s, g, u)
             /\ ~CanCreateGroup(s, g) => GroupCreate(s, g, u) = s
  <2>1. \A h \in Groups : GroupAgrees(m.groups[h], s.groups[h])
    BY <1>2 DEF Agrees
  <2>2. s.groups[g] \in GroupSlots /\ s = [users |-> s.users, groups |-> s.groups]
    BY <1>2, SlotTypes
  <2>3. GroupCreate(s, g, u) = IF CanCreateGroup(s, g) THEN WithNewGroup(s, g, u) ELSE s
    BY <2>2 DEF GroupCreate, WithNewGroup, NewGroup
  <2>4. used = GroupSlotsUsed(s)
    BY <2>1 DEF GroupSlotsUsed, GroupAgrees
  <2>5. Live(m, g) <=> s.groups[g].state = "active"
    BY <2>1 DEF GroupAgrees, Live, Exists
  <2>6. G.known <=> s.groups[g].state # "absent"
    BY <2>1 DEF GroupAgrees
  <2> QED
    BY <2>2, <2>3, <2>4, <2>5, <2>6 DEF GroupSlots, SlotStates
<1>3. CASE Live(m, g)
  <2>1. r = run
    BY <1>3 DEF group_create
  <2>2. ASSUME NEW s, Agrees(m, s)
        PROVE  GroupCreate(s, g, u) = s
    BY <1>2, <1>3, <2>2 DEF CanCreateGroup
  <2> QED
    BY <2>1, <2>2, FollowsItself
<1>4. CASE ~Live(m, g) /\ G.known
  <2>1. r = Reactivated(run, g, u) /\ ~G.active
    BY <1>4 DEF group_create, Live
  <2>2. /\ Follows(run, r)
        /\ \A s : Agrees(m, s) =>
              Climbs(run, r) /\ Agrees(Now(r), WithNewGroup(s, g, u))
    BY <1>4, <2>1, ReactivatedWrites
  <2>3. ASSUME NEW s, Agrees(m, s)
        PROVE  GroupCreate(s, g, u) = WithNewGroup(s, g, u)
    <3>1. s.groups[g].state = "inactive"
      BY <1>2, <1>4, <2>3
    <3> QED
      BY <1>2, <2>3, <3>1 DEF CanCreateGroup
  <2> QED
    BY <2>2, <2>3
<1>5. CASE ~Live(m, g) /\ ~G.known /\ Cardinality(used) < MaxGroups
  <2>1. r = Created(run, g, u)
    BY <1>5 DEF group_create
  <2>2. /\ Follows(run, r) /\ Climbs(run, r)
        /\ \A s : Agrees(m, s) => Agrees(Now(r), WithNewGroup(s, g, u))
    BY <1>5, <2>1, CreatedWrites
  <2>3. ASSUME NEW s, Agrees(m, s)
        PROVE  GroupCreate(s, g, u) = WithNewGroup(s, g, u)
    <3>1. s.groups[g].state = "absent" /\ used = GroupSlotsUsed(s)
      BY <1>2, <1>5, <2>3
    <3>2. CanCreateGroup(s, g)
      BY <1>5, <3>1 DEF CanCreateGroup
    <3> QED
      BY <1>2, <2>3, <3>2
  <2> QED
    BY <2>2, <2>3
<1>6. CASE ~Live(m, g) /\ ~G.known /\ ~(Cardinality(used) < MaxGroups)
  <2>1. r = run
    BY <1>6 DEF group_create
  <2>2. ASSUME NEW s, Agrees(m, s)
        PROVE  GroupCreate(s, g, u) = s
    <3>1. s.groups[g].state = "absent" /\ used = GroupSlotsUsed(s)
      BY <1>2, <1>6, <2>2
    <3>2. ~CanCreateGroup(s, g)
      BY <1>6, <3>1 DEF CanCreateGroup
    <3> QED
      BY <1>2, <2>2, <3>2
  <2> QED
    BY <2>1, <2>2, FollowsItself
<1> QED
  BY <1>3, <1>4, <1>5, <1>6

\* u after it left the groups of H.
LeftGroups(s, u, H) ==
    [users  |-> [s.users EXCEPT ![u].current_group =
                    IF UserFound(s, u) /\ \E g \in H : IsMember(s, g, u)
                    THEN NoGroup ELSE @],
     groups |-> [g \in Groups |->
                    [s.groups[g] EXCEPT
                       !.users = IF g \in H /\ IsMember(s, g, u)
                                 THEN @ \ {u} ELSE @]]]

LEMMA LeftNoGroup ==
  ASSUME NEW m, NEW s, Agrees(m, s), NEW u \in Names
  PROVE  LeftGroups(s, u, {}) = s
<1>1. /\ s.users \in [Names -> Users] /\ s.groups \in [Groups -> GroupSlots]
      /\ s = [users |-> s.users, groups |-> s.groups]
  BY SlotTypes
<1>2. [s.users EXCEPT ![u].current_group = @] = s.users
  BY <1>1 DEF Users
<1>3. [g \in Groups |-> [s.groups[g] EXCEPT !.users = @]] = s.groups
  BY <1>1 DEF GroupSlots
<1>4. LeftGroups(s, u, {}) =
        [users  |-> [s.users EXCEPT ![u].current_group = @],
         groups |-> [g \in Groups |-> [s.groups[g] EXCEPT !.users = @]]]
  BY DEF LeftGroups
<1> QED
  BY <1>1, <1>2, <1>3, <1>4

LEMMA LeftOneMoreGroup ==
  ASSUME NEW m, NEW s, Agrees(m, s), NEW u \in Names,
         NEW H \in SUBSET Groups, NEW g \in Groups
  PROVE  GroupRemoveUser(LeftGroups(s, u, H), g, u) = LeftGroups(s, u, H \cup {g})
<1> DEFINE t == LeftGroups(s, u, H)
           v == LeftGroups(s, u, H \cup {g})
           member(h) == IsMember(s, h, u)
<1>1. s.users \in [Names -> Users] /\ s.groups \in [Groups -> GroupSlots]
  BY SlotTypes
<1>2. /\ t.users = [s.users EXCEPT ![u].current_group =
                       IF UserFound(s, u) /\ \E h \in H : member(h)
                       THEN NoGroup ELSE @]
      /\ t.groups = [h \in Groups |->
                       [s.groups[h] EXCEPT
                          !.users = IF h \in H /\ member(h) THEN @ \ {u} ELSE @]]
      /\ t = [users |-> t.users, groups |-> t.groups]
  BY DEF LeftGroups
<1>3. /\ v.users = [s.users EXCEPT ![u].current_group =
                       IF UserFound(s, u) /\ \E h \in H \cup {g} : member(h)
                       THEN NoGroup ELSE @]
      /\ v.groups = [h \in Groups |->
                       [s.groups[h] EXCEPT
                          !.users = IF h \in H \cup {g} /\ member(h)
                                    THEN @ \ {u} ELSE @]]
      /\ v = [users |-> v.users, groups |-> v.groups]
  BY DEF LeftGroups
<1>4. IsMember(t, g, u) <=> g \notin H /\ member(g)
  <2> HIDE DEF t, member
  <2>1. s.groups[g] \in GroupSlots
    BY <1>1
  <2>2. t.groups[g] = [s.groups[g] EXCEPT
                         !.users = IF g \in H /\ member(g) THEN @ \ {u} ELSE @]
    BY <1>2
  <2>3. /\ t.groups[g].state = s.groups[g].state
        /\ t.groups[g].users = IF g \in H /\ member(g)
                               THEN s.groups[g].users \ {u} ELSE s.groups[g].users
    BY <2>1, <2>2 DEF GroupSlots
  <2> QED
    BY <2>3 DEF IsMember, GroupFound, member
<1>5. UserFound(t, u) <=> UserFound(s, u)
  BY <1>1, <1>2 DEF UserFound, Users
<1> HIDE DEF t, v, member
<1>6. CASE g \in H \/ ~member(g)
  <2>1. GroupRemoveUser(t, g, u) = t
    BY <1>4, <1>6 DEF GroupRemoveUser
  <2>2. (\E h \in H : member(h)) <=> (\E h \in H \cup {g} : member(h))
    BY <1>6
  <2>3. \A h \in Groups : (h \in H /\ member(h)) <=> (h \in H \cup {g} /\ member(h))
    BY <1>6
  <2>4. t.users = v.users
    BY <1>2, <1>3, <2>2
  <2>5. t.groups = v.groups
    BY <1>2, <1>3, <2>3
  <2> QED
    BY <1>2, <1>3, <2>1, <2>4, <2>5 DEF t, v
<1>7. CASE g \notin H /\ member(g)
  <2>1. GroupRemoveUser(t, g, u) =
          [users  |-> [t.users EXCEPT ![u].current_group =
                         IF UserFound(s, u) THEN NoGroup ELSE @],
           groups |-> [t.groups EXCEPT ![g].users = @ \ {u}]]
    BY <1>4, <1>5, <1>7 DEF GroupRemoveUser
  <2>2. [t.users EXCEPT ![u].current_group =
           IF UserFound(s, u) THEN NoGroup ELSE @] = v.users
    <3>1. \E h \in H \cup {g} : member(h)
      BY <1>7
    <3>2. v.users = [s.users EXCEPT ![u].current_group =
                       IF UserFound(s, u) THEN NoGroup ELSE @]
      BY <1>3, <3>1
    <3>3. CASE UserFound(s, u)
      <4> DEFINE U == s.users[u]
      <4>1. PICK home : t.users = [s.users EXCEPT ![u] = [U EXCEPT !.current_group = home]]
        BY <1>2
      <4>2. t.users[u] = [U EXCEPT !.current_group = home]
        BY <1>1, <4>1
      <4>3. [t.users[u] EXCEPT !.current_group = NoGroup] =
            [U EXCEPT !.current_group = NoGroup]
        BY <1>1, <4>2 DEF Users
      <4>4. [t.users EXCEPT ![u].current_group = NoGroup] =
            [s.users EXCEPT ![u].current_group = NoGroup]
        BY <1>1, <4>1, <4>3
      <4> QED
        BY <3>2, <3>3, <4>4
    <3>4. CASE ~UserFound(s, u)
      <4>1. t.users = [s.users EXCEPT ![u].current_group = @]
        BY <1>2, <3>4
      <4>2. t.users = s.users
        BY <1>1, <4>1 DEF Users
      <4> QED
        BY <1>1, <3>2, <3>4, <4>2
    <3> QED
      BY <3>3, <3>4
  <2>3. [t.groups EXCEPT ![g].users = @ \ {u}] = v.groups
    <3> DEFINE left == [t.groups EXCEPT ![g].users = @ \ {u}]
    <3>1. DOMAIN left = Groups /\ DOMAIN v.groups = Groups
      BY <1>2, <1>3
    <3>2. ASSUME NEW h \in Groups
          PROVE  left[h] = v.groups[h]
      <4>1. s.groups[h] \in GroupSlots
        BY <1>1
      <4>2. CASE h = g
        <5>1. t.groups[g] = [s.groups[g] EXCEPT !.users = @]
          BY <1>2, <1>7
        <5>2. t.groups[g] = s.groups[g]
          BY <4>1, <4>2, <5>1 DEF GroupSlots
        <5>3. v.groups[g] = [s.groups[g] EXCEPT !.users = @ \ {u}]
          BY <1>3, <1>7
        <5>4. left[g] = [t.groups[g] EXCEPT !.users = @ \ {u}]
          BY <1>2
        <5> QED
          BY <4>2, <5>2, <5>3, <5>4
      <4>3. CASE h # g
        <5>1. left[h] = t.groups[h]
          BY <1>2, <4>3
        <5>2. (h \in H /\ member(h)) <=> (h \in H \cup {g} /\ member(h))
          BY <4>3
        <5> QED
          BY <1>2, <1>3, <5>1, <5>2
      <4> QED
        BY <4>2, <4>3
    <3>3. left = [h \in Groups |-> left[h]] /\ v.groups = [h \in Groups |-> v.groups[h]]
      BY <1>2, <1>3
    <3> HIDE DEF left
    <3>4. left = v.groups
      BY <3>2, <3>3
    <3> QED
      BY <3>4 DEF left
  <2> QED
    BY <1>3, <2>1, <2>2, <2>3 DEF t, v
<1> QED
  BY <1>6, <1>7 DEF t, v

\* The loop of user_remove has its turns.
LEMMA LeaveGroupsLoop ==
  ASSUME NEW run \in Runs, NEW u \in Names, NEW slots \in Seq(Groups)
  PROVE  \E f \in [0 .. Len(slots) -> Runs] :
            /\ f[0] = run
            /\ \A k \in 1 .. Len(slots) :
                  f[k] = group_remove_user(f[k - 1], slots[k], u)
            /\ leave_groups(run, u, slots) = f[Len(slots)]
<1> DEFINE n == Len(slots)
           Turn(k, r) == group_remove_user(r, slots[k], u)
           F == [k \in 1 .. n |-> [r \in Runs |-> Turn(k, r)]]
           Loop(f) == [k \in 0 .. n |-> IF k = 0 THEN run ELSE Turn(k, f[k - 1])]
           after == CHOOSE f : f = Loop(f)
<1>1. n \in Nat /\ \A k \in 1 .. n : slots[k] \in Groups
  BY ElementOfSeq, LenProperties
<1>2. \A k \in 1 .. n : \A r \in Runs : Turn(k, r) \in Runs
  BY <1>1, GroupRemoveUserWrites DEF Follows
<1>3. leave_groups(run, u, slots) = after[n]
  BY DEF leave_groups
<1> HIDE DEF n, Turn
<1>4. F \in [1 .. n -> [Runs -> Runs]]
  BY <1>2
<1>5. \A k \in 1 .. n : \A r \in Runs : F[k][r] = Turn(k, r)
  OBVIOUS
<1> HIDE DEF F
<1>6. PICK f \in [0 .. n -> Runs] :
        f[0] = run /\ \A k \in 1 .. n : f[k] = F[k][f[k - 1]]
  <2>1. LoopOf(Runs, run, n, F) # {}
    BY <1>1, <1>4, LoopStates
  <2> QED
    BY <2>1 DEF LoopOf
<1>7. \A k \in 1 .. n : k - 1 \in 0 .. n /\ f[k - 1] \in Runs
  BY <1>1
<1>8. \A k \in 1 .. n : f[k] = Turn(k, f[k - 1])
  BY <1>5, <1>6, <1>7
<1>9. f = Loop(f)
  BY <1>1, <1>6, <1>8
<1>10. after = Loop(after)
  BY <1>9
<1> HIDE DEF after
<1>11. /\ after[0] = run
       /\ \A k \in 1 .. n : k \in 0 .. n /\ after[k] = Turn(k, after[k - 1])
  BY <1>1, <1>10
<1>12. \A k \in 0 .. n : after[k] \in Runs
  <2> DEFINE T == {k \in 0 .. n : after[k] \in Runs}
  <2>1. 0 \in T
    BY <1>1, <1>11
  <2>2. \A k \in 1 .. n : k - 1 \in T => k \in T
    BY <1>2, <1>11
  <2> HIDE DEF T
  <2>3. \A k \in 0 .. n : k \in T
    BY <1>1, <2>1, <2>2, LoopInduction
  <2> QED
    BY <2>3 DEF T
<1>13. after \in [0 .. n -> Runs]
  BY <1>10, <1>12
<1> QED
  BY <1>3, <1>11, <1>13 DEF n, Turn

\* user_remove's loop: u leaves the groups in the slots it passes.
LEMMA LeaveGroupsWrites ==
  ASSUME NEW run \in Runs, NEW u \in Names, NEW slots \in Seq(Groups)
  PROVE  LET r == leave_groups(run, u, slots)
             H == {slots[j] : j \in 1 .. Len(slots)}
         IN  /\ Follows(run, r) /\ Descends(run, r)
             /\ \A s : Agrees(Now(run), s) => Agrees(Now(r), LeftGroups(s, u, H))
<1> DEFINE n == Len(slots)
           H(k) == {slots[j] : j \in 1 .. k}
<1>1. PICK f \in [0 .. n -> Runs] :
        /\ f[0] = run
        /\ \A k \in 1 .. n : f[k] = group_remove_user(f[k - 1], slots[k], u)
        /\ leave_groups(run, u, slots) = f[n]
  BY LeaveGroupsLoop
<1>2. n \in Nat /\ \A k \in 1 .. n : slots[k] \in Groups
  BY ElementOfSeq, LenProperties
<1> DEFINE Left(k) == \A s : Agrees(Now(run), s) =>
                         Agrees(Now(f[k]), LeftGroups(s, u, H(k)))
           T == {k \in 0 .. n : Follows(run, f[k]) /\ Descends(run, f[k]) /\ Left(k)}
<1> HIDE DEF n
<1>3. 0 \in T
  <2>1. H(0) = {}
    OBVIOUS
  <2>2. Left(0)
    <3> SUFFICES ASSUME NEW s, Agrees(Now(run), s)
                 PROVE  Agrees(Now(f[0]), LeftGroups(s, u, H(0)))
      OBVIOUS
    <3>1. LeftGroups(s, u, {}) = s
      BY LeftNoGroup
    <3> QED
      BY <1>1, <2>1, <3>1
  <2>3. Follows(run, f[0]) /\ Descends(run, f[0])
    BY <1>1, FollowsItself
  <2> HIDE DEF Left
  <2> QED
    BY <1>2, <2>2, <2>3
<1>4. ASSUME NEW k \in 1 .. n, k - 1 \in T
      PROVE  k \in T
  <2> DEFINE g == slots[k]
             r == f[k - 1]
  <2>1. /\ r \in Runs /\ g \in Groups /\ f[k] = group_remove_user(r, g, u)
        /\ k \in 0 .. n
    BY <1>1, <1>2
  <2>2. Follows(run, r) /\ Descends(run, r) /\ Left(k - 1)
    BY <1>4
  <2>3. H(k) = H(k - 1) \cup {g} /\ H(k - 1) \in SUBSET Groups
    <3>1. \A j : j \in 1 .. k <=> j \in 1 .. k - 1 \/ j = k
      BY <1>2
    <3>2. \A j \in 1 .. k - 1 : slots[j] \in Groups
      BY <1>2
    <3> QED
      BY <3>1, <3>2
  <2> HIDE DEF g, r, H
  <2>4. /\ Follows(r, f[k]) /\ Descends(r, f[k])
        /\ \A s : Agrees(Now(r), s) => Agrees(Now(f[k]), GroupRemoveUser(s, g, u))
    BY <2>1, GroupRemoveUserWrites
  <2>5. Follows(run, f[k]) /\ Descends(run, f[k])
    BY <2>2, <2>4, FollowsFurther
  <2>6. Left(k)
    <3> SUFFICES ASSUME NEW s, Agrees(Now(run), s)
                 PROVE  Agrees(Now(f[k]), LeftGroups(s, u, H(k)))
      OBVIOUS
    <3>1. Agrees(Now(r), LeftGroups(s, u, H(k - 1)))
      BY <2>2 DEF r
    <3>2. GroupRemoveUser(LeftGroups(s, u, H(k - 1)), g, u) = LeftGroups(s, u, H(k))
      BY <2>1, <2>3, LeftOneMoreGroup
    <3> QED
      BY <2>4, <3>1, <3>2
  <2> HIDE DEF Left
  <2> QED
    BY <2>1, <2>5, <2>6
<1> HIDE DEF T
<1>5. n \in T
  <2>1. \A k \in 0 .. n : k \in T
    BY <1>2, <1>3, <1>4, LoopInduction
  <2> QED
    BY <1>2, <2>1
<1> QED
  BY <1>1, <1>5 DEF T, n

\* The loop passes every group.
LEMMA AllGroups ==
  ASSUME NEW slots \in SetToSeqs(Groups)
  PROVE  slots \in Seq(Groups) /\ {slots[j] : j \in 1 .. Len(slots)} = Groups
<1> DEFINE c == Cardinality(Groups)
           D == 1 .. c
<1>1. c \in Nat /\ IsFiniteSet(Groups)
  BY GroupsAssumption, FS_CardinalityType
<1>2. slots \in [D -> Groups] /\ \A i, j \in D : i # j => slots[i] # slots[j]
  BY DEF SetToSeqs
<1> HIDE DEF c
<1>3. slots \in Seq(Groups) /\ Len(slots) = c
  <2>1. slots \in Seq(Groups)
    BY <1>1, <1>2, SeqDef
  <2> DEFINE n == Len(slots)
  <2>2. DOMAIN slots = 1 .. n /\ n \in Nat
    BY <2>1, LenProperties
  <2> HIDE DEF n
  <2>3. \A k : k \in 1 .. n <=> k \in 1 .. c
    BY <1>2, <2>2, Zenon
  <2>4. n <= c
    <3>1. CASE n = 0
      BY <1>1, <3>1
    <3>2. CASE n # 0
      <4>1. n \in 1 .. n
        BY <2>2, <3>2
      <4>2. n \in 1 .. c
        BY <2>3, <4>1, Zenon
      <4> QED
        BY <1>1, <4>2
    <3> QED
      BY <3>1, <3>2
  <2>5. c <= n
    BY <1>1, <2>2, <2>3
  <2>6. n = c
    BY <1>1, <2>2, <2>4, <2>5
  <2> QED
    BY <2>1, <2>6 DEF n
<1>4. slots \in Injection(D, Groups)
  BY <1>2 DEF Injection, IsInjective
<1>5. IsFiniteSet(D) /\ Cardinality(D) = c
  <2>1. IsFiniteSet(1 .. c) /\ Cardinality(1 .. c) = IF 1 > c THEN 0 ELSE c - 1 + 1
    BY <1>1, FS_Interval
  <2> QED
    BY <1>1, <2>1
<1> HIDE DEF D
<1>6. slots \in Surjection(D, Groups)
  BY <1>1, <1>4, <1>5, FS_Injection DEF c
<1>7. \A g \in Groups : \E j \in D : slots[j] = g
  BY <1>6 DEF Surjection
<1> QED
  BY <1>2, <1>3, <1>7 DEF D

LEMMA UserRemoveWrites ==
  ASSUME NEW run \in Runs, NEW u \in Names, NEW slots \in SetToSeqs(Groups)
  PROVE  LET r == user_remove(run, u, slots)
         IN  /\ Follows(run, r) /\ Descends(run, r)
             /\ \A s : Agrees(Now(run), s) /\ s.users[u].state # "absent" =>
                          Agrees(Now(r), UserRemove(s, u))
<1> DEFINE r1 == leave_groups(run, u, slots)
           m1 == Now(r1)
           U  == m1.users[u]
           V  == [U EXCEPT !.active = FALSE]
           w  == UserWrite(m1, u, V)
           r  == Append(r1, w)
<1>1. slots \in Seq(Groups) /\ {slots[j] : j \in 1 .. Len(slots)} = Groups
  BY AllGroups
<1>2. /\ Follows(run, r1) /\ Descends(run, r1)
      /\ \A s : Agrees(Now(run), s) => Agrees(m1, LeftGroups(s, u, Groups))
  BY <1>1, LeaveGroupsWrites
<1>3. r1 \in Runs
  BY <1>2 DEF Follows
<1> HIDE DEF r1
<1>4. m1 \in Sound /\ U \in UserEntries
  BY <1>3, NowIsSound DEF Sound, Memories
<1>5. w = [m1 EXCEPT !.users[u].active = FALSE]
  BY DEF UserWrite
<1>6. user_remove(run, u, slots) = r
  BY <1>5 DEF user_remove, r1
<1>7. V \in UserEntries /\ ~V.active /\ V.current_group = U.current_group
  BY <1>4 DEF UserEntries
<1>8. /\ Follows(r1, r) /\ Descends(r1, r) /\ Now(r) = w
      /\ OnlyUser(m1, w, u) /\ w.users[u] = V
  <2> HIDE DEF V
  <2> QED
    BY <1>3, <1>7, UserStep
<1> HIDE DEF w, r, m1, U, V
<1>9. Follows(run, r) /\ Descends(run, r)
  BY <1>2, <1>3, <1>8, FollowsFurther
<1>10. ASSUME NEW s, Agrees(Now(run), s), s.users[u].state # "absent"
       PROVE  Agrees(Now(r), UserRemove(s, u))
  <2> DEFINE t == LeftGroups(s, u, Groups)
             Y == t.users[u]
             X == [Y EXCEPT !.state = "inactive"]
             left == {g \in Groups : IsMember(s, g, u)}
             home == IF UserFound(s, u) /\ left # {}
                     THEN NoGroup ELSE s.users[u].current_group
             gone == [g \in Groups |->
                        [s.groups[g] EXCEPT
                           !.users = IF g \in left THEN @ \ {u} ELSE @]]
  <2>1. Agrees(m1, t)
    BY <1>2, <1>10
  <2>2. s.users \in [Names -> Users] /\ s.groups \in [Groups -> GroupSlots]
    BY <1>10, SlotTypes
  <2>3. t.users = [s.users EXCEPT ![u].current_group = home]
    BY DEF LeftGroups
  <2>4. t.groups = gone
    BY DEF LeftGroups
  <2>5. UserRemove(s, u) =
          [users |-> [s.users EXCEPT ![u].state = "inactive",
                                     ![u].current_group = home],
           groups |-> gone]
    BY <1>10 DEF UserRemove
  <2> HIDE DEF t, gone
  <2>6. s.users[u] \in Users /\ home \in Groups \cup {NoGroup}
    BY <2>2 DEF Users
  <2> HIDE DEF home
  <2>7. Y = [s.users[u] EXCEPT !.current_group = home]
    BY <2>2, <2>3
  <2>8. /\ X \in Users /\ X.state = "inactive"
        /\ X.current_group = Y.current_group
        /\ X = [s.users[u] EXCEPT !.state = "inactive", !.current_group = home]
    BY <2>6, <2>7 DEF Users, SlotStates
  <2>9. UserAgrees(U, Y)
    BY <2>1 DEF Agrees, U
  <2> HIDE DEF X
  <2>10. UserAgrees(w.users[u], X)
    BY <1>7, <1>8, <2>8, <2>9 DEF UserAgrees
  <2> HIDE DEF Y
  <2>11. Agrees(w, [users |-> [t.users EXCEPT ![u] = X], groups |-> t.groups])
    BY <1>8, <2>1, <2>8, <2>10, AgreesByUser
  <2>12. [t.users EXCEPT ![u] = X] =
         [s.users EXCEPT ![u].state = "inactive", ![u].current_group = home]
    <3>1. [t.users EXCEPT ![u] = X] = [s.users EXCEPT ![u] = X]
      BY <2>2, <2>3
    <3>2. [s.users EXCEPT ![u].state = "inactive", ![u].current_group = home] =
          [s.users EXCEPT ![u] = [s.users[u] EXCEPT !.state = "inactive",
                                                    !.current_group = home]]
      BY <2>2, <2>6 DEF Users
    <3> QED
      BY <2>8, <3>1, <3>2
  <2> QED
    BY <1>8, <2>4, <2>5, <2>11, <2>12
<1> QED
  BY <1>6, <1>9, <1>10

\* The turns of the loops of group_merge.
Joined(s, g, u) ==
    IF u \in s.groups[g].users THEN s ELSE WithHome(WithMember(s, g, u), u, g)

LEMMA MergeUserWrites ==
  ASSUME NEW run \in Runs, NEW g \in Groups, NEW u \in Names
  PROVE  LET r == merge_user(run, g, u)
         IN  /\ Follows(run, r) /\ Climbs(run, r)
             /\ \A s : Agrees(Now(run), s) /\ GroupFound(s, g)
                         /\ s.users[u].state # "absent" =>
                   Agrees(Now(r), Joined(s, g, u))
<1> DEFINE m  == Now(run)
           r1 == AppendUser(run, g, u)
           r  == merge_user(run, g, u)
           CanAdd == ~Listed(m, g, u) /\ m.groups[g].user_count < MaxClients
<1>1. m \in Sound
  BY NowIsSound
<1>2. ASSUME NEW s, Agrees(m, s)
      PROVE  CanAdd <=> u \notin s.groups[g].users
  <2>1. Listed(m, g, u) <=> u \in s.groups[g].users
    BY <1>1, <1>2, SameSearches
  <2>2. ~Listed(m, g, u) => m.groups[g].user_count < MaxClients
    BY <1>1, <1>2, RoomInLists, Found DEF Members
  <2> QED
    BY <2>1, <2>2
<1>3. CASE ~CanAdd
  <2>1. r = run
    BY <1>3 DEF merge_user
  <2> QED
    BY <1>2, <1>3, <2>1, FollowsItself DEF Joined
<1>4. CASE CanAdd
  <2>1. r = SetCurrent(r1, u, g)
    BY <1>4 DEF merge_user
  <2>2. Follows(run, r1) /\ Climbs(run, r1)
    BY <1>4, AppendUserWrites
  <2>3. r1 \in Runs
    BY <2>2 DEF Follows
  <2>4. Follows(r1, r) /\ Climbs(r1, r)
    BY <2>1, <2>3, SetCurrentWrites
  <2>5. ASSUME NEW s, Agrees(m, s), GroupFound(s, g), s.users[u].state # "absent"
        PROVE  Agrees(Now(r), Joined(s, g, u))
    <3>1. Live(m, g) /\ u \notin UsersOf(m.groups[g])
      BY <1>1, <1>4, <2>5, SameSearches, Found DEF Members
    <3>2. Agrees(Now(r1), WithMember(s, g, u))
      BY <2>5, <3>1, AppendUserAgrees
    <3>3. Agrees(Now(r), WithHome(WithMember(s, g, u), u, g))
      BY <2>1, <2>3, <3>2, SetCurrentAgrees
    <3> QED
      BY <1>2, <1>4, <2>5, <3>3 DEF Joined
  <2> HIDE DEF r, r1, CanAdd, m
  <2> QED
    BY <2>2, <2>4, <2>5, FollowsFurther DEF r, m
<1> QED
  BY <1>3, <1>4

LEMMA MergeAdminWrites ==
  ASSUME NEW run \in Runs, NEW g \in Groups, NEW u \in Names
  PROVE  LET r == merge_admin(run, g, u)
         IN  /\ Follows(run, r) /\ Climbs(run, r)
             /\ \A s : Agrees(Now(run), s) /\ GroupFound(s, g) =>
                   Agrees(Now(r), GroupAddAdmin(s, g, u))
<1> DEFINE m == Now(run)
           CanAdd == ~HasRight(m, g, u) /\ m.groups[g].admin_count < MaxClients
<1>1. m \in Sound
  BY NowIsSound
<1>2. ASSUME NEW s, Agrees(m, s)
      PROVE  CanAdd <=> u \notin s.groups[g].admins
  <2>1. HasRight(m, g, u) <=> u \in s.groups[g].admins
    BY <1>1, <1>2, SameSearches
  <2>2. ~HasRight(m, g, u) => m.groups[g].admin_count < MaxClients
    BY <1>1, <1>2, RoomInLists, Found DEF Admins
  <2> QED
    BY <2>1, <2>2
<1>3. CASE ~CanAdd
  <2>1. merge_admin(run, g, u) = run
    BY <1>3 DEF merge_admin
  <2>2. ASSUME NEW s, Agrees(m, s)
        PROVE  GroupAddAdmin(s, g, u) = s
    <3>1. /\ s.groups \in [Groups -> GroupSlots]
          /\ s = [users |-> s.users, groups |-> s.groups]
          /\ s.groups[g] \in GroupSlots
      BY <2>2, SlotTypes
    <3>2. s.groups[g].admins \cup {u} = s.groups[g].admins
      BY <1>2, <1>3, <2>2
    <3>3. [s.groups EXCEPT ![g].admins = @ \cup {u}] = s.groups
      BY <3>1, <3>2 DEF GroupSlots
    <3> QED
      BY <3>1, <3>3 DEF GroupAddAdmin
  <2> QED
    BY <2>1, <2>2, FollowsItself
<1>4. CASE CanAdd
  <2>1. merge_admin(run, g, u) = AppendAdmin(run, g, u)
    BY <1>4 DEF merge_admin
  <2>2. Follows(run, AppendAdmin(run, g, u)) /\ Climbs(run, AppendAdmin(run, g, u))
    BY <1>4, AppendAdminWrites
  <2>3. ASSUME NEW s, Agrees(m, s), GroupFound(s, g)
        PROVE  Agrees(Now(AppendAdmin(run, g, u)), GroupAddAdmin(s, g, u))
    <3>1. Live(m, g) /\ u \notin AdminsOf(m.groups[g])
      BY <1>1, <1>4, <2>3, SameSearches, Found DEF Admins
    <3> QED
      BY <2>3, <3>1, AppendAdminAgrees
  <2> QED
    BY <2>1, <2>2, <2>3
<1> QED
  BY <1>3, <1>4

\* s after the members, or the administrators, of W joined the group g.
MergedUsers(s, g, W) ==
    [users  |-> [u \in Names |->
                   IF u \in W \ s.groups[g].users /\ UserFound(s, u)
                   THEN [s.users[u] EXCEPT !.current_group = g]
                   ELSE s.users[u]],
     groups |-> [s.groups EXCEPT ![g].users = @ \cup W]]

MergedAdmins(s, g, W) ==
    [users  |-> s.users,
     groups |-> [s.groups EXCEPT ![g].admins = @ \cup W]]

LEMMA NobodyMerged ==
  ASSUME NEW m, NEW s, Agrees(m, s), NEW g \in Groups
  PROVE  MergedUsers(s, g, {}) = s /\ MergedAdmins(s, g, {}) = s
<1>1. /\ s.users \in [Names -> Users] /\ s.groups \in [Groups -> GroupSlots]
      /\ s = [users |-> s.users, groups |-> s.groups]
  BY SlotTypes
<1>2. [u \in Names |-> s.users[u]] = s.users
  BY <1>1
<1>3. /\ [s.groups EXCEPT ![g].users = @ \cup {}] = s.groups
      /\ [s.groups EXCEPT ![g].admins = @ \cup {}] = s.groups
  <2>1. /\ s.groups[g].users \cup {} = s.groups[g].users
        /\ s.groups[g].admins \cup {} = s.groups[g].admins
        /\ s.groups[g] \in GroupSlots
    BY <1>1
  <2> QED
    BY <1>1, <2>1 DEF GroupSlots
<1>4. MergedUsers(s, g, {}) = [users  |-> [u \in Names |-> s.users[u]],
                               groups |-> [s.groups EXCEPT ![g].users = @ \cup {}]]
  BY DEF MergedUsers
<1> QED
  BY <1>1, <1>2, <1>3, <1>4 DEF MergedAdmins

LEMMA OneMoreUserMerged ==
  ASSUME NEW m, NEW s, Agrees(m, s), NEW g \in Groups, NEW W \in SUBSET Names,
         NEW u \in Names
  PROVE  Joined(MergedUsers(s, g, W), g, u) = MergedUsers(s, g, W \cup {u})
<1> DEFINE old == s.groups[g].users
           t == MergedUsers(s, g, W)
           v == MergedUsers(s, g, W \cup {u})
           after(V) == [x \in Names |->
                          IF x \in V \ old /\ UserFound(s, x)
                          THEN [s.users[x] EXCEPT !.current_group = g]
                          ELSE s.users[x]]
           grown(V) == [s.groups EXCEPT ![g].users = @ \cup V]
<1>1. s.users \in [Names -> Users] /\ s.groups \in [Groups -> GroupSlots]
  BY SlotTypes
<1>2. /\ t = [users |-> after(W), groups |-> grown(W)]
      /\ v = [users |-> after(W \cup {u}), groups |-> grown(W \cup {u})]
  BY DEF MergedUsers
<1>3. s.groups[g] \in GroupSlots /\ \A x \in Names : s.users[x] \in Users
  BY <1>1
<1>4. grown(W)[g] = [s.groups[g] EXCEPT !.users = old \cup W]
  BY <1>1
<1>5. t.groups[g].users = old \cup W
  BY <1>2, <1>3, <1>4 DEF GroupSlots
<1>6. CASE u \in old \cup W
  <2>1. Joined(t, g, u) = t
    BY <1>5, <1>6 DEF Joined
  <2>2. \A x \in Names : x \in W \ old <=> x \in (W \cup {u}) \ old
    BY <1>6
  <2>3. after(W) = after(W \cup {u})
    BY <2>2
  <2>4. grown(W) = grown(W \cup {u})
    <3>1. old \cup W = old \cup (W \cup {u})
      BY <1>6
    <3> QED
      BY <1>1, <3>1
  <2> QED
    BY <1>2, <2>1, <2>3, <2>4
<1>7. CASE u \notin old \cup W
  <2>1. Joined(t, g, u) = WithHome(WithMember(t, g, u), u, g)
    BY <1>5, <1>7 DEF Joined
  <2>2. t.users = after(W) /\ t.groups = grown(W)
    BY <1>2
  <2> HIDE DEF t
  <2>3. WithMember(t, g, u) =
          [users |-> t.users, groups |-> [t.groups EXCEPT ![g].users = @ \cup {u}]]
    BY DEF WithMember
  <2>4. WithHome(WithMember(t, g, u), u, g) =
          [users  |-> [t.users EXCEPT ![u].current_group =
                          IF UserFound(t, u) THEN g ELSE @],
           groups |-> [t.groups EXCEPT ![g].users = @ \cup {u}]]
    BY <2>3 DEF WithHome, UserFound
  <2>5. [t.groups EXCEPT ![g].users = @ \cup {u}] = grown(W \cup {u})
    <3>1. t.groups[g] = [s.groups[g] EXCEPT !.users = old \cup W]
      BY <1>4, <2>2
    <3>2. [t.groups[g] EXCEPT !.users = @ \cup {u}] =
          [s.groups[g] EXCEPT !.users = old \cup (W \cup {u})]
      BY <1>3, <3>1 DEF GroupSlots
    <3>3. [t.groups EXCEPT ![g].users = @ \cup {u}] =
          [s.groups EXCEPT ![g] = [t.groups[g] EXCEPT !.users = @ \cup {u}]]
      BY <1>1, <2>2
    <3>4. grown(W \cup {u}) =
          [s.groups EXCEPT ![g] = [s.groups[g] EXCEPT !.users = old \cup (W \cup {u})]]
      BY <1>1
    <3> QED
      BY <3>2, <3>3, <3>4
  <2>6. t.users[u] = s.users[u] /\ (UserFound(t, u) <=> UserFound(s, u))
    BY <1>7, <2>2 DEF UserFound
  <2>7. [t.users EXCEPT ![u].current_group = IF UserFound(t, u) THEN g ELSE @]
          = after(W \cup {u})
    <3> DEFINE now == [t.users EXCEPT ![u].current_group =
                          IF UserFound(t, u) THEN g ELSE @]
    <3>1. now = [x \in Names |-> now[x]]
      BY <2>2
    <3>2. ASSUME NEW x \in Names
          PROVE  now[x] = after(W \cup {u})[x]
      <4>1. CASE x = u
        <5>1. now[u] = [s.users[u] EXCEPT !.current_group =
                          IF UserFound(s, u) THEN g ELSE @]
          BY <2>2, <2>6
        <5>2. u \in (W \cup {u}) \ old
          BY <1>7
        <5>3. CASE UserFound(s, u)
          BY <4>1, <5>1, <5>2, <5>3
        <5>4. CASE ~UserFound(s, u)
          <6>1. [s.users[u] EXCEPT !.current_group = @] = s.users[u]
            BY <1>3 DEF Users
          <6> QED
            BY <4>1, <5>1, <5>2, <5>4, <6>1
        <5> QED
          BY <5>3, <5>4
      <4>2. CASE x # u
        <5>1. now[x] = t.users[x]
          BY <2>2, <4>2
        <5>2. x \in W \ old <=> x \in (W \cup {u}) \ old
          BY <4>2
        <5> QED
          BY <2>2, <5>1, <5>2
      <4> QED
        BY <4>1, <4>2
    <3> HIDE DEF now
    <3>3. now = after(W \cup {u})
      BY <3>1, <3>2
    <3> QED
      BY <3>3 DEF now
  <2> HIDE DEF v, after, grown
  <2>8. Joined(t, g, u) = v
    BY <1>2, <2>1, <2>4, <2>5, <2>7
  <2> QED
    BY <2>8 DEF t, v
<1> QED
  BY <1>6, <1>7

LEMMA OneMoreAdminMerged ==
  ASSUME NEW m, NEW s, Agrees(m, s), NEW g \in Groups, NEW W, NEW u
  PROVE  GroupAddAdmin(MergedAdmins(s, g, W), g, u) = MergedAdmins(s, g, W \cup {u})
<1> DEFINE t == MergedAdmins(s, g, W)
           old == s.groups[g].admins
<1>1. s.groups \in [Groups -> GroupSlots] /\ s.groups[g] \in GroupSlots
  BY SlotTypes
<1>2. t.users = s.users /\ t.groups = [s.groups EXCEPT ![g].admins = old \cup W]
  BY DEF MergedAdmins
<1> HIDE DEF t
<1>3. t.groups[g] = [s.groups[g] EXCEPT !.admins = old \cup W]
  BY <1>1, <1>2
<1>4. [t.groups[g] EXCEPT !.admins = @ \cup {u}] =
      [s.groups[g] EXCEPT !.admins = old \cup (W \cup {u})]
  BY <1>1, <1>3 DEF GroupSlots
<1>5. [t.groups EXCEPT ![g].admins = @ \cup {u}] =
      [s.groups EXCEPT ![g] = [t.groups[g] EXCEPT !.admins = @ \cup {u}]]
  BY <1>1, <1>2
<1>6. [s.groups EXCEPT ![g].admins = @ \cup (W \cup {u})] =
      [s.groups EXCEPT ![g] = [s.groups[g] EXCEPT !.admins = old \cup (W \cup {u})]]
  BY <1>1
<1> QED
  BY <1>2, <1>4, <1>5, <1>6 DEF GroupAddAdmin, MergedAdmins, t

\* The loop over the members of the second group has its turns.
LEMMA MergeUsersLoop ==
  ASSUME NEW run \in Runs, NEW g \in Groups, NEW list \in Lists, NEW n \in Nat,
         NamesIn(list, n) \subseteq Names
  PROVE  \E f \in [0 .. n -> Runs] :
            /\ f[0] = run
            /\ \A k \in 1 .. n : f[k] = merge_user(f[k - 1], g, list[k - 1])
            /\ merge_users(run, g, list, n) = f[n]
<1> DEFINE Turn(k, r) == merge_user(r, g, list[k - 1])
           F == [k \in 1 .. n |-> [r \in Runs |-> Turn(k, r)]]
           Loop(f) == [k \in 0 .. n |-> IF k = 0 THEN run ELSE Turn(k, f[k - 1])]
           after == CHOOSE f : f = Loop(f)
<1>1. \A k \in 1 .. n : list[k - 1] \in Names
  BY DEF NamesIn
<1>2. \A k \in 1 .. n : \A r \in Runs : Turn(k, r) \in Runs
  BY <1>1, MergeUserWrites DEF Follows
<1>3. merge_users(run, g, list, n) = after[n]
  BY DEF merge_users
<1> HIDE DEF Turn
<1>4. F \in [1 .. n -> [Runs -> Runs]]
  BY <1>2
<1>5. \A k \in 1 .. n : \A r \in Runs : F[k][r] = Turn(k, r)
  OBVIOUS
<1> HIDE DEF F
<1>6. PICK f \in [0 .. n -> Runs] :
        f[0] = run /\ \A k \in 1 .. n : f[k] = F[k][f[k - 1]]
  <2>1. LoopOf(Runs, run, n, F) # {}
    BY <1>4, LoopStates
  <2> QED
    BY <2>1 DEF LoopOf
<1>7. \A k \in 1 .. n : k - 1 \in 0 .. n /\ f[k - 1] \in Runs
  OBVIOUS
<1>8. \A k \in 1 .. n : f[k] = Turn(k, f[k - 1])
  BY <1>5, <1>6, <1>7
<1>9. f = Loop(f)
  BY <1>6, <1>8
<1>10. after = Loop(after)
  BY <1>9
<1> HIDE DEF after
<1>11. /\ after[0] = run
       /\ \A k \in 1 .. n : k \in 0 .. n /\ after[k] = Turn(k, after[k - 1])
  BY <1>10
<1>12. \A k \in 0 .. n : after[k] \in Runs
  <2> DEFINE T == {k \in 0 .. n : after[k] \in Runs}
  <2>1. 0 \in T
    BY <1>11
  <2>2. \A k \in 1 .. n : k - 1 \in T => k \in T
    BY <1>2, <1>11
  <2> HIDE DEF T
  <2>3. \A k \in 0 .. n : k \in T
    BY <2>1, <2>2, LoopInduction
  <2> QED
    BY <2>3 DEF T
<1>13. after \in [0 .. n -> Runs]
  BY <1>10, <1>12
<1> QED
  BY <1>3, <1>11, <1>13 DEF Turn

LEMMA MergeUsersWrites ==
  ASSUME NEW run \in Runs, NEW g \in Groups, NEW list \in Lists, NEW n \in Nat,
         NamesIn(list, n) \subseteq Names
  PROVE  LET r == merge_users(run, g, list, n)
         IN  /\ Follows(run, r) /\ Climbs(run, r)
             /\ \A s : Agrees(Now(run), s) /\ GroupFound(s, g)
                         /\ (\A u \in NamesIn(list, n) : s.users[u].state # "absent") =>
                   Agrees(Now(r), MergedUsers(s, g, NamesIn(list, n)))
<1>1. PICK f \in [0 .. n -> Runs] :
        /\ f[0] = run
        /\ \A k \in 1 .. n : f[k] = merge_user(f[k - 1], g, list[k - 1])
        /\ merge_users(run, g, list, n) = f[n]
  BY MergeUsersLoop
<1>2. \A k \in 1 .. n : list[k - 1] \in Names
  BY DEF NamesIn
<1> DEFINE W(k) == NamesIn(list, k)
           Fits(s) == Agrees(Now(run), s) /\ GroupFound(s, g)
                      /\ \A u \in NamesIn(list, n) : s.users[u].state # "absent"
           Moved(k) == \A s : Fits(s) => Agrees(Now(f[k]), MergedUsers(s, g, W(k)))
           T == {k \in 0 .. n : Follows(run, f[k]) /\ Climbs(run, f[k]) /\ Moved(k)}
<1>3. 0 \in T
  <2>1. W(0) = {}
    BY NobodyInAnEmptyList
  <2>2. Moved(0)
    <3> SUFFICES ASSUME NEW s, Fits(s)
                 PROVE  Agrees(Now(f[0]), MergedUsers(s, g, W(0)))
      OBVIOUS
    <3>1. MergedUsers(s, g, {}) = s
      BY NobodyMerged
    <3> QED
      BY <1>1, <2>1, <3>1
  <2>3. Follows(run, f[0]) /\ Climbs(run, f[0])
    BY <1>1, FollowsItself
  <2> HIDE DEF Moved
  <2> QED
    BY <2>2, <2>3
<1>4. ASSUME NEW k \in 1 .. n, k - 1 \in T
      PROVE  k \in T
  <2> DEFINE u == list[k - 1]
             r == f[k - 1]
  <2>1. r \in Runs /\ u \in Names /\ f[k] = merge_user(r, g, u) /\ k \in 0 .. n
    BY <1>1, <1>2
  <2>2. Follows(run, r) /\ Climbs(run, r) /\ Moved(k - 1)
    BY <1>4
  <2>3. W(k) = W(k - 1) \cup {u} /\ W(k - 1) \in SUBSET Names
    <3>1. \A j : j \in 0 .. k - 1 <=> j \in 0 .. k - 1 - 1 \/ j = k - 1
      OBVIOUS
    <3>2. \A j \in 0 .. k - 1 - 1 : list[j] \in Names
      BY DEF NamesIn
    <3> QED
      BY <3>1, <3>2 DEF NamesIn
  <2>4. \A s : Fits(s) => s.users[u].state # "absent"
    BY <2>1 DEF NamesIn
  <2> HIDE DEF u, r, W, Fits
  <2>5. /\ Follows(r, f[k]) /\ Climbs(r, f[k])
        /\ \A t : Agrees(Now(r), t) /\ GroupFound(t, g) /\ t.users[u].state # "absent" =>
                     Agrees(Now(f[k]), Joined(t, g, u))
    BY <2>1, MergeUserWrites
  <2>6. Follows(run, f[k]) /\ Climbs(run, f[k])
    BY <2>2, <2>5, FollowsFurther
  <2>7. Moved(k)
    <3> SUFFICES ASSUME NEW s, Fits(s)
                 PROVE  Agrees(Now(f[k]), MergedUsers(s, g, W(k)))
      OBVIOUS
    <3> DEFINE t == MergedUsers(s, g, W(k - 1))
    <3>1. Agrees(Now(r), t) /\ Agrees(Now(run), s)
      BY <2>2 DEF r, Fits
    <3>2. GroupFound(t, g) /\ t.users[u].state # "absent"
      <4>1. /\ s.users \in [Names -> Users] /\ s.groups \in [Groups -> GroupSlots]
            /\ s.users[u] \in Users /\ s.groups[g] \in GroupSlots
        BY <2>1, <3>1, SlotTypes
      <4>2. GroupFound(s, g) /\ s.users[u].state # "absent"
        BY <2>4 DEF Fits
      <4>3. t.groups[g] = [s.groups[g] EXCEPT !.users = @ \cup W(k - 1)]
        BY <4>1 DEF MergedUsers
      <4>4. \/ t.users[u] = s.users[u]
            \/ t.users[u] = [s.users[u] EXCEPT !.current_group = g]
        BY <2>1 DEF MergedUsers
      <4> HIDE DEF t
      <4>5. t.users[u].state = s.users[u].state
        BY <4>1, <4>4 DEF Users
      <4>6. t.groups[g].state = s.groups[g].state
        BY <4>1, <4>3 DEF GroupSlots
      <4> QED
        BY <4>2, <4>5, <4>6 DEF GroupFound
    <3>3. Joined(t, g, u) = MergedUsers(s, g, W(k))
      BY <2>1, <2>3, <3>1, OneMoreUserMerged
    <3> HIDE DEF t
    <3> QED
      BY <2>5, <3>1, <3>2, <3>3
  <2> HIDE DEF Moved
  <2> QED
    BY <2>1, <2>6, <2>7
<1> HIDE DEF T
<1>5. n \in T
  <2>1. \A k \in 0 .. n : k \in T
    BY <1>3, <1>4, LoopInduction
  <2> QED
    BY <2>1
<1> QED
  BY <1>1, <1>5 DEF T

\* The loop over the administrators of the second group has its turns.
LEMMA MergeAdminsLoop ==
  ASSUME NEW run \in Runs, NEW g \in Groups, NEW list \in Lists, NEW n \in Nat,
         NamesIn(list, n) \subseteq Names
  PROVE  \E f \in [0 .. n -> Runs] :
            /\ f[0] = run
            /\ \A k \in 1 .. n : f[k] = merge_admin(f[k - 1], g, list[k - 1])
            /\ merge_admins(run, g, list, n) = f[n]
<1> DEFINE Turn(k, r) == merge_admin(r, g, list[k - 1])
           F == [k \in 1 .. n |-> [r \in Runs |-> Turn(k, r)]]
           Loop(f) == [k \in 0 .. n |-> IF k = 0 THEN run ELSE Turn(k, f[k - 1])]
           after == CHOOSE f : f = Loop(f)
<1>1. \A k \in 1 .. n : list[k - 1] \in Names
  BY DEF NamesIn
<1>2. \A k \in 1 .. n : \A r \in Runs : Turn(k, r) \in Runs
  BY <1>1, MergeAdminWrites DEF Follows
<1>3. merge_admins(run, g, list, n) = after[n]
  BY DEF merge_admins
<1> HIDE DEF Turn
<1>4. F \in [1 .. n -> [Runs -> Runs]]
  BY <1>2
<1>5. \A k \in 1 .. n : \A r \in Runs : F[k][r] = Turn(k, r)
  OBVIOUS
<1> HIDE DEF F
<1>6. PICK f \in [0 .. n -> Runs] :
        f[0] = run /\ \A k \in 1 .. n : f[k] = F[k][f[k - 1]]
  <2>1. LoopOf(Runs, run, n, F) # {}
    BY <1>4, LoopStates
  <2> QED
    BY <2>1 DEF LoopOf
<1>7. \A k \in 1 .. n : k - 1 \in 0 .. n /\ f[k - 1] \in Runs
  OBVIOUS
<1>8. \A k \in 1 .. n : f[k] = Turn(k, f[k - 1])
  BY <1>5, <1>6, <1>7
<1>9. f = Loop(f)
  BY <1>6, <1>8
<1>10. after = Loop(after)
  BY <1>9
<1> HIDE DEF after
<1>11. /\ after[0] = run
       /\ \A k \in 1 .. n : k \in 0 .. n /\ after[k] = Turn(k, after[k - 1])
  BY <1>10
<1>12. \A k \in 0 .. n : after[k] \in Runs
  <2> DEFINE T == {k \in 0 .. n : after[k] \in Runs}
  <2>1. 0 \in T
    BY <1>11
  <2>2. \A k \in 1 .. n : k - 1 \in T => k \in T
    BY <1>2, <1>11
  <2> HIDE DEF T
  <2>3. \A k \in 0 .. n : k \in T
    BY <2>1, <2>2, LoopInduction
  <2> QED
    BY <2>3 DEF T
<1>13. after \in [0 .. n -> Runs]
  BY <1>10, <1>12
<1> QED
  BY <1>3, <1>11, <1>13 DEF Turn

LEMMA MergeAdminsWrites ==
  ASSUME NEW run \in Runs, NEW g \in Groups, NEW list \in Lists, NEW n \in Nat,
         NamesIn(list, n) \subseteq Names
  PROVE  LET r == merge_admins(run, g, list, n)
         IN  /\ Follows(run, r) /\ Climbs(run, r)
             /\ \A s : Agrees(Now(run), s) /\ GroupFound(s, g) =>
                   Agrees(Now(r), MergedAdmins(s, g, NamesIn(list, n)))
<1>1. PICK f \in [0 .. n -> Runs] :
        /\ f[0] = run
        /\ \A k \in 1 .. n : f[k] = merge_admin(f[k - 1], g, list[k - 1])
        /\ merge_admins(run, g, list, n) = f[n]
  BY MergeAdminsLoop
<1>2. \A k \in 1 .. n : list[k - 1] \in Names
  BY DEF NamesIn
<1> DEFINE W(k) == NamesIn(list, k)
           Fits(s) == Agrees(Now(run), s) /\ GroupFound(s, g)
           Moved(k) == \A s : Fits(s) => Agrees(Now(f[k]), MergedAdmins(s, g, W(k)))
           T == {k \in 0 .. n : Follows(run, f[k]) /\ Climbs(run, f[k]) /\ Moved(k)}
<1>3. 0 \in T
  <2>1. W(0) = {}
    BY NobodyInAnEmptyList
  <2>2. Moved(0)
    <3> SUFFICES ASSUME NEW s, Fits(s)
                 PROVE  Agrees(Now(f[0]), MergedAdmins(s, g, W(0)))
      OBVIOUS
    <3>1. MergedAdmins(s, g, {}) = s
      BY NobodyMerged
    <3> QED
      BY <1>1, <2>1, <3>1
  <2>3. Follows(run, f[0]) /\ Climbs(run, f[0])
    BY <1>1, FollowsItself
  <2> HIDE DEF Moved
  <2> QED
    BY <2>2, <2>3
<1>4. ASSUME NEW k \in 1 .. n, k - 1 \in T
      PROVE  k \in T
  <2> DEFINE u == list[k - 1]
             r == f[k - 1]
  <2>1. r \in Runs /\ u \in Names /\ f[k] = merge_admin(r, g, u) /\ k \in 0 .. n
    BY <1>1, <1>2
  <2>2. Follows(run, r) /\ Climbs(run, r) /\ Moved(k - 1)
    BY <1>4
  <2>3. W(k) = W(k - 1) \cup {u} /\ W(k - 1) \in SUBSET Names
    <3>1. \A j : j \in 0 .. k - 1 <=> j \in 0 .. k - 1 - 1 \/ j = k - 1
      OBVIOUS
    <3>2. \A j \in 0 .. k - 1 - 1 : list[j] \in Names
      BY DEF NamesIn
    <3> QED
      BY <3>1, <3>2 DEF NamesIn
  <2> HIDE DEF u, r, W, Fits
  <2>5. /\ Follows(r, f[k]) /\ Climbs(r, f[k])
        /\ \A t : Agrees(Now(r), t) /\ GroupFound(t, g) =>
                     Agrees(Now(f[k]), GroupAddAdmin(t, g, u))
    BY <2>1, MergeAdminWrites
  <2>6. Follows(run, f[k]) /\ Climbs(run, f[k])
    BY <2>2, <2>5, FollowsFurther
  <2>7. Moved(k)
    <3> SUFFICES ASSUME NEW s, Fits(s)
                 PROVE  Agrees(Now(f[k]), MergedAdmins(s, g, W(k)))
      OBVIOUS
    <3> DEFINE t == MergedAdmins(s, g, W(k - 1))
    <3>1. Agrees(Now(r), t) /\ Agrees(Now(run), s)
      BY <2>2 DEF r, Fits
    <3>2. GroupFound(t, g)
      <4>1. s.groups \in [Groups -> GroupSlots] /\ s.groups[g] \in GroupSlots
        BY <3>1, SlotTypes
      <4>2. GroupFound(s, g)
        BY DEF Fits
      <4>3. t.groups[g] = [s.groups[g] EXCEPT !.admins = @ \cup W(k - 1)]
        BY <4>1 DEF MergedAdmins
      <4> HIDE DEF t
      <4>4. t.groups[g].state = s.groups[g].state
        BY <4>1, <4>3 DEF GroupSlots
      <4> QED
        BY <4>2, <4>4 DEF GroupFound
    <3>3. GroupAddAdmin(t, g, u) = MergedAdmins(s, g, W(k))
      BY <2>1, <2>3, <3>1, OneMoreAdminMerged
    <3> HIDE DEF t
    <3> QED
      BY <2>5, <3>1, <3>2, <3>3
  <2> HIDE DEF Moved
  <2> QED
    BY <2>1, <2>6, <2>7
<1> HIDE DEF T
<1>5. n \in T
  <2>1. \A k \in 0 .. n : k \in T
    BY <1>3, <1>4, LoopInduction
  <2> QED
    BY <2>1
<1> QED
  BY <1>1, <1>5 DEF T

\* A group that is inactive, forgotten by everybody.
Ended(s, g) ==
    [users  |-> s.users,
     groups |-> [s.groups EXCEPT ![g] = [state |-> "inactive", users |-> {},
                                         admins |-> {}, color |-> @.color]]]

LEMMA EndOfMergeWrites ==
  ASSUME NEW run \in Runs, NEW g \in Groups
  PROVE  LET r == EndOfMerge(run, g)
         IN  /\ Follows(run, r) /\ Descends(run, r)
             /\ \A s : Agrees(Now(run), s) /\ GroupFound(s, g) =>
                          Agrees(Now(r), Ended(s, g))
<1> DEFINE m  == Now(run)
           G  == m.groups[g]
           G1 == [G EXCEPT !.active = FALSE]
           G2 == [G1 EXCEPT !.user_count = 0]
           G3 == [G2 EXCEPT !.admin_count = 0]
           w1 == GroupWrite(m, g, G1)
           w2 == GroupWrite(w1, g, G2)
           w3 == GroupWrite(w2, g, G3)
           r1 == Append(run, w1)
           r2 == Append(r1, w2)
           r  == Append(r2, w3)
<1>1. /\ m \in Sound /\ G \in GroupEntries /\ Filled(G) /\ 0 \in 0 .. MaxClients
  BY SlotOf, LimitsAssumption
<1> HIDE DEF m
<1> HIDE DEF G
<1>2. /\ G1 \in GroupEntries /\ G1.users = G.users /\ G1.user_count = G.user_count
      /\ G1.admins = G.admins /\ G1.admin_count = G.admin_count
      /\ G1.known = G.known /\ ~G1.active
  BY <1>1 DEF GroupEntries
<1> HIDE DEF G1
<1>3. /\ G2 \in GroupEntries /\ G2.users = G.users /\ G2.user_count = 0
      /\ G2.admins = G.admins /\ G2.admin_count = G.admin_count
      /\ G2.known = G.known /\ ~G2.active
  BY <1>1, <1>2 DEF GroupEntries
<1> HIDE DEF G2
<1>4. /\ G3 \in GroupEntries /\ G3.user_count = 0 /\ G3.admin_count = 0
      /\ G3.known = G.known /\ ~G3.active
  BY <1>1, <1>3 DEF GroupEntries
<1> HIDE DEF G3
<1>5. /\ UsersOf(G1) = UsersOf(G) /\ AdminsOf(G1) = AdminsOf(G)
      /\ UsersOf(G2) = {} /\ AdminsOf(G2) = AdminsOf(G)
      /\ UsersOf(G3) = {} /\ AdminsOf(G3) = {}
  BY <1>2, <1>3, <1>4, NobodyInAnEmptyList DEF UsersOf, AdminsOf
<1>6. Filled(G1) /\ Filled(G2) /\ Filled(G3)
  BY <1>1, <1>5 DEF Filled
<1>7. Falls(G, G1) /\ Falls(G1, G2) /\ Falls(G2, G3)
  BY <1>2, <1>3, <1>4 DEF Falls, KeepsRights, Exists
<1>8. /\ Follows(run, r1) /\ w1 \in Sound /\ Now(r1) = w1 /\ OnlyGroup(m, w1, g)
      /\ w1.groups[g] = G1 /\ Descends(run, r1)
  BY <1>2, <1>6, <1>7, GroupStep DEF m, G
<1>9. r1 \in Runs
  BY <1>8 DEF Follows
<1> HIDE DEF r1, w1
<1>10. /\ Follows(r1, r2) /\ w2 \in Sound /\ Now(r2) = w2 /\ OnlyGroup(w1, w2, g)
       /\ w2.groups[g] = G2 /\ Descends(r1, r2)
  <2>1. w2 = GroupWrite(Now(r1), g, G2) /\ G1 = Now(r1).groups[g]
    BY <1>8
  <2> HIDE DEF w2
  <2>2. /\ Follows(r1, r2) /\ w2 \in Sound /\ Now(r2) = w2
        /\ OnlyGroup(Now(r1), w2, g) /\ w2.groups[g] = G2
        /\ Falls(Now(r1).groups[g], G2) => Descends(r1, r2)
    BY <1>3, <1>6, <1>9, <2>1, GroupStep, Zenon
  <2> QED
    BY <1>7, <1>8, <2>1, <2>2
<1>11. r2 \in Runs
  BY <1>10 DEF Follows
<1> HIDE DEF r2, w2
<1>12. /\ Follows(r2, r) /\ w3 \in Sound /\ Now(r) = w3 /\ OnlyGroup(w2, w3, g)
       /\ w3.groups[g] = G3 /\ Descends(r2, r)
  <2>1. w3 = GroupWrite(Now(r2), g, G3) /\ G2 = Now(r2).groups[g]
    BY <1>10
  <2> HIDE DEF w3
  <2>2. /\ Follows(r2, r) /\ w3 \in Sound /\ Now(r) = w3
        /\ OnlyGroup(Now(r2), w3, g) /\ w3.groups[g] = G3
        /\ Falls(Now(r2).groups[g], G3) => Descends(r2, r)
    BY <1>4, <1>6, <1>11, <2>1, GroupStep, Zenon
  <2> QED
    BY <1>7, <1>10, <2>1, <2>2
<1>13. run \o <<w1, w2, w3>> = r
  BY <1>8, <1>10, <1>12, ThreeWrites DEF r1, r2
<1> HIDE DEF w3
<1>14. EndOfMerge(run, g) = r
  <2>1. w1 = [m EXCEPT !.groups[g].active = FALSE]
    BY DEF w1, GroupWrite, G1, G
  <2>2. w2 = [w1 EXCEPT !.groups[g].user_count = 0]
    BY <1>8 DEF w2, GroupWrite, G2
  <2>3. w3 = [w2 EXCEPT !.groups[g].admin_count = 0]
    BY <1>10 DEF w3, GroupWrite, G3
  <2> HIDE DEF r
  <2>4. EndOfMerge(run, g) = run \o <<w1, w2, w3>>
    BY <2>1, <2>2, <2>3 DEF EndOfMerge, m
  <2> QED
    BY <1>13, <2>4
<1> HIDE DEF r
<1>15. Follows(run, r) /\ Descends(run, r)
  BY <1>8, <1>9, <1>10, <1>11, <1>12, FollowsFurther DEF Descends
<1>16. ASSUME NEW s, Agrees(m, s), GroupFound(s, g)
       PROVE  Agrees(Now(r), Ended(s, g))
  <2> DEFINE Y == s.groups[g]
             X == [state |-> "inactive", users |-> {}, admins |-> {},
                   color |-> Y.color]
  <2>1. s.groups \in [Groups -> GroupSlots] /\ Y \in GroupSlots
    BY <1>16, SlotTypes
  <2>2. X \in GroupSlots /\ X.users = {} /\ X.admins = {} /\ X.state = "inactive"
    BY <2>1 DEF GroupSlots, SlotStates
  <2>3. G.known
    BY <1>16 DEF Agrees, GroupAgrees, GroupFound, G
  <2>4. Ended(s, g) = [users |-> s.users, groups |-> [s.groups EXCEPT ![g] = X]]
    BY <2>1 DEF Ended
  <2> HIDE DEF X
  <2>5. NoRepeat(G3.users, G3.user_count) /\ NoRepeat(G3.admins, G3.admin_count)
    BY <1>4, NobodyInAnEmptyList
  <2>6. GroupAgrees(G3, X)
    BY <1>4, <1>5, <2>2, <2>3, <2>5 DEF GroupAgrees, Exists
  <2>7. OnlyGroup(m, w3, g)
    BY <1>8, <1>10, <1>12 DEF OnlyGroup
  <2>8. \A u \in X.users : s.users[u].state # "absent"
    BY <2>2
  <2>9. Agrees(w3, [users |-> s.users, groups |-> [s.groups EXCEPT ![g] = X]])
    BY <1>12, <1>16, <2>2, <2>6, <2>7, <2>8, AgreesByGroup
  <2> QED
    BY <1>12, <2>4, <2>9
<1> QED
  BY <1>14, <1>15, <1>16 DEF m

\* Everybody fits: a merge drops nobody.
LEMMA AllFit ==
  ASSUME NEW old \in SUBSET Names, NEW extra \in SUBSET Names
  PROVE  Fitting(old, extra) = {extra \ old}
<1> DEFINE new == extra \ old
<1>1. IsFiniteSet(old) /\ IsFiniteSet(new) /\ IsFiniteSet(old \cup new)
      /\ Cardinality(old \cup new) <= Cardinality(Names)
  BY NamesAssumption, FS_Subset
<1>2. Cardinality(old \cap new) = 0
  <2>1. old \cap new = {}
    OBVIOUS
  <2> QED
    BY <2>1, FS_EmptySet
<1>3. /\ Cardinality(old) \in Nat /\ Cardinality(new) \in Nat
      /\ Cardinality(Names) \in Nat
  BY <1>1, NamesAssumption, FS_CardinalityType
<1>4. Cardinality(old \cup new) = Cardinality(old) + Cardinality(new)
  <2>1. Cardinality(old \cup new) =
          Cardinality(old) + Cardinality(new) - Cardinality(old \cap new)
    BY <1>1, FS_Union, Zenon
  <2> QED
    BY <1>2, <1>3, <2>1
<1>5. Cardinality(old) + Cardinality(new) <= MaxClients
  BY <1>1, <1>3, <1>4, EverybodyFits, LimitsAssumption
<1> QED
  BY <1>5 DEF Fitting

LEMMA MergedIsEnded ==
  ASSUME NEW m, NEW s, Agrees(m, s), NEW g1 \in Groups, NEW g2 \in Groups, g1 # g2
  PROVE  LET into == s.groups[g1]
             from == s.groups[g2]
         IN  Ended(MergedAdmins(MergedUsers(s, g1, from.users), g1, from.admins), g2)
               = MergedWith(s, g1, g2, from.users \ into.users,
                            from.admins \ into.admins)
<1> DEFINE into == s.groups[g1]
           from == s.groups[g2]
           t == MergedUsers(s, g1, from.users)
           v == MergedAdmins(t, g1, from.admins)
           H1 == [state |-> into.state, users |-> into.users \cup from.users,
                  admins |-> into.admins \cup from.admins, color |-> into.color]
           H2 == [state |-> "inactive", users |-> {}, admins |-> {},
                  color |-> from.color]
           now == [u \in Names |->
                     IF u \in from.users \ into.users /\ UserFound(s, u)
                     THEN [s.users[u] EXCEPT !.current_group = g1]
                     ELSE s.users[u]]
<1>1. /\ s.groups \in [Groups -> GroupSlots]
      /\ into \in GroupSlots /\ from \in GroupSlots
  BY SlotTypes
<1>2. /\ into.users \cup (from.users \ into.users) = into.users \cup from.users
      /\ into.admins \cup (from.admins \ into.admins) = into.admins \cup from.admins
  OBVIOUS
<1>3. MergedWith(s, g1, g2, from.users \ into.users, from.admins \ into.admins) =
        [users |-> now, groups |-> [s.groups EXCEPT ![g1] = H1, ![g2] = H2]]
  BY <1>2 DEF MergedWith
<1>4. t.users = now /\ t.groups = [s.groups EXCEPT ![g1].users = @ \cup from.users]
  BY DEF MergedUsers
<1> HIDE DEF t
<1>5. v.users = t.users /\ v.groups = [t.groups EXCEPT ![g1].admins = @ \cup from.admins]
  BY DEF MergedAdmins
<1> HIDE DEF v
<1>6. t.groups[g1] = [into EXCEPT !.users = @ \cup from.users]
  BY <1>1, <1>4
<1>7. v.groups[g1] = [t.groups[g1] EXCEPT !.admins = @ \cup from.admins]
  BY <1>1, <1>4, <1>5
<1>8. v.groups[g1] = H1
  BY <1>1, <1>6, <1>7 DEF GroupSlots
<1>9. v.groups[g2] = from /\ DOMAIN v.groups = Groups
      /\ \A h \in Groups \ {g1} : v.groups[h] = s.groups[h]
  BY <1>1, <1>4, <1>5
<1>10. Ended(v, g2) = [users |-> v.users, groups |-> [v.groups EXCEPT ![g2] = H2]]
  BY <1>1, <1>4, <1>5, <1>9 DEF Ended
<1> HIDE DEF H1, H2, into, from
<1>11. v.groups = [h \in Groups |-> v.groups[h]]
  BY <1>1, <1>4, <1>5
<1>12. [v.groups EXCEPT ![g2] = H2] = [s.groups EXCEPT ![g1] = H1, ![g2] = H2]
  BY <1>1, <1>8, <1>9, <1>11
<1> HIDE DEF now
<1>13. Ended(v, g2) = [users |-> now, groups |-> [s.groups EXCEPT ![g1] = H1, ![g2] = H2]]
  BY <1>4, <1>5, <1>10, <1>12
<1> QED
  BY <1>3, <1>13 DEF t, v, into, from

\* A merge climbs through its loops, then it goes down.
LEMMA GroupMergeWrites ==
  ASSUME NEW run \in Runs, NEW g1 \in Groups, NEW g2 \in Groups, g1 # g2
  PROVE  LET r == group_merge(run, g1, g2)
         IN  /\ Follows(run, r)
             /\ Chain(run, Up) => Hill(r)
             /\ \A s : Agrees(Now(run), s) /\ GroupFound(s, g1) /\ GroupFound(s, g2) =>
                   \A next \in GroupMerge(s, g1, g2) : Agrees(Now(r), next)
<1> DEFINE from  == Now(run).groups[g2]
           moved == merge_users(run, g1, from.users, from.user_count)
           ruled == merge_admins(moved, g1, from.admins, from.admin_count)
           r     == EndOfMerge(ruled, g2)
<1>1. from \in GroupEntries /\ Filled(from)
  BY SlotOf
<1>2. /\ from.users \in Lists /\ from.user_count \in Nat
      /\ from.admins \in Lists /\ from.admin_count \in Nat
      /\ NamesIn(from.users, from.user_count) \subseteq Names
      /\ NamesIn(from.admins, from.admin_count) \subseteq Names
  BY <1>1, LimitsAssumption DEF GroupEntries, Filled, UsersOf, AdminsOf
<1>3. group_merge(run, g1, g2) = r
  BY DEF group_merge
<1> HIDE DEF from
<1>4. /\ Follows(run, moved) /\ Climbs(run, moved)
      /\ \A s : Agrees(Now(run), s) /\ GroupFound(s, g1)
                  /\ (\A u \in UsersOf(from) : s.users[u].state # "absent") =>
            Agrees(Now(moved), MergedUsers(s, g1, UsersOf(from)))
  BY <1>2, MergeUsersWrites DEF UsersOf
<1>5. moved \in Runs
  BY <1>4 DEF Follows
<1> HIDE DEF moved
<1>6. /\ Follows(moved, ruled) /\ Climbs(moved, ruled)
      /\ \A s : Agrees(Now(moved), s) /\ GroupFound(s, g1) =>
            Agrees(Now(ruled), MergedAdmins(s, g1, AdminsOf(from)))
  BY <1>2, <1>5, MergeAdminsWrites DEF AdminsOf
<1>7. ruled \in Runs
  BY <1>6 DEF Follows
<1> HIDE DEF ruled
<1>8. /\ Follows(ruled, r) /\ Descends(ruled, r)
      /\ \A s : Agrees(Now(ruled), s) /\ GroupFound(s, g2) =>
                   Agrees(Now(r), Ended(s, g2))
  BY <1>7, EndOfMergeWrites
<1> HIDE DEF r
<1>9. Follows(run, r)
  BY <1>4, <1>5, <1>6, <1>7, <1>8, FollowsFurther
<1>10. Chain(run, Up) => Hill(r)
  BY <1>4, <1>6, <1>7, <1>8, ClimbIsHill DEF Climbs, Descends
<1>11. ASSUME NEW s, Agrees(Now(run), s), GroupFound(s, g1), GroupFound(s, g2),
              NEW next \in GroupMerge(s, g1, g2)
       PROVE  Agrees(Now(r), next)
  <2> DEFINE X == s.groups[g2]
             t == MergedUsers(s, g1, X.users)
             v == MergedAdmins(t, g1, X.admins)
  <2>1. X.users = UsersOf(from) /\ X.admins = AdminsOf(from)
    BY <1>11 DEF Agrees, GroupAgrees, from
  <2>2. \A u \in X.users : s.users[u].state # "absent"
    BY <1>11 DEF Agrees, MembersHaveSlots
  <2>3. Agrees(Now(moved), t)
    BY <1>4, <1>11, <2>1, <2>2
  <2>4. /\ s.groups \in [Groups -> GroupSlots]
        /\ s.groups[g1] \in GroupSlots /\ X \in GroupSlots
    BY <1>11, SlotTypes
  <2>5. /\ t.groups[g1] = [s.groups[g1] EXCEPT !.users = @ \cup X.users]
        /\ t.groups[g2] = s.groups[g2]
        /\ t.groups \in [Groups -> GroupSlots]
    <3>1. t.groups = [s.groups EXCEPT ![g1].users = @ \cup X.users]
      BY DEF MergedUsers
    <3>2. t \in SharedMemory
      BY <2>3 DEF Agrees
    <3> HIDE DEF t
    <3>3. t.groups \in [Groups -> GroupSlots]
      BY <3>2 DEF SharedMemory
    <3> QED
      BY <2>4, <3>1, <3>3
  <2>6. v.groups[g2] = t.groups[g2]
    <3>1. v.groups = [t.groups EXCEPT ![g1].admins = @ \cup X.admins]
      BY DEF MergedAdmins
    <3> HIDE DEF v, t
    <3> QED
      BY <2>5, <3>1
  <2>7. GroupFound(t, g1)
    <3> HIDE DEF t
    <3>1. t.groups[g1].state = s.groups[g1].state
      BY <2>4, <2>5 DEF GroupSlots
    <3> QED
      BY <1>11, <3>1 DEF GroupFound
  <2>8. Agrees(Now(ruled), v)
    <3> HIDE DEF t
    <3> QED
      BY <1>6, <2>1, <2>3, <2>7
  <2>9. GroupFound(v, g2)
    <3> HIDE DEF t, v
    <3> QED
      BY <1>11, <2>5, <2>6 DEF GroupFound
  <2>10. next = Ended(v, g2)
    <3> DEFINE into == s.groups[g1]
    <3>1. Ended(v, g2) = MergedWith(s, g1, g2, X.users \ into.users,
                                    X.admins \ into.admins)
      BY <1>11, MergedIsEnded
    <3>2. /\ into.users \in SUBSET Names /\ into.admins \in SUBSET Names
          /\ X.users \in SUBSET Names /\ X.admins \in SUBSET Names
      BY <2>4 DEF GroupSlots
    <3>3. /\ Fitting(into.users, X.users) = {X.users \ into.users}
          /\ Fitting(into.admins, X.admins) = {X.admins \ into.admins}
      BY <3>2, AllFit
    <3>4. next = MergedWith(s, g1, g2, X.users \ into.users, X.admins \ into.admins)
      BY <1>11, <3>3 DEF GroupMerge
    <3> QED
      BY <3>1, <3>4
  <2> HIDE DEF v
  <2> QED
    BY <1>8, <2>8, <2>9, <2>10
<1> QED
  BY <1>3, <1>9, <1>10, <1>11

-----------------------------------------------------------------------------
(* 5. The invariant and the theorems.                                      *)

\* The memory and what the request being served still makes of it.
Story == <<mem>> \o todo

\* As long as no request was cut short, its writes go up first and down then,
\* and end in the memory that Registry expects.
AsExpected == ~torn => Hill(Story) /\ Agrees(Now(Story), expected)

ArraysInv ==
    /\ mem \in Sound
    /\ todo \in Seq(Sound)
    /\ torn \in BOOLEAN
    /\ ~up => todo = <<>>
    /\ AsExpected

LEMMA StoryIsRun ==
  ASSUME mem \in Sound, todo \in Seq(Sound)
  PROVE  /\ Story \in Runs
         /\ Len(Story) = Len(todo) + 1
         /\ Story[1] = mem
         /\ \A k \in 1 .. Len(todo) : Story[k + 1] = todo[k]
         /\ todo = <<>> => Now(Story) = mem
<1>1. <<mem>> \in Seq(Sound) /\ Len(<<mem>>) = 1 /\ <<mem>>[1] = mem
  OBVIOUS
<1>2. /\ Story \in Seq(Sound) /\ Len(Story) = Len(<<mem>>) + Len(todo)
      /\ Len(todo) \in Nat
      /\ \A k \in 1 .. Len(<<mem>>) + Len(todo) :
            Story[k] = IF k <= Len(<<mem>>) THEN <<mem>>[k] ELSE todo[k - Len(<<mem>>)]
  BY <1>1, ConcatProperties, LenProperties DEF Story
<1>3. Story # <<>>
  BY <1>1, <1>2, EmptySeq
<1>4. todo = <<>> => Len(todo) = 0
  OBVIOUS
<1> QED
  BY <1>1, <1>2, <1>3, <1>4 DEF Runs, Now

\* A run of one memory.
LEMMA AtRest ==
  ASSUME NEW m \in Sound
  PROVE  /\ <<m>> \in Runs /\ Now(<<m>>) = m /\ <<m>>[1] = m
         /\ Chain(<<m>>, Up) /\ Hill(<<m>>)
<1>1. <<m>> \in Seq(Sound) /\ Len(<<m>>) = 1 /\ <<m>>[1] = m /\ <<m>> # <<>>
  OBVIOUS
<1>2. <<m>> \in Runs /\ Now(<<m>>) = m
  BY <1>1 DEF Runs, Now
<1>3. Chain(<<m>>, Up)
  BY <1>1 DEF Chain
<1> QED
  BY <1>1, <1>2, <1>3, ClimbIsHill

\* What is left of a hill after its first write, and that write.
LEMMA FirstOfHill ==
  ASSUME NEW run \in Runs, Len(run) > 1, Hill(run)
  PROVE  /\ Tail(run) \in Runs /\ Hill(Tail(run)) /\ Now(Tail(run)) = Now(run)
         /\ \/ <<run[1], run[2]>> \in Up
            \/ \A k \in 1 .. Len(run) - 1 : <<run[k], run[k + 1]>> \in Down
<1> DEFINE rest == Tail(run)
           n == Len(run)
<1>1. /\ run \in Seq(Sound) /\ run # <<>> /\ n \in Nat /\ n > 1
  BY NowIsSound DEF Runs
<1>2. /\ rest \in Seq(Sound) /\ Len(rest) = n - 1
      /\ \A k \in 1 .. n - 1 : rest[k] = run[k + 1]
  BY <1>1, HeadTailProperties
<1> HIDE DEF rest, n
<1>3. rest \in Runs
  BY <1>1, <1>2, EmptySeq DEF Runs
<1>4. Now(rest) = Now(run)
  <2>1. Now(rest) = rest[n - 1] /\ Now(run) = run[n]
    BY <1>2 DEF Now, n
  <2> QED
    BY <1>1, <1>2, <2>1
<1>5. PICK p \in 1 .. n :
        /\ \A k \in 1 .. p - 1 : <<run[k], run[k + 1]>> \in Up
        /\ \A k \in p .. n - 1 : <<run[k], run[k + 1]>> \in Down
  BY DEF Hill, n
<1>6. ASSUME NEW k \in 1 .. n - 2
      PROVE  <<rest[k], rest[k + 1]>> = <<run[k + 1], run[k + 1 + 1]>>
  BY <1>1, <1>2
<1>7. CASE p = 1
  <2>1. \A k \in 1 .. n - 2 : <<rest[k], rest[k + 1]>> \in Down
    BY <1>1, <1>5, <1>6, <1>7
  <2>2. /\ 1 \in 1 .. Len(rest)
        /\ \A k \in 1 .. 1 - 1 : <<rest[k], rest[k + 1]>> \in Up
        /\ \A k \in 1 .. Len(rest) - 1 : <<rest[k], rest[k + 1]>> \in Down
    BY <1>1, <1>2, <2>1
  <2>3. Hill(rest)
    BY <2>2 DEF Hill
  <2> QED
    BY <1>3, <1>4, <1>5, <1>7, <2>3 DEF rest, n
<1>8. CASE p # 1
  <2>1. p - 1 \in 1 .. n - 1 /\ 1 \in 1 .. p - 1
    BY <1>1, <1>5, <1>8
  <2>2. \A k \in 1 .. p - 1 - 1 : <<rest[k], rest[k + 1]>> \in Up
    BY <1>1, <1>5, <1>6, <1>8
  <2>3. \A k \in p - 1 .. n - 1 - 1 : <<rest[k], rest[k + 1]>> \in Down
    BY <1>1, <1>5, <1>6, <2>1
  <2>4. Hill(rest)
    BY <1>2, <2>1, <2>2, <2>3 DEF Hill
  <2>5. <<run[1], run[2]>> \in Up
    BY <1>5, <2>1
  <2> QED
    BY <1>3, <1>4, <2>4, <2>5 DEF rest
<1> QED
  BY <1>7, <1>8

\* A request is served from here on.
LEMMA ServeKeeps ==
  ASSUME ArraysInv, NEW run, Follows(<<mem>>, run), NEW next, Serve(run, next),
         ~torn => Hill(run) /\ Agrees(Now(run), next)
  PROVE  ArraysInv'
<1>1. /\ mem \in Sound /\ todo \in Seq(Sound) /\ torn \in BOOLEAN
      /\ run \in Runs /\ run[1] = mem /\ Len(run) > 1 /\ up
      /\ mem' = mem /\ todo' = Tail(run) /\ torn' = torn /\ up' = up
      /\ ~torn => expected' = next
  BY DEF ArraysInv, Serve, Follows
<1>2. run \in Seq(Sound) /\ run # <<>> /\ Head(run) = mem /\ Tail(run) \in Seq(Sound)
  BY <1>1, HeadTailProperties DEF Runs
<1>3. <<mem>> \o Tail(run) = run
  BY <1>2
<1>4. Story' = run
  BY <1>1, <1>3 DEF Story
<1>5. AsExpected'
  BY <1>1, <1>4 DEF AsExpected
<1> QED
  BY <1>1, <1>2, <1>5 DEF ArraysInv

\* Between two requests.
LEMMA Idle ==
  ASSUME ArraysInv, todo = <<>>
  PROVE  /\ <<mem>> \in Runs /\ Now(<<mem>>) = mem
         /\ Chain(<<mem>>, Up) /\ Hill(<<mem>>)
         /\ ~torn => Agrees(mem, expected)
<1>1. mem \in Sound /\ todo \in Seq(Sound)
  BY DEF ArraysInv
<1>2. Now(Story) = mem
  BY <1>1, StoryIsRun
<1> QED
  BY <1>1, <1>2, AtRest DEF ArraysInv, AsExpected

\* user_add and group_create of a name that is found change nothing in
\* Registry either.
LEMMA FoundStays ==
  ASSUME NEW s, NEW u \in Names, NEW g \in Groups
  PROVE  /\ UserFound(s, u) => UserAdd(s, u, NoAddr) = s
         /\ GroupFound(s, g) => GroupCreate(s, g, u) = s
BY DEF UserFound, UserAdd, CanAddUser, GroupFound, GroupCreate, CanCreateGroup

LEMMA ConnectKeeps ==
  ASSUME ArraysInv, NEW u \in Names, Connect(u)
  PROVE  ArraysInv'
<1> DEFINE run  == user_add(<<mem>>, u)
           next == UserAdd(expected, u, NoAddr)
<1>1. Serve(run, next) /\ todo = <<>>
  BY DEF Connect, Serve
<1>2. /\ <<mem>> \in Runs /\ Now(<<mem>>) = mem /\ Hill(<<mem>>)
      /\ ~torn => Agrees(mem, expected)
  BY <1>1, Idle
<1>3. /\ Follows(<<mem>>, run) /\ Descends(<<mem>>, run)
      /\ \A s : Agrees(mem, s) =>
                   Agrees(Now(run), IF UserFound(s, u) THEN s
                                    ELSE UserAdd(s, u, NoAddr))
  BY <1>2, UserAddWrites
<1>4. UserFound(expected, u) => next = expected
  BY FoundStays, GroupsAssumption DEF UserFound, UserAdd, CanAddUser
<1> HIDE DEF run, next
<1>5. ~torn => Agrees(Now(run), next)
  BY <1>2, <1>3, <1>4 DEF next
<1> QED
  BY <1>1, <1>2, <1>3, <1>5, ServeKeeps DEF Descends

LEMMA CreateGroupKeeps ==
  ASSUME ArraysInv, NEW u \in Names, NEW g \in Groups, CreateGroup(u, g)
  PROVE  ArraysInv'
<1> DEFINE run  == group_create(<<mem>>, g, u)
           next == GroupCreate(expected, g, u)
<1>1. Serve(run, next) /\ todo = <<>>
  BY DEF CreateGroup, Serve
<1>2. /\ <<mem>> \in Runs /\ Now(<<mem>>) = mem /\ Chain(<<mem>>, Up)
      /\ ~torn => Agrees(mem, expected)
  BY <1>1, Idle
<1>3. /\ Follows(<<mem>>, run)
      /\ \A s : Agrees(mem, s) =>
            Climbs(<<mem>>, run) /\ Agrees(Now(run), GroupCreate(s, g, u))
  BY <1>2, GroupCreateWrites
<1>4. run \in Runs
  BY <1>3 DEF Follows
<1> HIDE DEF run
<1>5. ~torn => Hill(run) /\ Agrees(Now(run), next)
  BY <1>2, <1>3, <1>4, ClimbIsHill DEF Climbs
<1> QED
  BY <1>1, <1>3, <1>5, ServeKeeps

LEMMA JoinKeeps ==
  ASSUME ArraysInv, NEW u \in Names, NEW g \in Groups, Join(u, g)
  PROVE  ArraysInv'
<1> DEFINE registered == IF UserFound(expected, u) THEN expected
                         ELSE UserAdd(expected, u, NoAddr)
           prepared   == IF GroupFound(registered, g) THEN registered
                         ELSE GroupCreate(registered, g, u)
           next == IF CanJoinGroup(prepared, g, u)
                   THEN GroupAddUser(prepared, g, u) ELSE prepared
           r1  == user_add(<<mem>>, u)
           r2  == group_create(r1, g, u)
           run == group_add_user(r2, g, u)
<1>1. Serve(run, next) /\ todo = <<>>
  BY DEF Join, Serve
<1>2. /\ <<mem>> \in Runs /\ Now(<<mem>>) = mem /\ Chain(<<mem>>, Up)
      /\ ~torn => Agrees(mem, expected)
  BY <1>1, Idle
<1>3. /\ Follows(<<mem>>, r1) /\ Climbs(<<mem>>, r1)
      /\ ~torn => Agrees(Now(r1), registered)
  BY <1>2, UserAddWrites
<1>4. r1 \in Runs
  BY <1>3 DEF Follows
<1> HIDE DEF r1, registered
<1>5. /\ Follows(r1, r2)
      /\ \A s : Agrees(Now(r1), s) =>
            Climbs(r1, r2) /\ Agrees(Now(r2), GroupCreate(s, g, u))
  BY <1>4, GroupCreateWrites
<1>6. prepared = GroupCreate(registered, g, u)
  BY FoundStays
<1>7. ~torn => Climbs(r1, r2) /\ Agrees(Now(r2), prepared)
  BY <1>3, <1>5, <1>6
<1>8. r2 \in Runs
  BY <1>5 DEF Follows
<1> HIDE DEF r2, prepared
<1>9. /\ Follows(r2, run) /\ Climbs(r2, run)
      /\ \A s : Agrees(Now(r2), s) =>
            Agrees(Now(run), IF CanJoinGroup(s, g, u)
                             THEN GroupAddUser(s, g, u) ELSE s)
  BY <1>8, GroupAddUserWrites
<1>10. run \in Runs
  BY <1>9 DEF Follows
<1> HIDE DEF run
<1>11. Follows(<<mem>>, run)
  BY <1>2, <1>3, <1>4, <1>5, <1>8, <1>9, FollowsFurther
<1>12. ~torn => Agrees(Now(run), next)
  BY <1>7, <1>9
<1>13. ~torn => Hill(run)
  BY <1>2, <1>3, <1>7, <1>9, <1>10, ClimbIsHill DEF Climbs
<1> HIDE DEF next
<1> QED
  BY <1>1, <1>11, <1>12, <1>13, ServeKeeps

LEMMA LeaveKeeps ==
  ASSUME ArraysInv, NEW u \in Names, NEW g \in Groups, Leave(u, g)
  PROVE  ArraysInv'
<1> DEFINE run  == group_remove_user(<<mem>>, g, u)
           next == GroupRemoveUser(expected, g, u)
<1>1. Serve(run, next) /\ todo = <<>>
  BY DEF Leave, Serve
<1>2. /\ <<mem>> \in Runs /\ Now(<<mem>>) = mem /\ Hill(<<mem>>)
      /\ ~torn => Agrees(mem, expected)
  BY <1>1, Idle
<1>3. /\ Follows(<<mem>>, run) /\ Descends(<<mem>>, run)
      /\ ~torn => Agrees(Now(run), next)
  BY <1>2, GroupRemoveUserWrites
<1> HIDE DEF run, next
<1> QED
  BY <1>1, <1>2, <1>3, ServeKeeps DEF Descends

LEMMA DisconnectKeeps ==
  ASSUME ArraysInv, NEW u \in Names, NEW slots \in SetToSeqs(Groups),
         Disconnect(u, slots)
  PROVE  ArraysInv'
<1> DEFINE run  == user_remove(<<mem>>, u, slots)
           next == UserRemove(expected, u)
<1>1. Serve(run, next) /\ todo = <<>>
  BY DEF Disconnect, Serve
<1>2. /\ <<mem>> \in Runs /\ Now(<<mem>>) = mem /\ Hill(<<mem>>)
      /\ ~torn => Agrees(mem, expected)
  BY <1>1, Idle
<1>3. ~torn => expected.users[u].state # "absent"
  <2>1. mem \in Sound
    BY DEF ArraysInv
  <2>2. CASE mem.users[u].active
    BY <1>2, <2>2 DEF Agrees, UserAgrees
  <2>3. CASE \E g \in Groups : Listed(mem, g, u)
    BY <1>2, <2>1, <2>3, SameSearches DEF Agrees, MembersHaveSlots
  <2> QED
    BY <2>2, <2>3 DEF Disconnect
<1>4. /\ Follows(<<mem>>, run) /\ Descends(<<mem>>, run)
      /\ \A s : Agrees(mem, s) /\ s.users[u].state # "absent" =>
                   Agrees(Now(run), UserRemove(s, u))
  BY <1>2, UserRemoveWrites
<1> HIDE DEF run
<1>5. ~torn => Agrees(Now(run), next)
  BY <1>2, <1>3, <1>4
<1> HIDE DEF next
<1> QED
  BY <1>1, <1>2, <1>4, <1>5, ServeKeeps DEF Descends

LEMMA MergeKeeps ==
  ASSUME ArraysInv, NEW u \in Names, NEW g1 \in Groups, NEW g2 \in Groups,
         Merge(u, g1, g2)
  PROVE  ArraysInv'
<1> DEFINE run == group_merge(<<mem>>, g1, g2)
<1>1. PICK next \in IF torn THEN {expected} ELSE GroupMerge(expected, g1, g2) :
        Serve(run, next)
  BY DEF Merge
<1>2. todo = <<>> /\ g1 # g2 /\ Live(mem, g1) /\ Live(mem, g2) /\ mem \in Sound
  BY <1>1 DEF Merge, Serve, ArraysInv
<1>3. /\ <<mem>> \in Runs /\ Now(<<mem>>) = mem /\ Chain(<<mem>>, Up)
      /\ ~torn => Agrees(mem, expected)
  BY <1>2, Idle
<1>4. /\ Follows(<<mem>>, run)
      /\ Hill(run)
      /\ \A s : Agrees(mem, s) /\ GroupFound(s, g1) /\ GroupFound(s, g2) =>
            \A x \in GroupMerge(s, g1, g2) : Agrees(Now(run), x)
  BY <1>2, <1>3, GroupMergeWrites
<1> HIDE DEF run
<1>5. ~torn => GroupFound(expected, g1) /\ GroupFound(expected, g2)
  BY <1>2, <1>3, SameSearches
<1>6. ~torn => Agrees(Now(run), next)
  BY <1>1, <1>3, <1>4, <1>5
<1> QED
  BY <1>1, <1>4, <1>6, ServeKeeps

LEMMA KickKeeps ==
  ASSUME ArraysInv, NEW u \in Names, NEW g \in Groups, NEW v \in Names,
         Kick(u, g, v)
  PROVE  ArraysInv'
<1> DEFINE run  == group_kick_user(<<mem>>, g, v)
           next == GroupKickUser(expected, g, v)
<1>1. Serve(run, next) /\ todo = <<>> /\ Live(mem, g) /\ HasRight(mem, g, u) /\ v # u
  BY DEF Kick, Serve
<1>2. /\ <<mem>> \in Runs /\ Now(<<mem>>) = mem /\ Hill(<<mem>>)
      /\ ~torn => Agrees(mem, expected)
  BY <1>1, Idle
<1>3. /\ Follows(<<mem>>, run) /\ Descends(<<mem>>, run)
      /\ ~torn => Agrees(Now(run), next)
  BY <1>1, <1>2, GroupKickUserWrites
<1> HIDE DEF run, next
<1> QED
  BY <1>1, <1>2, <1>3, ServeKeeps DEF Descends

LEMMA PromoteKeeps ==
  ASSUME ArraysInv, NEW u \in Names, NEW g \in Groups, NEW v \in Names,
         Promote(u, g, v)
  PROVE  ArraysInv'
<1> DEFINE run  == group_add_admin(<<mem>>, g, v)
           next == GroupAddAdmin(expected, g, v)
<1>1. Serve(run, next) /\ todo = <<>> /\ Live(mem, g) /\ Len(run) > 1
  BY DEF Promote, Serve
<1>2. /\ <<mem>> \in Runs /\ Now(<<mem>>) = mem /\ Chain(<<mem>>, Up)
      /\ ~torn => Agrees(mem, expected)
  BY <1>1, Idle
<1>3. run # <<mem>>
  <2> DEFINE start == <<mem>>
  <2>1. Len(start) = 1
    OBVIOUS
  <2>2. Len(run) > 1 /\ Len(run) \in Nat
    <3>1. run \in Runs
      BY <1>1, <1>2, GroupAddAdminWrites DEF Follows
    <3> HIDE DEF run
    <3> QED
      BY <1>1, <3>1, NowIsSound
  <2> HIDE DEF run, start
  <2>3. Len(run) # 1
    <3> DEFINE n == Len(run)
    <3>1. n > 1 /\ n \in Nat
      BY <2>2
    <3> HIDE DEF n
    <3>2. n # 1
      BY <3>1
    <3> QED
      BY <3>2 DEF n
  <2> QED
    BY <2>1, <2>3, Zenon DEF start
<1>4. /\ Follows(<<mem>>, run) /\ Climbs(<<mem>>, run)
      /\ ~torn => Agrees(Now(run), next)
  BY <1>1, <1>2, <1>3, GroupAddAdminWrites
<1> HIDE DEF run, next
<1>5. Hill(run)
  BY <1>2, <1>4, ClimbIsHill DEF Climbs, Follows
<1> QED
  BY <1>1, <1>4, <1>5, ServeKeeps

LEMMA DemoteKeeps ==
  ASSUME ArraysInv, NEW u \in Names, NEW g \in Groups, NEW v \in Names,
         Demote(u, g, v)
  PROVE  ArraysInv'
<1> DEFINE run  == group_remove_admin(<<mem>>, g, v)
           next == GroupRemoveAdmin(expected, g, v)
<1>1. /\ Serve(run, next) /\ todo = <<>> /\ Live(mem, g) /\ Len(run) > 1
      /\ HasRight(mem, g, u) /\ v # u
  BY DEF Demote, Serve
<1>2. /\ <<mem>> \in Runs /\ Now(<<mem>>) = mem /\ Chain(<<mem>>, Up)
      /\ ~torn => Agrees(mem, expected)
  BY <1>1, Idle
<1>3. run # <<mem>>
  <2> DEFINE start == <<mem>>
  <2>1. Len(start) = 1
    OBVIOUS
  <2>2. Len(run) > 1 /\ Len(run) \in Nat
    <3>1. run \in Runs
      BY <1>1, <1>2, GroupRemoveAdminWrites DEF Follows
    <3> HIDE DEF run
    <3> QED
      BY <1>1, <3>1, NowIsSound
  <2> HIDE DEF run, start
  <2>3. Len(run) # 1
    <3> DEFINE n == Len(run)
    <3>1. n > 1 /\ n \in Nat
      BY <2>2
    <3> HIDE DEF n
    <3>2. n # 1
      BY <3>1
    <3> QED
      BY <3>2 DEF n
  <2> QED
    BY <2>1, <2>3, Zenon DEF start
<1>4. /\ Follows(<<mem>>, run) /\ Climbs(<<mem>>, run)
      /\ ~torn => Agrees(Now(run), next)
  BY <1>1, <1>2, <1>3, GroupRemoveAdminWrites
<1> HIDE DEF run, next
<1>5. Hill(run)
  BY <1>2, <1>4, ClimbIsHill DEF Climbs, Follows
<1> QED
  BY <1>1, <1>4, <1>5, ServeKeeps

LEMMA RequestKeeps ==
  ASSUME ArraysInv, Request
  PROVE  ArraysInv'
<1>1. PICK u \in Names :
        \/ Connect(u)
        \/ \E slots \in SetToSeqs(Groups) : Disconnect(u, slots)
        \/ \E g \in Groups :
              \/ Join(u, g) \/ CreateGroup(u, g) \/ Leave(u, g)
              \/ \E h \in Groups : Merge(u, g, h)
              \/ \E v \in Names : Kick(u, g, v) \/ Promote(u, g, v) \/ Demote(u, g, v)
  BY DEF Request
<1>2. CASE Connect(u)
  BY <1>2, ConnectKeeps
<1>3. CASE \E slots \in SetToSeqs(Groups) : Disconnect(u, slots)
  BY <1>3, DisconnectKeeps
<1>4. ASSUME NEW g \in Groups, Join(u, g) \/ CreateGroup(u, g) \/ Leave(u, g)
      PROVE  ArraysInv'
  BY <1>4, JoinKeeps, CreateGroupKeeps, LeaveKeeps
<1>5. ASSUME NEW g \in Groups, NEW h \in Groups, Merge(u, g, h)
      PROVE  ArraysInv'
  BY <1>5, MergeKeeps
<1>6. ASSUME NEW g \in Groups, NEW v \in Names,
             Kick(u, g, v) \/ Promote(u, g, v) \/ Demote(u, g, v)
      PROVE  ArraysInv'
  BY <1>6, KickKeeps, PromoteKeeps, DemoteKeeps
<1> QED
  BY <1>1, <1>2, <1>3, <1>4, <1>5, <1>6

LEMMA WriteKeeps ==
  ASSUME ArraysInv, Write
  PROVE  ArraysInv'
<1>1. /\ mem \in Sound /\ todo \in Seq(Sound) /\ torn \in BOOLEAN /\ todo # <<>>
      /\ mem' = Head(todo) /\ todo' = Tail(todo) /\ torn' = torn /\ up' = up
      /\ expected' = expected /\ (~up => todo = <<>>)
  BY DEF ArraysInv, Write
<1>2. Head(todo) \in Sound /\ Tail(todo) \in Seq(Sound) /\ Len(todo) >= 1
  BY <1>1, HeadTailProperties, EmptySeq
<1>3. Story' = todo /\ Tail(Story) = todo
  <2>1. <<Head(todo)>> \o Tail(todo) = todo
    BY <1>1
  <2>2. Tail(<<mem>> \o todo) = todo
    BY <1>1
  <2> QED
    BY <1>1, <2>1, <2>2 DEF Story
<1>4. Story \in Runs /\ Len(Story) > 1
  BY <1>1, <1>2, StoryIsRun, LenProperties
<1>5. ~torn => Hill(todo) /\ Now(todo) = Now(Story)
  BY <1>3, <1>4, FirstOfHill DEF ArraysInv, AsExpected
<1>6. AsExpected'
  BY <1>1, <1>3, <1>5 DEF ArraysInv, AsExpected
<1> QED
  BY <1>1, <1>2, <1>6 DEF ArraysInv

LEMMA KillKeeps ==
  ASSUME ArraysInv, Kill
  PROVE  ArraysInv'
<1>1. /\ mem \in Sound /\ todo \in Seq(Sound) /\ torn \in BOOLEAN
      /\ mem' = mem /\ todo' = <<>> /\ torn' = (torn \/ todo # <<>>) /\ ~up'
      /\ expected' = IF torn' THEN EmptyMemory ELSE expected
  BY DEF ArraysInv, Kill
<1>2. ~torn' => Story' = Story
  BY <1>1 DEF Story
<1>3. AsExpected'
  BY <1>1, <1>2 DEF ArraysInv, AsExpected
<1>4. <<>> \in Seq(Sound)
  OBVIOUS
<1> QED
  BY <1>1, <1>3, <1>4 DEF ArraysInv

\* A server that starts.
LEMMA StartKeeps ==
  ASSUME ArraysInv, Start
  PROVE  ArraysInv'
<1> DEFINE now == [u \in Names |-> [mem.users[u] EXCEPT !.active = FALSE]]
           X   == Deactivated(expected)
<1>1. /\ mem \in Sound /\ todo = <<>> /\ torn \in BOOLEAN
      /\ mem' = [mem EXCEPT !.users = now] /\ todo' = <<>> /\ torn' = torn
      /\ expected' = IF torn THEN expected ELSE X
  BY DEF ArraysInv, Start
<1>2. /\ mem \in Memories
      /\ \A u \in Names : mem.users[u] \in UserEntries
      /\ \A g \in Groups : Filled(mem.groups[g])
  BY <1>1 DEF Sound, Memories
<1>3. \A u \in Names : /\ now[u] \in UserEntries /\ ~now[u].active
                       /\ now[u].current_group = mem.users[u].current_group
  BY <1>2 DEF UserEntries
<1> HIDE DEF now
<1>4. now \in [Names -> UserEntries]
  BY <1>3 DEF Start, now
<1>5. mem'.users = now /\ mem'.groups = mem.groups /\ mem' \in Memories
  BY <1>1, <1>2, <1>4 DEF Memories
<1>6. mem' \in Sound
  BY <1>2, <1>5 DEF Sound
<1>7. ASSUME ~torn
      PROVE  Agrees(mem', X)
  <2>1. Agrees(mem, expected)
    BY <1>1, <1>7, Idle
  <2>2. /\ expected.users \in [Names -> Users]
        /\ expected.groups \in [Groups -> GroupSlots]
        /\ \A u \in Names : expected.users[u] \in Users
    BY <2>1, SlotTypes
  <2>3. /\ X.users = [u \in Names |-> [expected.users[u] EXCEPT !.state =
                                         IF @ = "active" THEN "inactive" ELSE @]]
        /\ X.groups = expected.groups
        /\ X = [users |-> X.users, groups |-> X.groups]
    BY DEF Deactivated
  <2> HIDE DEF X
  <2>4. ASSUME NEW u \in Names
        PROVE  /\ X.users[u] \in Users /\ X.users[u].state # "active"
               /\ X.users[u].current_group = expected.users[u].current_group
               /\ expected.users[u].state # "absent" => X.users[u].state # "absent"
    <3>1. X.users[u] = [expected.users[u] EXCEPT !.state =
                          IF @ = "active" THEN "inactive" ELSE @]
      BY <2>3
    <3> QED
      BY <2>2, <3>1 DEF Users, SlotStates
  <2>5. X.users \in [Names -> Users]
    BY <2>3, <2>4
  <2>6. X \in SharedMemory
    BY <2>2, <2>3, <2>5 DEF SharedMemory
  <2>7. \A u \in Names : UserAgrees(mem'.users[u], X.users[u])
    BY <1>3, <1>5, <2>1, <2>4 DEF Agrees, UserAgrees
  <2>8. \A g \in Groups : GroupAgrees(mem'.groups[g], X.groups[g])
    BY <1>5, <2>1, <2>3 DEF Agrees
  <2>9. MembersHaveSlots(X)
    <3>1. \A g \in Groups : expected.groups[g].users \subseteq Names
      BY <2>2 DEF GroupSlots
    <3> QED
      BY <2>1, <2>3, <2>4, <3>1 DEF Agrees, MembersHaveSlots
  <2> QED
    BY <2>6, <2>7, <2>8, <2>9 DEF Agrees
<1> HIDE DEF X
<1>8. Story' = <<mem'>>
  BY <1>1 DEF Story
<1>9. Hill(<<mem'>>) /\ Now(<<mem'>>) = mem'
  BY <1>6, AtRest
<1>10. AsExpected'
  BY <1>1, <1>7, <1>8, <1>9 DEF AsExpected
<1> QED
  BY <1>1, <1>6, <1>10 DEF ArraysInv

LEMMA ArraysInvInit ==
  ASSUME Init
  PROVE  ArraysInv
<1> DEFINE G == [known |-> FALSE, active |-> FALSE,
                 users |-> NoEntries, user_count |-> 0,
                 admins |-> NoEntries, admin_count |-> 0]
           U == [active |-> FALSE, current_group |-> NoGroup]
<1>1. /\ mem = [users |-> [u \in Names |-> U], groups |-> [g \in Groups |-> G]]
      /\ todo = <<>> /\ ~torn /\ expected = EmptyMemory
  BY DEF Init
<1>2. G \in GroupEntries /\ U \in UserEntries
  <2>1. NoEntries \in Lists /\ 0 \in 0 .. MaxClients
    BY LimitsAssumption DEF NoEntries, Lists
  <2> QED
    BY <2>1 DEF GroupEntries, UserEntries
<1>3. /\ G.user_count = 0 /\ G.admin_count = 0 /\ ~G.known
      /\ ~U.active /\ U.current_group = NoGroup
  OBVIOUS
<1> HIDE DEF G, U
<1>4. UsersOf(G) = {} /\ AdminsOf(G) = {}
  BY <1>3, NobodyInAnEmptyList DEF UsersOf, AdminsOf
<1>5. mem \in Sound
  BY <1>1, <1>2, <1>4 DEF Sound, Memories, Filled
<1>6. Agrees(mem, EmptyMemory)
  <2> DEFINE s == EmptyMemory
  <2>1. /\ s.users = [u \in Names |-> NoUser] /\ s.groups = [g \in Groups |-> NoGroupSlot]
        /\ s = [users |-> s.users, groups |-> s.groups]
    BY DEF EmptyMemory
  <2>2. NoUser \in Users /\ NoGroupSlot \in GroupSlots
    BY ColorsAssumption DEF NoUser, Users, SlotStates, NoGroupSlot, GroupSlots
  <2> HIDE DEF s
  <2>3. s \in SharedMemory
    BY <2>1, <2>2 DEF SharedMemory
  <2>4. UserAgrees(U, NoUser)
    BY <1>3 DEF UserAgrees, NoUser
  <2>5. GroupAgrees(G, NoGroupSlot)
    BY <1>3, <1>4, NobodyInAnEmptyList DEF GroupAgrees, NoGroupSlot, Exists
  <2>6. MembersHaveSlots(s)
    BY <2>1 DEF MembersHaveSlots, NoGroupSlot
  <2> QED
    BY <1>1, <2>1, <2>3, <2>4, <2>5, <2>6 DEF Agrees, s
<1>7. Story = <<mem>> /\ Hill(<<mem>>) /\ Now(<<mem>>) = mem
  BY <1>1, <1>5, AtRest DEF Story
<1>8. AsExpected
  BY <1>1, <1>6, <1>7 DEF AsExpected
<1>9. torn \in BOOLEAN
  BY Zenon DEF Init
<1>10. <<>> \in Seq(Sound)
  OBVIOUS
<1> QED
  BY <1>1, <1>5, <1>8, <1>9, <1>10 DEF ArraysInv

LEMMA ArraysInvStep ==
  ASSUME ArraysInv, [Next]_vars
  PROVE  ArraysInv'
<1>1. CASE Request
  BY <1>1, RequestKeeps
<1>2. CASE Write
  BY <1>2, WriteKeeps
<1>3. CASE Kill
  BY <1>3, KillKeeps
<1>4. CASE Start
  BY <1>4, StartKeeps
<1>5. CASE UNCHANGED vars
  BY <1>5 DEF vars, ArraysInv, AsExpected, Story
<1> QED
  BY <1>1, <1>2, <1>3, <1>4, <1>5 DEF Next

\* The invariant holds of every run of the server, however often it is stopped.
THEOREM MemoryTellsTheStory == Spec => []ArraysInv
BY ArraysInvInit, ArraysInvStep, PTL DEF Spec

\* Wherever a server was stopped, the loops of user.c and group.c stay inside
\* the arrays and read only entries that were filled.
THEOREM ArraysHaveNoHoles == Spec => []NoHoles
<1>1. ArraysInv => NoHoles
  <2> SUFFICES ASSUME ArraysInv, NEW g \in Groups
               PROVE  LET G == mem.groups[g]
                      IN  /\ G.user_count \in 0 .. MaxClients
                          /\ G.admin_count \in 0 .. MaxClients
                          /\ \A i \in 0 .. G.user_count - 1 : G.users[i] \in Names
                          /\ \A i \in 0 .. G.admin_count - 1 : G.admins[i] \in Names
    BY DEF NoHoles
  <2>1. mem.groups[g] \in GroupEntries /\ Filled(mem.groups[g])
    BY DEF ArraysInv, Sound, Memories
  <2> QED
    BY <2>1 DEF GroupEntries, Filled, UsersOf, AdminsOf, NamesIn
<1> QED
  BY <1>1, MemoryTellsTheStory, PTL

\* Between two requests of a server that was not stopped in the middle of one,
\* the arrays of user.c and group.c hold the sets of Registry.
THEOREM ArraysAreTheSets == Spec => []ArraysAgreeWithSets
<1>1. ArraysInv => ArraysAgreeWithSets
  <2> SUFFICES ASSUME ArraysInv, ~torn, todo = <<>>
               PROVE  /\ \A u \in Names :
                            /\ mem.users[u].active <=> UserFound(expected, u)
                            /\ mem.users[u].current_group =
                                  expected.users[u].current_group
                      /\ \A g \in Groups :
                            LET G == mem.groups[g]
                                X == expected.groups[g]
                            IN  /\ G.known <=> X.state # "absent"
                                /\ Live(mem, g) <=> GroupFound(expected, g)
                                /\ {u \in Names : Listed(mem, g, u)} = X.users
                                /\ {u \in Names : HasRight(mem, g, u)} = X.admins
                                /\ G.user_count = Cardinality(X.users)
                                /\ G.admin_count = Cardinality(X.admins)
    BY DEF ArraysAgreeWithSets
  <2>1. mem \in Sound /\ Agrees(mem, expected)
    BY Idle DEF ArraysInv
  <2>2. \A u \in Names : /\ mem.users[u].active <=> UserFound(expected, u)
                         /\ mem.users[u].current_group =
                               expected.users[u].current_group
    BY <2>1 DEF Agrees, UserAgrees, UserFound
  <2>3. ASSUME NEW g \in Groups
        PROVE  LET G == mem.groups[g]
                   X == expected.groups[g]
               IN  /\ G.known <=> X.state # "absent"
                   /\ Live(mem, g) <=> GroupFound(expected, g)
                   /\ {u \in Names : Listed(mem, g, u)} = X.users
                   /\ {u \in Names : HasRight(mem, g, u)} = X.admins
                   /\ G.user_count = Cardinality(X.users)
                   /\ G.admin_count = Cardinality(X.admins)
    <3> DEFINE G == mem.groups[g]
               X == expected.groups[g]
    <3>1. /\ X.users \subseteq Names /\ X.admins \subseteq Names
          /\ GroupAgrees(G, X) /\ G \in GroupEntries
      BY <2>1, SlotTypes DEF GroupSlots, Agrees, Sound, Memories
    <3>2. \A u \in Names : /\ Listed(mem, g, u) <=> u \in X.users
                           /\ HasRight(mem, g, u) <=> u \in X.admins
      BY <2>1, SameSearches
    <3>3. /\ G.known <=> X.state # "absent"
          /\ Live(mem, g) <=> GroupFound(expected, g)
      BY <3>1 DEF GroupAgrees, Exists, Live, GroupFound
    <3>4. G.user_count = Cardinality(X.users) /\ G.admin_count = Cardinality(X.admins)
      BY <3>1, CountOfNames, LimitsAssumption
         DEF GroupAgrees, UsersOf, AdminsOf, GroupEntries
    <3> HIDE DEF G, X
    <3>5. /\ {u \in Names : Listed(mem, g, u)} = X.users
          /\ {u \in Names : HasRight(mem, g, u)} = X.admins
      BY <3>1, <3>2
    <3> QED
      BY <3>3, <3>4, <3>5 DEF G, X
  <2> QED
    BY <2>2, <2>3
<1> QED
  BY <1>1, MemoryTellsTheStory, PTL

\* A run that goes down brings nobody back.
LEMMA NobodyComesBack ==
  ASSUME NEW run \in Runs, NEW u \in Names,
         \A k \in 1 .. Len(run) - 1 : <<run[k], run[k + 1]>> \in Down,
         Len(run) > 1, u \notin Inside(run[2])
  PROVE  \A k \in 2 .. Len(run) : u \notin Inside(run[k])
<1> DEFINE n == Len(run) - 2
           T == {k \in 0 .. n : u \notin Inside(run[k + 2])}
<1>1. n \in Nat
  BY NowIsSound
<1>2. 0 \in T
  BY <1>1
<1>3. ASSUME NEW k \in 1 .. n, k - 1 \in T
      PROVE  k \in T
  <2>1. /\ k + 1 \in 1 .. Len(run) - 1 /\ k - 1 + 2 = k + 1 /\ k + 1 + 1 = k + 2
        /\ k \in 0 .. n
    BY <1>1
  <2>2. u \notin Inside(run[k + 1])
    BY <1>3, <2>1
  <2>3. <<run[k + 1], run[k + 2]>> \in Down
    BY <2>1
  <2>4. Inside(run[k + 2]) \subseteq Inside(run[k + 1])
    BY <2>3 DEF Down
  <2> QED
    BY <2>1, <2>2, <2>4
<1> HIDE DEF T
<1>4. \A k \in 0 .. n : k \in T
  BY <1>1, <1>2, <1>3, LoopInduction
<1>5. ASSUME NEW k \in 2 .. Len(run)
      PROVE  u \notin Inside(run[k])
  <2>1. k - 2 \in 0 .. n /\ k - 2 + 2 = k
    BY <1>1
  <2>2. u \notin Inside(run[k - 2 + 2])
    BY <1>4, <2>1 DEF T
  <2> QED
    BY <2>1, <2>2
<1> QED
  BY <1>5

\* A step that changes the memory is a write of the request being served, or
\* the start of a server, which leaves the groups alone.
LEMMA WhoWrites ==
  ASSUME ArraysInv, [Next]_vars, ~torn
  PROVE  \/ mem' = mem
         \/ /\ todo' = <<>> /\ mem'.groups = mem.groups
         \/ /\ Story \in Runs /\ Len(Story) > 1 /\ Hill(Story)
            /\ mem = Story[1] /\ mem' = Story[2]
            /\ Len(todo') = Len(Story) - 2
            /\ \A k \in 1 .. Len(todo') : todo'[k] = Story[k + 2]
<1>1. CASE Write
  <2>1. /\ mem \in Sound /\ todo \in Seq(Sound) /\ todo # <<>>
        /\ mem' = Head(todo) /\ todo' = Tail(todo) /\ Hill(Story)
    BY <1>1 DEF ArraysInv, AsExpected, Write
  <2>2. /\ Story \in Runs /\ Len(Story) = Len(todo) + 1 /\ Story[1] = mem
        /\ \A k \in 1 .. Len(todo) : Story[k + 1] = todo[k]
    BY <2>1, StoryIsRun
  <2>3. /\ Len(todo) \in Nat /\ Len(todo) >= 1 /\ Head(todo) = todo[1]
        /\ Len(todo') = Len(todo) - 1
        /\ \A k \in 1 .. Len(todo) - 1 : todo'[k] = todo[k + 1]
    BY <2>1, HeadTailProperties, EmptySeq, LenProperties
  <2>4. Len(Story) > 1 /\ mem' = Story[2] /\ Len(todo') = Len(Story) - 2
    BY <2>1, <2>2, <2>3
  <2>5. ASSUME NEW k \in 1 .. Len(todo')
        PROVE  todo'[k] = Story[k + 2]
    <3>1. k \in 1 .. Len(todo) - 1 /\ k + 1 \in 1 .. Len(todo) /\ k + 1 + 1 = k + 2
      BY <2>3
    <3>2. Story[k + 1 + 1] = todo[k + 1]
      BY <2>2, <3>1
    <3> QED
      BY <2>3, <3>1, <3>2
  <2> QED
    BY <2>1, <2>2, <2>4, <2>5
<1>2. CASE Start
  <2>1. mem \in Memories
    BY DEF ArraysInv, Sound
  <2> QED
    BY <1>2, <2>1 DEF ArraysInv, Start, Memories
<1>3. CASE Kill
  BY <1>3 DEF Kill
<1>4. CASE Request
  BY <1>4 DEF Request, Connect, Disconnect, Join, CreateGroup, Leave, Merge,
              Kick, Promote, Demote, Serve
<1>5. CASE UNCHANGED vars
  BY <1>5 DEF vars
<1> QED
  BY <1>1, <1>2, <1>3, <1>4, <1>5 DEF Next

\* Who is in no group any more after a write is not put back by a later one of
\* the same request: at no point is a member on the move in no group.
THEOREM NobodyIsLostOnTheMove == Spec => NobodyIsLost
<1>1. ASSUME ArraysInv, [Next]_vars, ~torn, NEW u \in Names,
             InSomeGroup(mem, u), ~InSomeGroup(mem', u),
             NEW k \in 1 .. Len(todo')
      PROVE  ~InSomeGroup(todo'[k], u)
  <2>1. mem' # mem /\ mem'.groups # mem.groups
    BY <1>1 DEF InSomeGroup, Live, Listed
  <2>2. /\ Story \in Runs /\ Len(Story) > 1 /\ Hill(Story)
        /\ mem = Story[1] /\ mem' = Story[2]
        /\ Len(todo') = Len(Story) - 2
        /\ \A j \in 1 .. Len(todo') : todo'[j] = Story[j + 2]
    <3>1. todo' # <<>>
      BY <1>1
    <3> QED
      BY <1>1, <2>1, <3>1, WhoWrites, Zenon
  <2>3. u \in Inside(Story[1]) /\ u \notin Inside(Story[2])
    BY <1>1, <2>2 DEF Inside
  <2>4. <<Story[1], Story[2]>> \notin Up
    BY <2>3 DEF Up
  <2>5. \A j \in 1 .. Len(Story) - 1 : <<Story[j], Story[j + 1]>> \in Down
    BY <2>2, <2>4, FirstOfHill
  <2>6. \A j \in 2 .. Len(Story) : u \notin Inside(Story[j])
    BY <2>2, <2>3, <2>5, NobodyComesBack
  <2>7. k + 2 \in 2 .. Len(Story)
    BY <2>2, NowIsSound
  <2>8. u \notin Inside(todo'[k])
    BY <2>2, <2>6, <2>7
  <2> QED
    BY <2>8 DEF Inside
<1>2. ArraysInv /\ [Next]_vars =>
        [\A u \in Names :
           ~torn /\ InSomeGroup(mem, u) /\ ~InSomeGroup(mem', u) =>
              \A k \in 1 .. Len(todo') : ~InSomeGroup(todo'[k], u)]_vars
  BY <1>1
<1> QED
  BY <1>2, MemoryTellsTheStory, PTL DEF Spec, NobodyIsLost

\* A group that exists before and after a write, and had an administrator, has
\* one: no stop between two writes leaves it without.
THEOREM StopsLeaveAdministrators == Spec => NoWriteTakesTheLastAdmin
<1>1. ASSUME NEW m \in Sound, NEW g \in Groups
      PROVE  Governed(m, g) <=> Admins(m, g) # {}
  <2>1. Admins(m, g) \subseteq Names
    BY DEF Sound, Filled, Admins
  <2> QED
    BY <2>1, Found DEF Governed
<1>2. ASSUME ArraysInv, [Next]_vars, ~torn, NEW g \in Groups,
             Live(mem, g), Governed(mem, g), Live(mem', g)
      PROVE  Governed(mem', g)
  <2>1. CASE mem' = mem
    BY <1>2, <2>1
  <2>2. CASE mem'.groups = mem.groups
    BY <1>2, <2>2 DEF Governed, HasRight
  <2>3. CASE /\ Story \in Runs /\ Len(Story) > 1 /\ Hill(Story)
             /\ mem = Story[1] /\ mem' = Story[2]
    <3>1. /\ Len(Story) \in Nat /\ 1 \in 1 .. Len(Story) - 1 /\ 1 + 1 = 2
      BY <2>3, NowIsSound
    <3>2. <<mem, mem'>> \in Up \/ <<mem, mem'>> \in Down
      BY <2>3, <3>1, FirstOfHill
    <3>3. mem \in Sound /\ mem' \in Sound /\ KeepsAdmins(mem, mem')
      BY <3>2 DEF Up, Down
    <3> QED
      BY <1>1, <1>2, <3>3 DEF KeepsAdmins
  <2> QED
    BY <1>2, <2>1, <2>2, <2>3, WhoWrites
<1>3. ArraysInv /\ [Next]_vars =>
        [\A g \in Groups :
           ~torn /\ Live(mem, g) /\ Governed(mem, g) /\ Live(mem', g) =>
              Governed(mem', g)]_vars
  BY <1>2
<1> QED
  BY <1>3, MemoryTellsTheStory, PTL DEF Spec, NoWriteTakesTheLastAdmin
=============================================================================
