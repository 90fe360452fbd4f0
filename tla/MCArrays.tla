------------------------------ MODULE MCArrays ------------------------------
(* Small instances of Arrays for TLC.                                      *)
EXTENDS Arrays

\* A memory without the entries at and above the counts, which no function
\* reads before it writes them.
Used(m) ==
    LET list(entries, count) == [i \in 1 .. count |-> entries[i - 1]]
    IN  <<m.users,
          [g \in Groups |->
             LET G == m.groups[g]
             IN  <<G.known, G.active, list(G.users, G.user_count),
                   list(G.admins, G.admin_count)>>]>>

View == <<Used(mem), up, [k \in 1 .. Len(todo) |-> Used(todo[k])], kills,
          torn, expected>>

Symmetry == Permutations(Names) \cup Permutations(Groups)
=============================================================================
