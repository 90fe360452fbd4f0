------------------------------- MODULE MCChat -------------------------------
(* Small instances of Chat for TLC.                                        *)
EXTENDS Prompt

\* One process per user, called by the user's name.
OneProcessEach == [c \in Addrs |-> c]

\* Every process is started with the same user name.
OneNameForAll == [c \in Addrs |-> CHOOSE u \in Names : TRUE]

\* msg and sent describe the server's last step only: no action reads them.
View == <<shm, clientVars, out, inbox>>

Symmetry ==
    Permutations(Names) \cup Permutations(Groups) \cup Permutations(Addrs)
=============================================================================
