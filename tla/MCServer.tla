------------------------------ MODULE MCServer ------------------------------
(* Small instances of Server for TLC.                                      *)
EXTENDS ServerMembership, TLC

\* One process per user, called by the user's name.
MCNameOf == [a \in Addrs |-> a]

\* msg and sent describe the last step only: no action reads them.
Memory == shm

Symmetry == Permutations(Names) \cup Permutations(Groups)
=============================================================================
