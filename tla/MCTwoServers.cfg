\* Two servers in the same directory.
SPECIFICATION Spec
CONSTANTS
    Servers = {s1, s2}
    Names = {a, b, c}
    NoName = NoName
    MaxClients = 2
    Concurrent = TRUE
    Kills = FALSE
INVARIANT
    MutualExclusion
