\* Servers that follow one another and may be stopped at any step.
SPECIFICATION Spec
CONSTANTS
    Servers = {s1, s2}
    Names = {a, b, c}
    NoName = NoName
    MaxClients = 2
    Concurrent = FALSE
    Kills = TRUE
INVARIANTS
    TypeOK
    NoLostUser
PROPERTIES
    NoEndlessWait
