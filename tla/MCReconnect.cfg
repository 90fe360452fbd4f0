\* Two processes of one user name, which may be killed; datagrams may be lost
\* or overtake one another.
SPECIFICATION ChatSpec
CONSTANTS
    Names = {a}
    Addrs = {p1, p2}
    Groups = {g1}
    Colors = {Green}
    Green = Green
    EmptyName = EmptyName
    NoGroup = NoGroup
    NoAddr = NoAddr
    Serveur = Serveur
    Nothing = Nothing
    NameOf <- OneNameForAll
    MaxClients = 2
    MaxGroups = 2
    Restarts = FALSE
    Commands = {"join", "text", "msg", "merge", "promote", "demote", "groups"}
    Patient = FALSE
    Interrupts = FALSE
    Crashes = TRUE
    Unreliable = TRUE
    MaxOut = 2
    MaxInbox = 2
INVARIANTS
    RunningClientHasTheSlot
    OneClientPerName
VIEW View
SYMMETRY Symmetry
