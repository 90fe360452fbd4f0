\* Two patient users, three groups: joins and merges.
SPECIFICATION ChatSpec
CONSTANTS
    Names = {a, b}
    Addrs = {a, b}
    Groups = {g1, g2, g3}
    Colors = {Green}
    Green = Green
    EmptyName = EmptyName
    NoGroup = NoGroup
    NoAddr = NoAddr
    Serveur = Serveur
    Nothing = Nothing
    NameOf <- OneProcessEach
    MaxClients = 2
    MaxGroups = 3
    Restarts = FALSE
    Commands = {"join", "merge"}
    Patient = TRUE
    Interrupts = FALSE
    Crashes = FALSE
    Unreliable = FALSE
    MaxOut = 2
    MaxInbox = 2
INVARIANT
    NoHiddenMembership
VIEW View
SYMMETRY Symmetry
