\* Two processes of one user name; Ctrl-C while connecting.
SPECIFICATION ChatSpec
CONSTANTS
    Names = {a}
    Addrs = {p1, p2}
    Groups = {g1}
    Colors = {Green}
    Green = Green
    EmptyName = EmptyName
    NoGroup = NoGroup
    NoAddr = NoAddr
    Serveur = Serveur
    Nothing = Nothing
    NameOf <- OneNameForAll
    MaxClients = 2
    MaxGroups = 2
    Restarts = FALSE
    Commands = {}
    Patient = FALSE
    Interrupts = TRUE
    Crashes = FALSE
    Unreliable = FALSE
    MaxOut = 2
    MaxInbox = 2
INVARIANT
    OneClientPerName
VIEW View
SYMMETRY Symmetry
