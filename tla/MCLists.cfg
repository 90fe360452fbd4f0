\* One user lists users and groups.
SPECIFICATION ChatSpec
CONSTANTS
    Names = {a}
    Addrs = {a}
    Groups = {g1}
    Colors = {Green}
    Green = Green
    EmptyName = EmptyName
    NoGroup = NoGroup
    NoAddr = NoAddr
    Serveur = Serveur
    Nothing = Nothing
    NameOf <- OneProcessEach
    MaxClients = 2
    MaxGroups = 2
    Restarts = FALSE
    Commands = {"users", "groups"}
    Patient = TRUE
    Interrupts = FALSE
    Crashes = FALSE
    Unreliable = FALSE
    MaxOut = 2
    MaxInbox = 2
PROPERTY
    ShownListIsTheOneAsked
VIEW View
SYMMETRY Symmetry
