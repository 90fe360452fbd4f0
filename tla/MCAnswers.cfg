\* Two patient users, two groups for one slot; fair threads.
SPECIFICATION FairChatSpec
CONSTANTS
    Names = {a, b}
    Addrs = {a, b}
    Groups = {g1, g2}
    Colors = {Green}
    Green = Green
    EmptyName = EmptyName
    NoGroup = NoGroup
    NoAddr = NoAddr
    Serveur = Serveur
    Nothing = Nothing
    NameOf <- OneProcessEach
    MaxClients = 2
    MaxGroups = 1
    Restarts = FALSE
    Commands = {"join", "leave", "kick"}
    Patient = TRUE
    Interrupts = FALSE
    Crashes = FALSE
    Unreliable = FALSE
    MaxOut = 2
    MaxInbox = 1
PROPERTY
    JoinIsAnswered
