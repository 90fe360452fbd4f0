\* Two patient users, two groups: joins, leaves, kicks, colours.
SPECIFICATION ChatSpec
CONSTANTS
    Names = {a, b}
    Addrs = {a, b}
    Groups = {g1, g2}
    Colors = {Green, Red}
    Green = Green
    EmptyName = EmptyName
    NoGroup = NoGroup
    NoAddr = NoAddr
    Serveur = Serveur
    Nothing = Nothing
    NameOf <- OneProcessEach
    MaxClients = 2
    MaxGroups = 2
    Restarts = FALSE
    Commands = {"join", "leave", "kick", "color"}
    Patient = TRUE
    Interrupts = FALSE
    Crashes = FALSE
    Unreliable = FALSE
    MaxOut = 2
    MaxInbox = 2
INVARIANTS
    ChatTypeOK
    PromptIsTrue
    NoHiddenMembership
    NoClientDrifts
VIEW View
SYMMETRY Symmetry
