\* Two users, one server that may restart.
SPECIFICATION Spec
CONSTANTS
    Names = {a, b}
    Addrs = {a, b}
    Groups = {g1, g2}
    Colors = {Green}
    Green = Green
    EmptyName = EmptyName
    NoGroup = NoGroup
    NoAddr = NoAddr
    Serveur = Serveur
    Nothing = Nothing
    NameOf <- MCNameOf
    MaxClients = 2
    MaxGroups = 2
    Restarts = TRUE
PROPERTY
    ListedUsersAreInAGroup
VIEW Memory
SYMMETRY Symmetry
