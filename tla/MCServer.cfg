\* Three users, two groups, room for all of them; the server stays up.
SPECIFICATION Spec
CONSTANTS
    Names = {a, b, c}
    Addrs = {a, b, c}
    Groups = {g1, g2}
    Colors = {Green}
    Green = Green
    EmptyName = EmptyName
    NoGroup = NoGroup
    NoAddr = NoAddr
    Serveur = Serveur
    Nothing = Nothing
    NameOf <- MCNameOf
    MaxClients = 3
    MaxGroups = 2
    Restarts = FALSE
INVARIANTS
    TypeOK
    MembersHaveSlots
    EveryGroupKeepsAnAdmin
    NoGhosts
PROPERTIES
    NoSilentEviction
    ConfirmationsAreTrue
    OnlyAdminsGovern
    NewAdminsWereMembers
VIEW Memory
SYMMETRY Symmetry
