\* Three users for two slots, two groups; the server may restart.
SPECIFICATION Spec
CONSTANTS
    Names = {a, b, c}
    Addrs = {a, b, c}
    Groups = {g1, g2}
    Colors = {Green}
    Green = Green
    EmptyName = EmptyName
    NoGroup = NoGroup
    NoAddr = NoAddr
    Serveur = Serveur
    Nothing = Nothing
    NameOf <- MCNameOf
    MaxClients = 2
    MaxGroups = 2
    Restarts = TRUE
INVARIANTS
    MembersHaveSlots
    EveryGroupKeepsAnAdmin
PROPERTIES
    NoSilentEviction
    ConfirmationsAreTrue
    JoinFailsForWantOfSlots
    ImplementsMembership
VIEW Memory
SYMMETRY Symmetry
