\* Two users, two groups; the server is stopped twice, anywhere.
SPECIFICATION Spec
CONSTANTS
    Names = {a, b}
    Addrs = {p}
    Groups = {g1, g2}
    Colors = {Green}
    Green = Green
    EmptyName = EmptyName
    NoGroup = NoGroup
    NoAddr = NoAddr
    NoName = NoName
    MaxClients = 2
    MaxGroups = 2
    MaxKills = 2
INVARIANTS
    NoHoles
    ArraysAgreeWithSets
PROPERTIES
    NobodyIsLost
    NoWriteTakesTheLastAdmin
SYMMETRY Symmetry
VIEW View
