SPECIFICATION Spec
CONSTANTS
    Clients = {"c1", "c2"}
    Offline = {"c2"}
    Groups = {"g1", "g2", "g3", "g4"}
    Home <- MCHome
    None = None
    NaN = NaN
    MaxActs = 2
    MaxOthers = 1
    MaxLosses = 1
INVARIANTS
    TypeOK
    AgreesWhenQuiet
    FreshConnection
PROPERTIES
    EventuallyAgrees
CHECK_DEADLOCK FALSE
