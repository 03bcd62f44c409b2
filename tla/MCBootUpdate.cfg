SPECIFICATION Spec
CONSTANTS
    Versions <- MCVersions
    Installed = "old"
    Intact <- MCIntact
    Compatible <- MCCompatible
    Arch <- MCArch
    CanUpdate <- MCCanUpdate
    Size <- MCSize
    Capacity = 10
    FlashFreeMin = 1
    None = None
    MaxPuts = 2
    MaxCuts = 2
INVARIANTS
    NeverBricks
    Matched
PROPERTIES
    GoodUpdateInstalled
    ComesUp
CHECK_DEADLOCK FALSE
