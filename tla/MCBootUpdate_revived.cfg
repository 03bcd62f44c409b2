SPECIFICATION Spec
CONSTANTS
    Versions <- MCVersions
    Installed = "old"
    Intact <- MCIntact
    Compatible <- MCCompatible
    Arch <- MCArch
    CanUpdate <- MCCanUpdate
    Size <- MCSize
    Capacity = 10
    FlashFreeMin = 1
    None = None
    MaxPuts = 2
    MaxCuts = 2
PROPERTIES
    FailedWasTried
CHECK_DEADLOCK FALSE
