SPECIFICATION Spec
CONSTANTS
    JobCount <- MCJobCount
    Wants <- MCWideWants
    Packages <- MCPackages
    PkgOf <- MCPkgOf
    Unpacks <- MCUnpacks
    Virtual <- MCVirtual
    Threads = 2
    HaltOnError = TRUE
    FailImmediately = FALSE
    AutoRemove = FALSE
INVARIANTS
    ExitStatus
    DrainedBeforeExit
    OnlyUnseenSurvive
PROPERTIES
    Termination
