SPECIFICATION Spec
CONSTANTS
    JobCount <- MCJobCount
    Wants <- MCWants
    Packages <- MCPackages
    PkgOf <- MCPkgOf
    Unpacks <- MCUnpacks
    Virtual <- MCVirtual
    Threads = 3
    HaltOnError = FALSE
    FailImmediately = FALSE
    AutoRemove = TRUE
INVARIANTS
    SourcesKept
    RemovalExact
PROPERTIES
    ImplementsTaskGraph
