SPECIFICATION Spec
CONSTANTS
    Packages <- MCPackages
    Unknown <- MCUnknown
    Targets <- MCTargets
    DependencyMaps <- MCDependencyMaps
    TriggerLists <- MCTriggerLists
INVARIANTS
    KeepsRequired
    LeftoversWanted
    Topological
    PlanComplete
    CircularExact
PROPERTIES
    Termination
