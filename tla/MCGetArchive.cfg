SPECIFICATION Spec
CONSTANTS
    Builds <- MCBuilds
    Hashes <- MCHashes
    Unchecked = "unchecked"
    NoFile = "none"
    Incomplete = "incomplete"
    Nobody = 0
    Maintainers <- MCMaintainers
    MaxKills = 1
INVARIANTS
    StampTruthful
PROPERTIES
    KeptWhileWanted
    GetEnds
