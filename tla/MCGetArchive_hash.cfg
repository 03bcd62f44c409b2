SPECIFICATION Spec
CONSTANTS
    Builds <- MCOneBuild
    Hashes <- MCHashes
    Unchecked = "unchecked"
    NoFile = "none"
    Incomplete = "incomplete"
    Nobody = 0
    Maintainers = {}
    MaxKills = 0
INVARIANT
    AcceptedHash
