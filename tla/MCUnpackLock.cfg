SPECIFICATION Spec
CONSTANTS
    Jobs <- MCJobs
    Packages <- MCPackages
    JobPkg <- MCJobPkg
    UnpackDeps <- MCUnpackDeps
    NoJob = 0
    MaxBuilds = 2
    MaxFailures = 1
INVARIANTS
    MutualExclusion
    UnpackedForUse
    OwnerIsHolder
PROPERTIES
    StaysUnpacked
    JobsEnd
