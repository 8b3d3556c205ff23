CONSTANTS
    a = a
    b = b
    Jobs <- MCJobs
    Scopes <- MCScopes
    MaxBad = 2
    MaxPauses = 1
    MaxKills = 0
    MaxReboots = 1
SPECIFICATION Spec
INVARIANTS
    TypeOK
    NothingForgotten
    CompleteMeansAllRan
    ManifestMatchesDisk
PROPERTY
    PauseOutlivesProcess
