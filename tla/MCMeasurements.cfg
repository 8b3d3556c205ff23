CONSTANTS
    a = a
    b = b
    Jobs <- MCJobs
    Scopes <- MCScopes
    MaxBad = 0
    MaxPauses = 0
    MaxKills = 0
    MaxReboots = 0
SPECIFICATION Spec
INVARIANT
    MeasurementsKept
