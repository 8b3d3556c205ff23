CONSTANTS
    r = r
    o = o
    b = b
    c = c
    NoJob = NoJob
    JobList <- MCJobList
    Licensed <- MCLicensed
    Estimate <- MCEstimate
    MaxParallel = 1
    TotalMB = 4
    MaxSignals = 1
    MaxLines = 1
SPECIFICATION Spec
INVARIANTS
    TypeOK
    RunningFitsBudget
    MemoryReturned
    NothingLeftPending
    LicenseCap
    SingleWriter
    ExitTellsTruth
