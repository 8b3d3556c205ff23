CONSTANTS
    r = r
    o = o
    b = b
    c = c
    NoJob = NoJob
    JobList <- MCShortList
    Licensed <- MCLicensed
    Estimate <- MCEstimate
    MaxParallel = 1
    TotalMB = 8
    MaxSignals = 0
    MaxLines = 0
SPECIFICATION Spec
INVARIANT
    MaxParallelHonoured
