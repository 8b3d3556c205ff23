CONSTANTS
    r = r
    o = o
    b = b
    c = c
    NoJob = NoJob
    JobList <- MCShortList
    Licensed <- MCLicensed
    Estimate <- MCEstimate
    MaxParallel = 1
    TotalMB = 4
    MaxSignals = 0
    MaxLines = 1
SPECIFICATION Spec
INVARIANT
    PausedExitRecorded
