CONSTANTS
    r = r
    o = o
    b = b
    c = c
    NoJob = NoJob
    JobList <- MCShortList
    Licensed <- MCLicensed
    Estimate <- MCEstimate
    MaxParallel = 1
    TotalMB = 4
    MaxSignals = 2
    MaxLines = 0
SPECIFICATION FairSpec
PROPERTY
    Terminates
\* The stuck process is the finding: the stop is looked for as a failure to end.
CHECK_DEADLOCK FALSE
