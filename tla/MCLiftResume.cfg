CONSTANTS
    a = a
    b = b
    Jobs <- MCOneJob
    Scopes <- MCOneScope
    MaxBad = 2
    MaxPauses = 1
    MaxKills = 1
    MaxReboots = 1
SPECIFICATION FairSpec
PROPERTY
    ResumeCompletes
