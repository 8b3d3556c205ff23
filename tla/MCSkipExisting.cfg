CONSTANTS
    a = a
    b = b
    Jobs <- MCOneJob
    Scopes <- MCOneScope
    MaxBad = 1
    MaxPauses = 0
    MaxKills = 0
    MaxReboots = 0
SPECIFICATION Spec
INVARIANT
    OnlySuccessIsSkipped
