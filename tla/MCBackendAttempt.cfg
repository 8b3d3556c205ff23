SPECIFICATION FairSpec
CONSTANTS
    imported = imported
    static = static
    Found <- MCFound
    Backends <- MCBackends
    External <- MCExternal
    Symbols <- MCSymbols
    Limits = {1}
    MaxAttempts = 2
INVARIANTS
    AttemptTypeOK
    NothingLeftBehind
    OkMeansExitedByItself
    CrashedHidesOnly
    OkMeansLifted
    DumpMatchesRecords
    SummaryTellsHowFar
    OkLeavesNoTool
    ShortListingOnlyOnRetry
PROPERTIES
    AttemptEnds
    KeepsPromise
CHECK_DEADLOCK FALSE
