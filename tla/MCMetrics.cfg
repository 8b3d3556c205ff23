CONSTANTS
    None = None
    Manifests <- MCManifests
    Found <- MCFound
    Requests <- MCRequests
    MaxInvocations = 2
    MaxLifts = 1
SPECIFICATION Spec
INVARIANTS
    AccountsAgree
    OnlyWhatWasLifted
    OrderIrrelevant
    MatchRatesAgree
    ZerosAreMeasured
    StatsInOrder
    CsvBelongsToJson
    OutputsAreCurrent
CHECK_DEADLOCK FALSE
