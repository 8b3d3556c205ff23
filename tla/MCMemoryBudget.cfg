\* Four threads, so that one release wakes several sleepers at once.
CONSTANTS
    NumWorkers = 4
    Amounts <- MCAmounts
    TotalMB = 4
SPECIFICATION FairBudgetSpec
INVARIANTS
    BudgetTypeOK
    LedgerExact
    BudgetRespected
    NoLostWakeup
PROPERTY
    SleepersWoken
