SPECIFICATION FairSpec
CONSTANTS
    Workers = {w1, w2}
    Objects <- SixObjects
    OutputPath = "out"
    Budgets <- TightBudgets
    RetryLimit = 1
    MaxFaults = 1
    MayCancel = TRUE
INVARIANTS
    BudgetHeld
    StagedFilesOwned
PROPERTIES
    SessionEnds
