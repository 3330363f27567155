SPECIFICATION FairSpec
CONSTANTS
    NumInputs = 3
    Workers = {w1, w2}
    MaxInFlightRecords = 1
    Contents <- ContractContents
    ContinueOnError = TRUE
    Prefetch = 1
    ParentCancel = TRUE
    CommitFaults = TRUE
INVARIANT CompletedMeansAllBuilt
PROPERTY OrderedCommitSpec
PROPERTY Terminates
