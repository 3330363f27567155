SPECIFICATION Spec
CONSTANTS
    NumInputs = 5
    Workers = {w1, w2}
    MaxInFlightRecords = 1
    Contents <- WindowContents
    ContinueOnError = FALSE
    Prefetch = 0
    ParentCancel = FALSE
    CommitFaults = FALSE
SYMMETRY WorkerSymmetry
INVARIANTS
    TypeOK
    InFlightWithinWindow
    LookAheadBounded
