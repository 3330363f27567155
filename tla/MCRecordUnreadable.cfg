SPECIFICATION FairSpec
CONSTANTS
    Workers = {w1, w2}
    Commands <- UnreadableIndex
    MaxFaults = 0
    MayCancel = FALSE
    MayChange = FALSE
PROPERTIES
    ReturnsOnReadError
