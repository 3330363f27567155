SPECIFICATION FairSpec
CONSTANTS
    Workers = {w1, w2}
    Commands <- RecordCommands
    MaxFaults = 1
    MayCancel = TRUE
    MayChange = TRUE
INVARIANTS
    ResultsFaithful
    ChannelsSafe
PROPERTIES
    RecordRunEnds
