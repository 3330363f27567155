CONSTANTS
    CardProcs = {p1, p2, p3}
    Attempts = 2
    MaxCrashes = 2
    MaxCardFaults = 1
    MaxProgress = 1
    MaxBeats = 2
    Artifacts = {a1}
    XInputs = 2
    XLines <- SuiteLines
    MaxXFaults = 2
    IRecords = 2
    MaxEdits = 2
    MaxIFaults = 2
    JEdits = 2
    JLists <- SuiteLists
    EThreshold = 1
    NShort = 1
    NLong = 3
    PMaxPut = 2
    QSafe = 10
SYMMETRY SlotSymmetry
INIT Init
NEXT Next
INVARIANTS
    SlotExclusive
    StreamWellFormed CardHasStream
    ExtractReleases BufferedRunHonest
    IndexPublication IndexOfOneSource
    InputIdentityKept MissingStopsFirst
    FieldScopeAgrees   ExpressionAgrees
    ValidationAgrees  ProvenanceAgrees
PROPERTIES
    LiveFilesKept ExistsMeansLive
CHECK_DEADLOCK FALSE
