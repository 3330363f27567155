SPECIFICATION Spec
CONSTANTS
    Runs = {r1, r2}
    Nobody = Nobody
    NumShards = 2
    DurableChoices <- BothOrOne
    ExtractMulti = FALSE
    DirExists = 0
    MaxFaults = 2
    MaxTrouble = 2
    MaxKills = 1
    MaxCrashes = 1
SYMMETRY RunSymmetry
INVARIANTS
    MarkerMeansGeneration
    ReportedIsOnDisk
PROPERTIES
    NeverTouchesForeignFile
    PublicationSpec
