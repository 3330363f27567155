SPECIFICATION Spec
CONSTANTS
    Runs = {r1, r2}
    Nobody = Nobody
    NumShards = 2
    DurableChoices <- AllDurable
    ExtractMulti = TRUE
    DirExists = 1
    MaxFaults = 1
    MaxTrouble = 2
    MaxKills = 0
    MaxCrashes = 0
PROPERTIES
    NeverTouchesForeignFile
