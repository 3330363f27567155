SPECIFICATION Spec
CONSTANTS
    CommandLines <- AllCommandLines
    RowPlans <- MixedRows
    MaxFaults = 2
INVARIANTS
    ManifestsHonest
    InputsAccounted
    ShardsExact
PROPERTIES
    CompleteIsFinal
