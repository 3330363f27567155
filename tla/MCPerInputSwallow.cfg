SPECIFICATION Spec
CONSTANTS
    CommandLines <- SwallowCommandLines
    Names <- ThreeNames
    RowCounts = {0, 2}
    MaxFaults = 1
INVARIANTS
    ZeroExitMeansAllApplied
