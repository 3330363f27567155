SPECIFICATION Spec
CONSTANTS
    CommandLines <- AllCommandLines
    Names <- ThreeNames
    RowCounts = {0, 2}
    MaxFaults = 2
INVARIANTS
    OutputsHonest
    InputsAccounted
