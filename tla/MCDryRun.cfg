INIT XInit
NEXT XNext
CONSTANTS
    XInputs = 1
    XLines <- SuiteLines
    MaxXFaults = 0
INVARIANT DryRunWritesNothing
CHECK_DEADLOCK FALSE
