SPECIFICATION Spec
CONSTANTS
    MaxCycles = 2
    Depth = 1
INVARIANT RefusedCycleRunsNothing
