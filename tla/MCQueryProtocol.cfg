SPECIFICATION FairSpec
CONSTANTS
    MaxCycles = 3
    Depth = 2
INVARIANT RunsWhatPassed
INVARIANT WaitingClientInStep
INVARIANT ReadyBalanced
PROPERTY CycleEnds
