SPECIFICATION Spec
CONSTANTS
    MaxCells = 5
    MaxRuns = 2
    Asks <- Mixed
INVARIANTS
    TypeOK
    WaitsAnswered
    NothingLeaks
PROPERTIES
    IsACallStack
    RunEnds
