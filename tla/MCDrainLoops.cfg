SPECIFICATION Spec
CONSTANTS
    MaxCells = 7
    MaxRuns = 1
    Asks <- Loops
INVARIANTS
    NeverStalls
    LoopsBounded
