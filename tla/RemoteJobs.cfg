SPECIFICATION Spec
CONSTANTS
    Jobs = {j1, j2}
    Workers = {w1, w2}
    MaxCopies = 2
    MaxCrashes = 1
    NoJob = NoJob
    NoResult = NoResult
SYMMETRY Symmetry
INVARIANTS
    TypeOK
    DirectoriesAreOwned
    CallsReturnTheLastRun
PROPERTIES
    NeverRunAgain
CHECK_DEADLOCK FALSE
