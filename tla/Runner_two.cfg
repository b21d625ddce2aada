SPECIFICATION Spec
CONSTANTS
    Runs = {r1, r2}
    N = 1
    Iterations = 2
    Unsupported = {}
    NoController = none
    Configs <- TwoConfigs
INVARIANTS
    RowsIsolated
    ParallelCoversAll
PROPERTIES
    SoloCancelAborts
CHECK_DEADLOCK FALSE
