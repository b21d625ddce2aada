SPECIFICATION FairSpec
CONSTANTS
    Runs = {r1}
    N = 3
    Iterations = 2
    Unsupported = {2}
    NoController = none
    Configs <- AllConfigs
INVARIANTS
    TypeOK
    VisitsBounded
    FailureIsLast
PROPERTIES
    RunsEnd
CHECK_DEADLOCK FALSE
