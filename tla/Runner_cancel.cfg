SPECIFICATION Spec
CONSTANTS
    Runs = {r1}
    N = 2
    Iterations = 1
    Unsupported = {}
    NoController = none
    Configs <- AllConfigs
PROPERTIES
    CancelStopsRun
CHECK_DEADLOCK FALSE
