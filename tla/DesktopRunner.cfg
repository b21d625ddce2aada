SPECIFICATION Spec
CONSTANTS
    Runs = {r1, r2}
    N = 2
    Unsupported = {2}
    StepsPerRequest = 1
    MaxEvents = 2
INVARIANTS
    TypeOK
    OneRunShown
PROPERTIES
    RunsEnd
    SoloCancelStops
    PanelLeavesRunning
