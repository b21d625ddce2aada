SPECIFICATION FairSpec
CONSTANTS
    Edits = {e1, e2}
    Sample = sample
    Slots = {s1}
    Inodes = {i1, i2}
    Torn = torn
    None = none
    SavesFail = TRUE
    ReadsFail = FALSE
    Secrets = FALSE
INVARIANTS
    TypeOK
    DiskComplete
    QuiescentMeansSaved
    TimerIffPending
    FlushedBeforeLeaving
PROPERTIES
    ImplementsDurableStore
    EditsReachDisk
