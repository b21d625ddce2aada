SPECIFICATION FairSpec
CONSTANTS
    Edits = {e1}
    Sample = sample
    Slots = {s1, s2}
    Inodes = {i1, i2, i3}
    Torn = torn
    None = none
    SavesFail = TRUE
    ReadsFail = TRUE
    Secrets = TRUE
INVARIANTS
    ClosingMatchesHandshake
PROPERTIES
    LeavingEnds
