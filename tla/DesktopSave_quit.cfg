SPECIFICATION Spec
CONSTANTS
    Edits = {e1, e2}
    Sample = sample
    Slots = {s1}
    Inodes = {i1, i2}
    Torn = torn
    None = none
    SavesFail = FALSE
    ReadsFail = FALSE
    Secrets = FALSE
PROPERTIES
    QuitLosesNothing
