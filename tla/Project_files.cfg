SPECIFICATION Spec
CONSTANTS
    c = c
    f = f
    r = r
    Dirs = {c, f}
    Requests = {r}
    Root = root
    None = none
    Home <- SmallHome
    Above <- SmallAbove
INVARIANTS
    TypeOK
    KeptSurvives
    AddedDirsComplete
    QuiescentMeansSaved
PROPERTIES
    KeptDirsKeepBackups
