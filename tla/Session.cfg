SPECIFICATION Spec
CONSTANTS
    Projects = {p1, p2}
    App = app
    Tasks = {k1, k2}
    Edits = {e1, e2}
    None = none
    MaxChanged = 1
INVARIANTS
    TypeOK
    TreesStayHome
    ShownIsOpen
PROPERTIES
    DiskNeverShrinks
CONSTRAINT Uncrossed
