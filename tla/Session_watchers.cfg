SPECIFICATION Spec
CONSTANTS
    Projects = {p1}
    App = app
    Tasks = {k1, k2}
    Edits = {}
    None = none
    MaxChanged = 0
PROPERTY WatcherStops
