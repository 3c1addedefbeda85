\* A session of the game that ends in a run: the pages have no rows, and the site loses all.
SPECIFICATION Spec
CHECK_DEADLOCK FALSE
CONSTANTS
    c1 = c1
    c2 = c2
    d1 = d1
    Chart = {c1, c2}
    Played = {c1}
    Run = {a1, a2}
    Device = {d1}
    DeviceOf <- OneDevice
    MaxScore = 1
    MaxProfile = 1
    NoProfile = NoProfile
    NoRun = NoRun
    Pages <- SomePages
    Catalogues <- Lookups
    Instants <- Clock
    MaxFailures = 1
    MaxActive = 2
PROPERTY UpdatesKeepRows
