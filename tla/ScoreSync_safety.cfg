\* Safety: three runs on one device, two of them at a time, two failures, and texts out of order.
SYMMETRY Runs
SPECIFICATION Spec
CHECK_DEADLOCK FALSE
CONSTANTS
    c1 = c1
    c2 = c2
    d1 = d1
    Chart = {c1, c2}
    Played = {c1}
    Run = {a1, a2, a3}
    Device = {d1}
    DeviceOf <- OneDevice
    MaxScore = 1
    MaxProfile = 1
    NoProfile = NoProfile
    NoRun = NoRun
    Pages <- SomePages
    Catalogues <- Lookups
    Instants <- Clock
    MaxFailures = 2
    MaxActive = 2
INVARIANTS
    PartialIsFollowedByFull
    LatestIsNewest
PROPERTIES
    SuccessShowsScrape
    PartialKeepsRows
    FullSyncIsExact
