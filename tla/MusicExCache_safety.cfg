\* Safety: a refresher, the watcher, one merge and two Snapshot calls interleaved.
SYMMETRY Readers
SPECIFICATION Spec
CONSTANTS
    Song = {s1}
    Label = {act1, act2}
    DefaultLabel = act2
    Absent = Absent
    Blank = Blank
    Broken = Broken
    NoBody = NoBody
    Plain = Plain
    Body = {b1, b2}
    Merger = {m1}
    Unmergeable = {b2}
    Reader = {r1, r2}
    MaxEdits = 1
    MaxCrashes = 1
    MaxPublishes = 1
    Saves <- AnySave
INVARIANTS
    RawIsDurable
    IndexIsOfItsHash
PROPERTIES
    SnapshotHitIsCurrent
