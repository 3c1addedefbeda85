\* Two merges that may overlap, failing writes, operator edits and restarts.
SPECIFICATION FileSpec
CONSTANTS
    Merger = {m1, m2}
    Song = {s1, s2}
    Label = {act1, act2}
    DefaultLabel = act2
    Absent = Absent
    Blank = Blank
    Broken = Broken
    Saves <- AnySave
    MaxEdits = 4
    MaxCrashes = 1
INVARIANT SavedSongsStay
PROPERTIES
    FileIsWhole
    UnbrokenByMerges
CHECK_DEADLOCK FALSE
