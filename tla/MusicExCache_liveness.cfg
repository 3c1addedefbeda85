\* Liveness: upstream changes, the file is edited, refreshes fail, the server restarts, then quiet.
SPECIFICATION FairSpec
CONSTANTS
    Song = {s1}
    Label = {act1, act2}
    DefaultLabel = act2
    Absent = Absent
    Blank = Blank
    Broken = Broken
    NoBody = NoBody
    Plain = Plain
    Body = {b1, b2}
    Merger = {}
    Unmergeable = {}
    Reader = {}
    MaxEdits = 2
    MaxCrashes = 1
    MaxPublishes = 2
    Saves <- SavesOnly
PROPERTIES
    OverridesHeal
    RawCatchesUp
