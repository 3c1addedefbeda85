\* Four snapshots, songs of one name, a song that gets its id later, three changes, two edits.
SPECIFICATION Spec
CHECK_DEADLOCK FALSE
CONSTANTS
    NewCount = 1
    OldCount = 2
    PlatCount = 2
    NoId = NoId
    NoVersion = NoVersion
    Payload <- Snapshots
    Catalogue <- TwoCatalogues
    News <- Names
    DefaultNews = {"act2"}
    NumericIds = {1, 4}
    ScoreInput = {0, 990000, 2000000}
    StarInput = {5}
    NoPayload = NoPayload
    NoScenario = NoScenario
    MaxChanges = 3
    MaxEdits = 2
INVARIANTS
    TypeOK
    RowsNeverLower
    TotalsNeverLower
    PatchOfItsChart
    BoardConstFitsLevel
    TargetsAgree
PROPERTY PatchesStay
