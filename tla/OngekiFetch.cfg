\* Runs one after the other; two songs of one name and level, and a third.
SPECIFICATION Spec
CONSTANTS
    Pages <- GamePages
    Songs <- SongLists
    DetailProfile <- Own
    FriendProfile <- Friends
    Comment = {1}
    Pictures <- Files
    Id = {3, 4, 5}
    NoId = NoId
    NoLevel = NoLevel
    NoConst = NoConst
    Missing = Missing
    None = None
INVARIANTS
    OwnKeys
    PicturesAreThere
PROPERTIES
    SentIsSaved
    SkipMeansSame
