\* Six songs, pages of two, every combination of the inputs.
SPECIFICATION BrowserSpec
CONSTANTS
    SongLists <- Catalogues
    Query = {2}
    Includes <- Found
    Bound = {4}
    Preference <- Preferences
    Undefined = Undefined
    RowsPerPage = 2
INVARIANTS
    PagesTile
    Ordered
