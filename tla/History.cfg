SPECIFICATION Spec
CONSTANTS
    MaxEntries = 3
    DiskBudget = 4
    Sizes = {1, 3, 5}
    MaxVersion = 3
    MaxId = 12
    MaxFiles = 3
    NoPath = NoPath
    NoContent = NoContent
    Foreign = Foreign
INVARIANTS TypeOK HistoryIsWhole ReadersAgree OnlyCopyIsSafe
PROPERTIES KeepsTheUndoLog FilesAreImmutable ReviewReplacesWhatItRead
CHECK_DEADLOCK FALSE
