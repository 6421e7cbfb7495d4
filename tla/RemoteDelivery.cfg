\* Three files ever written and a record of two deliveries: four keys, so
\* that the record overflows.
CONSTANTS
    Contents = {a}
    Requests = {r1, r2}
    MaxRecords = 2
    MaxFiles = 3
    NoContent = NoContent
    NoFile = NoFile
    UserFile = UserFile
SYMMETRY RequestSymmetry
SPECIFICATION Spec
INVARIANTS TypeOK SavedIsOnRecord CommittedWasSaved NoKeyIsRepeatedSilently
