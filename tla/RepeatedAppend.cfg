\* The same rows appended again under another key.
CONSTANTS
    Contents = {a}
    Requests = {r1}
    MaxRecords = 2
    MaxFiles = 3
    NoContent = NoContent
    NoFile = NoFile
    UserFile = UserFile
SPECIFICATION Spec
INVARIANT SameContentAsks
