SPECIFICATION Spec
CONSTANTS
    Names = {"n1", "n2"}
    DefaultName = "unknown"
    NoName = "none"
    Data = {"d1"}
    NoData = "d0"
    Attrs = {"a0", "a1"}
    NewAttr = "a0"
    ThreadIDs = {"filename", "comment", "data", "disk", "control"}
    Archives <- MCArchives
    FirstIdx = 6
    Sources = {"file"}
    DupModes = {"allow", "overwrite", "never", "must"}
    Mimics = {TRUE, FALSE}
    Styles = {TRUE, FALSE}
    MaxIdx = 8
    MaxEdits = 3
PROPERTY EmptiedRecordsDeleted
CHECK_DEADLOCK FALSE
