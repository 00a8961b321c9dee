SPECIFICATION FSpec
CONSTANTS
    Names = {"n1", "n2"}
    DefaultName = "unknown"
    NoName = "none"
    Data = {"d1"}
    NoData = "d0"
    Attrs = {"a0"}
    NewAttr = "a0"
    ThreadIDs = {"filename", "comment", "data"}
    Archives <- MCFlushArchives
    FirstIdx = 6
    Sources = {"buffer"}
    DupModes = {"allow"}
    Mimics = {FALSE}
    Styles = {TRUE,FALSE}
    Wrappers = {1}
    Discards = {FALSE}
    MaxIdx = 9
    MaxEdits = 2
INVARIANT NoAssertFailure
CHECK_DEADLOCK FALSE
