SPECIFICATION FSpec
CONSTANTS
    Names = {"n1", "n2"}
    DefaultName = "unknown"
    NoName = "none"
    Data = {"d1"}
    NoData = "d0"
    Attrs = {"a0"}
    NewAttr = "a0"
    ThreadIDs = {"filename", "comment", "data"}
    Archives <- MCFlushArchives
    FirstIdx = 6
    Sources = {"file"}
    DupModes = {"allow"}
    Mimics = {FALSE}
    Styles = {FALSE}
    Wrappers = {1}
    Discards = {TRUE}
    MaxIdx = 9
    MaxEdits = 2
PROPERTY OffsetsSurviveAbort
CHECK_DEADLOCK FALSE
