SPECIFICATION Spec
CONSTANTS
    Archives <- MCArchives
    Settings <- MCSettings
    FileSystems <- MCFileSystems
    Paths <- MCPaths
    Parent <- MCParent
    NoDir = "root"
    Default <- MCDefault
    StreamSkipLate = TRUE
    MaxCalls = 2
INVARIANT Aligned
CHECK_DEADLOCK FALSE
