SPECIFICATION Spec
CONSTANTS
    Archives <- MCArchives
    Settings <- MCSettings
    FileSystems <- MCFileSystems
    Paths <- MCPaths
    Parent <- MCParent
    NoDir = "root"
    Default <- MCDefault
    StreamSkipLate = FALSE
    MaxCalls = 2
INVARIANTS ExtractTypeOK TocOrNothing Aligned 
PROPERTIES ImplementsReader OverwriteOnlyWithLeave CallReturns
CHECK_DEADLOCK FALSE
