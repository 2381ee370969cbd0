SPECIFICATION DataSpec
CONSTANTS
    Databases <- MCDatabases
    MinChunks = {1, 7}
    MaxChunks = {10}
    WordBytes = 3
    MaxDepth = 3
    Accessories <- MCAccessories
    Requests <- MCRequests
    NumContexts = 2
    ReadNumbers = {"0", "65535"}
    ReadTexts <- MCReadTexts
    Spare = 1
    Bits <- MCBits
    Unit = 10
    Scenarios <- MCScenarios
    MaxEventNotifications = 2
    BufferSize = 24
    MaxStringBytes = 4
    ReadErrors = {"Unknown", "Busy"}
    WriteErrors = {"NotAuthorized"}
    AlwaysFits = TRUE
    FragmentBytes = 2
    LastType = 7
    Readings <- MCReadings
    Capacities = {6, 14, 40}
INVARIANTS
    PiecesMakeDocument
    BytesCounted
    ContextsAsAsked
    WritesAsAsked
    OnlyUncheckedHandlersMissing
    ValuesKept
CHECK_DEADLOCK FALSE
