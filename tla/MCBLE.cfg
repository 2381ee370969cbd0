CONSTANTS
    PairSetup = PairSetup
    PairVerify = PairVerify
    Pairings = Pairings
    On = On
    None = None
    Chars <- MCChars
    Droppers <- MCDroppers
    PairingsChar = Pairings
    Events <- MCEvents
    MaxLeft = 1
    PDUScenarios <- MCPDUScenarios
    StrayPDUs <- MCStrayPDUs
    MaxBroadcasts = 4
    MaxTokenBytes = 4
SPECIFICATION BLESpec
INVARIANTS
    SecureAccess
    PreparedBodyKept
    EventsNotStuck
    RequestAsWritten
    AnswersTrue
PROPERTIES
    TerminalEnds
CHECK_DEADLOCK FALSE
