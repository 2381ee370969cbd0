SPECIFICATION PlatformSpec
CONSTANTS
    h1 = h1
    h2 = h2
    h3 = h3
    h4 = h4
    key1 = key1
    key2 = key2
    v1 = v1
    v2 = v2
    Handles <- MCHandles
    Fds <- MCFds
    Delays <- MCDelays
    MaxTimers = 3
    MaxTime = 2
    MaxContext = 3
    Sizes <- MCSizes
    MaxMessages = 3
    PipeSize = 8
    CharSigned = FALSE
    End = End
    Streams <- MCStreams
    StreamInterests <- MCInterests
    MaxConnects = 3
    NoHandle = NoHandle
    Keys <- MCKeys
    Domain <- MCDomain
    Values <- MCValues
    CallsFail = TRUE
    FsyncFails = FALSE
    Root = TRUE
    Torn = Torn
    Nothing = Nothing
    Requests = 6
    Begin <- MCBegin
    Body <- MCBody
    Flaws <- MCFlaws
    BadHeaders <- MCFlaws
    Verify = 2
    Response <- MCResponse
    EventBytes = 2
    OutOfResources = 1
    MaxFrame = 3
    NumAAD = 1
    NumTag = 1
    InCapacity = 8
    OutCapacity = 7
INVARIANTS
    RequestsServed
    OnlyPolledHandles
    CallbacksInOrder
    ValueSurvives
PROPERTIES
    TimersByDeadline
CHECK_DEADLOCK FALSE
