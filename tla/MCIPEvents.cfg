SPECIFICATION Spec
CONSTANTS
    s1 = s1  s2 = s2  c1 = c1  c2 = c2  sw = sw  p1 = p1  p2 = p2
    Sessions <- TwoSessions
    NoSession = NoSession
    Chars <- BothChars
    SwitchChars <- Switch
    TimedChars <- None
    PIDs <- None
    NoPID = NoPID
    MaxEvents = 2
    MaxIdle = 1
    Delay = 1
    TTL = 0
    MaxInput = 1
    MaxOutput = 1
    MaxChunks = 0
    MayStop = FALSE
INVARIANTS EventsScheduled
PROPERTIES KeepsContract
SYMMETRY Symmetry
