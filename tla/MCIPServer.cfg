SPECIFICATION FairSpec
CONSTANTS
    s1 = s1  s2 = s2  c1 = c1  c2 = c2  sw = sw  p1 = p1  p2 = p2
    Sessions <- TwoSessions
    NoSession = NoSession
    Chars <- OneChar
    SwitchChars <- None
    TimedChars <- OneChar
    PIDs <- OnePID
    NoPID = NoPID
    MaxEvents = 0
    MaxIdle = 1
    Delay = 1
    TTL = 1
    MaxInput = 1
    MaxOutput = 1
    MaxChunks = 2
    MayStop = TRUE
INVARIANTS TimedWriteOnce
PROPERTIES StopCompletes
