SPECIFICATION Spec
CONSTANTS
    both = both
    quiet = quiet
    MaxGSN = 7
    Chars <- MCChars
    Broadcasts <- MCBroadcasts
    Disconnecteds <- MCDisconnecteds
    x = x
    y = y
    Values <- MCValues
    MaxFirmware = 2
    MaxSessions = 1
    MaxResets = 1
    MaxConfig = 2
    RemoteRemoval = FALSE
    WarmRestart = FALSE
    PartialPurge = FALSE
    Rollback = FALSE
    None = None
INVARIANTS
    NonceFresh
    PairingsMatchIdentity
    MissedEventSignalled
SYMMETRY MCSymmetry
