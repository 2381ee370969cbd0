SPECIFICATION FairSpec
CONSTANTS
    ip1 = ip1
    ip2 = ip2
    ip3 = ip3
    ble = ble
    NoSession = NoSession
    Sessions <- TwoIP
    IPSessions <- TwoIP
    BLESessions = {}
    MaxTries = 1
    SupportsMFiHWAuth = FALSE
    HasDisplay = FALSE
    HasNFC = TRUE
INVARIANTS
    SecretsHaveUse
    UpdateNotLost
PROPERTIES
    NFCPairingModeEnds
