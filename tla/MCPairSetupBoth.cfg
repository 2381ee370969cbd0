SPECIFICATION Spec
CONSTANTS
    ip1 = ip1
    ip2 = ip2
    ip3 = ip3
    ble = ble
    NoSession = NoSession
    Sessions <- OneOfEach
    IPSessions <- OneIP
    BLESessions <- OneBLE
    MaxTries = 2
    SupportsMFiHWAuth = TRUE
    HasDisplay = FALSE
    HasNFC = FALSE
INVARIANTS
    ProcedureOwned
PROPERTIES
    PairingNeedsProof
    CorrectCodeNotCounted
