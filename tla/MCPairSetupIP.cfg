SPECIFICATION Spec
CONSTANTS
    ip1 = ip1
    ip2 = ip2
    ip3 = ip3
    ble = ble
    NoSession = NoSession
    Sessions <- ThreeIP
    IPSessions <- ThreeIP
    BLESessions = {}
    MaxTries = 3
    SupportsMFiHWAuth = TRUE
    HasDisplay = TRUE
    HasNFC = TRUE
SYMMETRY IPSymmetry
INVARIANTS
    TypeOK
    CodeRefreshed
PROPERTIES
    KeepsContract
