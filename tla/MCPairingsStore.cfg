SPECIFICATION Spec
CONSTANTS
    c1 = c1
    c2 = c2
    c3 = c3
    ip1 = ip1
    ip2 = ip2
    ip3 = ip3
    ble = ble
    NoController = NoController
    NoSession = NoSession
    Controllers <- TwoControllers
    MaxPairings = 2
    IPSessions <- OneIP
    BLESessions <- OneBLE
    CacheSize = 1
    StoreMayFail = TRUE
PROPERTIES
    KeepsTable
