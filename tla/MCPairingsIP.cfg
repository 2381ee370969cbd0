SPECIFICATION Spec
CONSTANTS
    c1 = c1
    c2 = c2
    c3 = c3
    ip1 = ip1
    ip2 = ip2
    ip3 = ip3
    ble = ble
    NoController = NoController
    NoSession = NoSession
    Controllers <- ThreeControllers
    MaxPairings = 2
    IPSessions <- ThreeIP
    BLESessions <- None
    CacheSize = 1
    StoreMayFail = FALSE
INVARIANTS
    OnePairingPerController
    AdminExists
    RemovedNotReading
SYMMETRY Symmetry
