SPECIFICATION Spec
CONSTANTS
    c1 = c1
    c2 = c2
    c3 = c3
    ip1 = ip1
    ip2 = ip2
    ip3 = ip3
    ble = ble
    NoController = NoController
    NoSession = NoSession
    Controllers <- ThreeControllers
    MaxPairings = 3
    IPSessions <- None
    BLESessions <- OneBLE
    CacheSize = 2
    StoreMayFail = FALSE
INVARIANTS
    SessionPeer
    CacheEntriesPaired
PROPERTIES
    AdminsChangePairings
SYMMETRY Symmetry
