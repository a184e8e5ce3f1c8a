SPECIFICATION Spec
CONSTANTS
    Nodes = {1, 2, 3}
    Coordinators = {1}
    PrefLst <- DeployedPrefLst
    N = 2
    R = 1
    W = 1
    Keys = {cart}
    MerklerReady = FALSE
    Timely = TRUE
    Lossy = TRUE
    ZeroKey = ZeroKey
    NilMap = NilMap
    Workloads <- OnePut
    MaxCrashes = 0
PROPERTIES StoredPutIsReplicated
CHECK_DEADLOCK FALSE
