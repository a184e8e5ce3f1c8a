SPECIFICATION Spec
CONSTANTS
    Nodes = {1, 2, 3}
    Coordinators = {1, 3}
    PrefLst <- DeployedPrefLst
    N = 2
    R = 1
    W = 1
    Keys = {cart}
    MerklerReady = TRUE
    Timely = TRUE
    Lossy = TRUE
    ZeroKey = ZeroKey
    NilMap = NilMap
    Workloads <- TwoPuts
    MaxCrashes = 0
PROPERTIES DeletesOnlyHandoffData
CHECK_DEADLOCK FALSE
