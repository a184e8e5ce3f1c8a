SPECIFICATION FairSpec
CONSTANTS
    Nodes = {1, 2, 3, 4, 5}
    Coordinators = {1, 4}
    PrefLst <- WidePrefLst
    N = 3
    R = 2
    W = 2
    Keys = {cart}
    MerklerReady = TRUE
    Timely = TRUE
    Lossy = TRUE
    ZeroKey = ZeroKey
    NilMap = NilMap
    Workloads <- PutOrGet
    MaxCrashes = 0
INVARIANTS SettledCopies
PROPERTIES SuccessfulWriteIsCopied HandoffReturns WorkerReturns
CHECK_DEADLOCK FALSE
