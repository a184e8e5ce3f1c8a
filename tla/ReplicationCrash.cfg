SPECIFICATION Spec
CONSTANTS
    Nodes = {1, 2, 3}
    Coordinators = {1}
    PrefLst <- DeployedPrefLst
    N = 2
    R = 1
    W = 1
    Keys = {cart}
    MerklerReady = TRUE
    Timely = FALSE
    Lossy = TRUE
    ZeroKey = ZeroKey
    NilMap = NilMap
    Workloads <- PutAndGet
    MaxCrashes = 1
INVARIANTS CommitsFollowQuorum LeakNeedsRestart HandoffNotLost SuccessOwedOrCopied
PROPERTIES ImplementsReplicaSet
CHECK_DEADLOCK FALSE
