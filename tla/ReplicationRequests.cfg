SPECIFICATION Spec
CONSTANTS
    Nodes = {1, 2, 3}
    Coordinators = {1}
    PrefLst <- DeployedPrefLst
    N = 2
    R = 1
    W = 1
    Keys = {cart, stock}
    MerklerReady = TRUE
    Timely = FALSE
    Lossy = TRUE
    ZeroKey = ZeroKey
    NilMap = NilMap
    Workloads <- WritesOrReads
    MaxCrashes = 0
INVARIANTS TypeOK AcksAreForThisWrite ReadAnswersOwnKey HandoffNotLost SettledCopies
SYMMETRY KeySymmetry
CHECK_DEADLOCK FALSE
