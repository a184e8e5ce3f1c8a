SPECIFICATION Spec
CONSTANTS
    Nodes = {n1, n2, n3}
    Keys = {cart}
    ZeroKey = ZeroKey
    R = 1
    MaxResponses = 2
    MaxVersions = 4
SYMMETRY NodeSymmetry
INVARIANTS TypeOK AncestorsAreStale AnswerNotDominated FalseAncestorsShareACount
CHECK_DEADLOCK FALSE
