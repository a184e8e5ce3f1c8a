SPECIFICATION FairSpec
CONSTANTS
    Nodes = {1, 2}
    Keys = {1, 2}
    Numbers = {0, 1}
    HashNumber <- OneNumber
    TokenNumbers <- Token
    Values = {a, b}
    Wirings <- AllOrHardly
    MaxWrites = 3
    MaxChecks = 2
INVARIANTS TypeOK TreeMatchesStore
PROPERTIES MerkleWorkEnds
CHECK_DEADLOCK FALSE
