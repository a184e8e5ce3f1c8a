SPECIFICATION FairSpec
CONSTANTS
    Nodes = {1, 3}
    Seeds = {1}
    NumTokens = 3
    MaxStart = 4
    MaxId = 4
INVARIANTS TypeOK TokensDistinct PreferenceOrder
PROPERTIES StartsUnlessDuplicate
CHECK_DEADLOCK FALSE
