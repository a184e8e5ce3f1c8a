SPECIFICATION Spec
CONSTANTS
    Nodes = {0, 1, 2}
    Seeds = {0, 1}
    Ranges = {1, 2, 3, 4, 5}
    NumTokens = 2
    Scenarios <- CrossingAndRumours
INVARIANTS TypeOK SelfEntrySound DownNeedsThreeFailures RingMatchesMap
PROPERTIES TokensChangeWithRumours
CHECK_DEADLOCK FALSE
