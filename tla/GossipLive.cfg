SPECIFICATION FairSpec
CONSTANTS
    Nodes = {0, 1, 2}
    Seeds = {0, 1}
    Ranges = {0, 1, 2}
    NumTokens = 1
    Scenarios <- OneRestart
PROPERTIES MembershipSpreads
CHECK_DEADLOCK FALSE
