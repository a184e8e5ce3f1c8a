SPECIFICATION FairSpec
CONSTANTS
    Requests = {r1, r2}
    ChanCap = 2
    Idle = Idle
PROPERTIES CallsAnswered
CHECK_DEADLOCK FALSE
