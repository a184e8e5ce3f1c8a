SPECIFICATION FairSpec
CONSTANTS
    Requests = {r1, r2, r3, r4}
    ChanCap = 2
    Idle = Idle
INVARIANTS TypeOK SingleFlight QueueServed RunsHead
PROPERTIES ImplementsSerialReplication OpenerAnswered WorkerNotBlocked
CHECK_DEADLOCK FALSE
