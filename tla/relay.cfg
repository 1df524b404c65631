SPECIFICATION FairSpec
CONSTANTS
    Request = {r1, r2}
    Member = {m1}
    QueueCapacity = 1
    MaxInFlight = 2
    MaxWaiters = 1
    NoRequest = NoRequest
CHECK_DEADLOCK FALSE
INVARIANTS
    WaitersAreServed
    RefusalIsDefinite
PROPERTIES
    RelaySettles
