SPECIFICATION Spec
CONSTANTS
    Devices = {"a", "b"}
    Timeout <- Timeouts
    OpTime = 1
    kKeepaliveCap = 23
    MaxLost = 1
    MaxTime = 55
INVARIANTS TypeOK FedUntilCap TripsAfterCap NoFeedOnceContacted
CHECK_DEADLOCK FALSE
