SPECIFICATION FairSpec
CONSTANTS
    Handlers = {"h1", "h2"}
    Devices = {"a"}
    MaxGens = 2
    MaxTicks = 3
    MaxRequests = 3
    Free = "free"
INVARIANTS
    TypeOK
    NothingDangles
    OneGeneration
PROPERTIES
    RequestIsAnswered
    LifecycleEnds
CHECK_DEADLOCK FALSE
