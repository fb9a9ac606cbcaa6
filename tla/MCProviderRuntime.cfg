SPECIFICATION FairSpec
CONSTANTS
    Devices = {d1}
    NoDevice = NoDevice
    Configs <- MCConfigs
    Policies = {"Safe", "Leave"}
    MaxFaults = 3
INVARIANTS
    TypeOK
    SafeOrFault
PROPERTIES
    HealthReleasesNoTrip
    LatchHolds
    StaysArmed
    OutageIsHandled
