SPECIFICATION Spec
CONSTANTS
    Devices = {d1}
    NoDevice = NoDevice
    Configs <- Legacy
    Policies = {"Leave"}
    MaxFaults = 3
PROPERTIES
    OnlyOperatorReleases
