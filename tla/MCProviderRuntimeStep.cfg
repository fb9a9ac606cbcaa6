SPECIFICATION Spec
CONSTANTS
    Devices = {d1}
    NoDevice = NoDevice
    Configs <- Latching
    Policies = {"Safe", "Leave"}
    MaxFaults = 3
PROPERTIES
    EachStepIsSafe
