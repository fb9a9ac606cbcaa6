SPECIFICATION Spec
CONSTANTS
    RlhtProfiles <- MCRlhtProfiles
    DcmtProfiles <- MCDcmtProfiles
    Values <- MCValues
    Requests <- MCRequests
    MaxEvents = 1
INVARIANTS
    TypeOK
    AppliedIsAsked
    DeclaredIsAccepted
    NoLoopWithoutEncoders
    BrakedIsRefused
    ReadAsDeclared
    NoFabricatedValue
