SPECIFICATION Spec
CONSTANTS
    RlhtProfiles = {}
    DcmtProfiles <- FullDcmt
    Values <- FewValues
    Requests <- MCRequests
    MaxEvents = 0
INVARIANT DeclaredTargetIsReadable
