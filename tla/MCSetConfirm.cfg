\* The default: the session retries a failed write once.
SPECIFICATION FairSpec
CONSTANTS
    Ops = {set_mode, set_duty}
    NoOp = NoOp
    Modulus = 7
    RetryCount = 1
    AckReadAttempts = 2
INVARIANTS
    TypeOK
    DeniedMeansNotApplied
PROPERTIES
    OkMeansConfirmed
    ResendOnlyIfUncounted
    CallReturns
