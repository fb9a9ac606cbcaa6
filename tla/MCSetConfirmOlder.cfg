\* The default: the session retries a failed write.
SPECIFICATION Spec
CONSTANTS
    Ops = {set_mode}
    NoOp = NoOp
    Modulus = 7
    RetryCount = 1
    AckReadAttempts = 1
INVARIANTS
    WrittenOnce
