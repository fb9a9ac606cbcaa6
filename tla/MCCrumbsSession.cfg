\* Two threads, one device, one retry, at most three operations recorded.
SPECIFICATION Spec
SYMMETRY Symmetry
CONSTANTS
    Callers = {handler, keepalive}
    Addresses = {a1}
    Opcodes = {q1, q2}
    RetryCount = 1
    MaxOps = 3
    MaxRejections = 1
    NoCaller = NoCaller
    NoAddress = NoAddress
    NoReply = NoReply
INVARIANTS
    TypeOK
    ReplyIsTheAskedOne
    EveryAttemptIsCounted
    RecoveryPerOutage
    OutageNotForgotten
    OneStallPerOperation
PROPERTIES
    ImplementsAtomicSession
