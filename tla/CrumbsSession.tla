---------------------------- MODULE CrumbsSession ----------------------------
(***************************************************************************)
(* The CRUMBS session (src/src/crumbs/session.cpp): every transfer on the  *)
(* shared I2C bus goes through one Session object, which two threads of    *)
(* the provider use, the request handler and the watchdog keepalive.  The  *)
(* session serialises them with one mutex, retries failed transfers,       *)
(* counts outcomes per address, and signals an address that answers again  *)
(* after a failure ("recovery").                                           *)
(*                                                                         *)
(* A call on the session is a sequence of steps of its caller: Begin takes *)
(* the mutex, every bus transfer is a step of its own, and the last one    *)
(* records the outcome and releases the mutex.  The transport and the      *)
(* devices behind it are external: a transfer succeeds, fails, or times    *)
(* out in the kernel, whatever the device did with the frame.              *)
(***************************************************************************)
EXTENDS Integers

CONSTANTS Callers,     \* the threads that use the session
          Addresses,   \* the I2C addresses in use
          Opcodes,     \* the reply opcodes a query can ask for
          RetryCount,  \* SessionOptions::retry_count
          MaxOps,      \* bound: operations recorded per address
          MaxRejections, \* bound: rejections recorded per address
          NoCaller,    \* the mutex is free
          NoAddress,   \* the address of an operation that has none (a scan)
          NoReply      \* nothing asked for, or nothing read

ASSUME SessionAssumption ==
    /\ RetryCount \in Nat
    /\ MaxOps \in Nat /\ MaxRejections \in Nat
    /\ NoCaller \notin Callers
    /\ NoAddress \notin Addresses
    /\ NoReply \notin Opcodes

VARIABLES
    isOpen,           \* transport_.is_open()
    holder,           \* the caller that holds mutex_, or NoCaller
    op,               \* per caller, the operation it is executing
    result,           \* per caller, what its last bus operation returned
    ok,               \* stats_[a].ok
    failed,           \* stats_[a].failed
    retried,          \* stats_[a].retried_attempts
    rejected,         \* stats_[a].rejected
    lastOpFailed,     \* last_op_failed_
    recoveryPending,  \* recovery_pending_
    staged,           \* external: the reply each device has staged
    transfers,        \* history: attempts started per address
    recoveries,       \* history: times take_recovery returned true per address
    failedAtTake      \* history: failed[a] when it last did

counters == <<ok, failed, retried, rejected>>
flags    == <<lastOpFailed, recoveryPending>>
history  == <<recoveries, failedAtTake>>
vars     == <<isOpen, holder, op, result, counters, flags, staged, transfers,
              history>>

-----------------------------------------------------------------------------
(* SessionErrorCode, as far as the retry policy tells codes apart: the     *)
(* transport's own codes are all retryable, but a native ETIMEDOUT is not  *)
(* retried; NotOpen is decided by the session before any transfer.         *)

TransferOutcome == {"Ok", "Failed", "TimedOut"}
Codes           == TransferOutcome \cup {"NotOpen", "None"}

is_retryable(code) == code \in {"Failed", "TimedOut"}

MaxAttempts == RetryCount + 1

Kinds  == {"send", "read", "query_read", "scan"}
Phases == {"idle", "write", "read", "scan"}

\* An operation: its next transfer, what was called with which address and
\* reply opcode, the attempt it is at, the ETIMEDOUTs it met and whether the
\* SET_REPLY of this attempt reached the device.
Op(phase, kind, addr, asked, attempt, stalls, landed) ==
    [phase |-> phase, kind |-> kind, addr |-> addr, asked |-> asked,
     attempt |-> attempt, stalls |-> stalls, landed |-> landed]

Idle == Op("idle", "send", NoAddress, NoReply, 1, 0, FALSE)

OpType == [phase : Phases, kind : Kinds, addr : Addresses \cup {NoAddress},
           asked : Opcodes \cup {NoReply}, attempt : 1..MaxAttempts,
           stalls : Nat, landed : BOOLEAN]

ResultType == [code : Codes, asked : Opcodes \cup {NoReply},
               got : Opcodes \cup {NoReply}, landed : BOOLEAN, stalls : Nat]

Returned(code, asked, got, landed, stalls) ==
    [code |-> code, asked |-> asked, got |-> got, landed |-> landed,
     stalls |-> stalls]

Nothing == Returned("None", NoReply, NoReply, FALSE, 0)

Busy(c) == op[c].phase # "idle"

\* The first transfer of an attempt: query_read writes SET_REPLY, then reads.
FirstPhase(kind) == CASE kind = "read" -> "read"
                      [] kind = "scan" -> "scan"
                      [] OTHER         -> "write"

\* Mutant: the caller does not wait for the mutex.
LockFree_NoMutex(c) == ~Busy(c)

\* std::lock_guard: the caller is between calls and the mutex is free.
LockFree(c) == ~Busy(c) /\ holder = NoCaller

Count(f, a) == IF a \in Addresses THEN [f EXCEPT ![a] = @ + 1] ELSE f

Init ==
    /\ isOpen = FALSE
    /\ holder = NoCaller
    /\ op = [c \in Callers |-> Idle]
    /\ result = [c \in Callers |-> Nothing]
    /\ ok = [a \in Addresses |-> 0]
    /\ failed = [a \in Addresses |-> 0]
    /\ retried = [a \in Addresses |-> 0]
    /\ rejected = [a \in Addresses |-> 0]
    /\ lastOpFailed = {}
    /\ recoveryPending = {}
    /\ staged \in [Addresses -> Opcodes]
    /\ transfers = [a \in Addresses |-> 0]
    /\ recoveries = [a \in Addresses |-> 0]
    /\ failedAtTake = [a \in Addresses |-> 0]

-----------------------------------------------------------------------------
(* Critical sections that start no transfer to a device: one step each. *)

\* open: succeeds or fails once, never retried.
Open(c) ==
    /\ LockFree(c)
    /\ ~isOpen
    /\ isOpen' \in {TRUE, FALSE}
    /\ UNCHANGED <<holder, op, result, counters, flags, staged, transfers,
                   history>>

close(c) ==
    /\ LockFree(c)
    /\ isOpen
    /\ isOpen' = FALSE
    /\ UNCHANGED <<holder, op, result, counters, flags, staged, transfers,
                   history>>

record_rejection(c, a) ==
    /\ LockFree(c)
    /\ rejected[a] < MaxRejections
    /\ rejected' = [rejected EXCEPT ![a] = @ + 1]
    /\ UNCHANGED <<isOpen, holder, op, result, ok, failed, retried, flags,
                   staged, transfers, history>>

\* take_recovery that returns true; the call that returns false changes
\* nothing.
take_recovery(c, a) ==
    /\ LockFree(c)
    /\ a \in recoveryPending
    /\ recoveryPending' = recoveryPending \ {a}
    /\ recoveries' = [recoveries EXCEPT ![a] = @ + 1]
    /\ failedAtTake' = [failedAtTake EXCEPT ![a] = failed[a]]
    /\ UNCHANGED <<isOpen, holder, op, result, counters, lastOpFailed, staged,
                   transfers>>

-----------------------------------------------------------------------------
(* Bus operations: send, read, query_read and scan. *)

\* lock_guard, then the is_open check.  A session that is not open returns
\* NotOpen before it records anything.  The arguments are valid: an address, a
\* frame or scan options that validate_* refuses change nothing either.
Begin(c, kind, a, asked) ==
    /\ LockFree(c)
    /\ \/ /\ isOpen
          /\ a \in Addresses => ok[a] + failed[a] < MaxOps
          /\ holder' = c
          /\ op' = [op EXCEPT ![c] =
                 Op(FirstPhase(kind), kind, a, asked, 1, 0, FALSE)]
          /\ transfers' = Count(transfers, a)
          /\ UNCHANGED result
       \/ /\ ~isOpen
          /\ result' = [result EXCEPT ![c] =
                 Returned("NotOpen", asked, NoReply, FALSE, 0)]
          /\ UNCHANGED <<holder, op, transfers>>
    /\ UNCHANGED <<isOpen, counters, flags, staged, history>>

\* Mutant: the last attempt is counted as a retried one.
RetriedBy_All(attempts) == attempts

RetriedBy(attempts) == attempts - 1

\* Mutant: every success signals a recovery, not the first after a failure.
SignalRecovery_Always(a) == recoveryPending \cup {a}

\* Mutant: the failure is cleared and no recovery is signalled.
SignalRecovery_Never(a) == recoveryPending

SignalRecovery(a) == IF a \in lastOpFailed THEN recoveryPending \cup {a}
                                            ELSE recoveryPending

\* record_outcome: the counters, and the recovery signal on the first
\* success after a failure.
record_outcome(a, code, attempts) ==
    /\ retried' = [retried EXCEPT ![a] = @ + RetriedBy(attempts)]
    /\ \/ /\ code = "Ok"
          /\ ok' = [ok EXCEPT ![a] = @ + 1]
          /\ lastOpFailed' = lastOpFailed \ {a}
          /\ recoveryPending' = SignalRecovery(a)
          /\ UNCHANGED failed
       \/ /\ code # "Ok"
          /\ failed' = [failed EXCEPT ![a] = @ + 1]
          /\ lastOpFailed' = lastOpFailed \cup {a}
          /\ UNCHANGED <<ok, recoveryPending>>

\* Mutant: off by one, an attempt more than retry_count allows.
LastAttempt_OneMore(code, attempt) ==
    ~is_retryable(code) \/ code = "TimedOut" \/ attempt = MaxAttempts + 1

\* Mutant: a kernel timeout is retried like any other failure.
LastAttempt_RetryStall(code, attempt) ==
    ~is_retryable(code) \/ attempt = MaxAttempts

\* execute_with_retry: is an attempt that ended with code the last one?
LastAttempt(code, attempt) ==
    \/ ~is_retryable(code)
    \/ code = "TimedOut"
    \/ attempt = MaxAttempts

Stalls(c, code) == op[c].stalls + (IF code = "TimedOut" THEN 1 ELSE 0)

\* The operation of c returns code; scan records no outcome.
Return(c, code, got, landed) ==
    /\ holder' = NoCaller
    /\ op' = [op EXCEPT ![c] = Idle]
    /\ result' = [result EXCEPT ![c] =
           Returned(code, op[c].asked, got, landed, Stalls(c, code))]
    /\ IF op[c].kind = "scan"
       THEN UNCHANGED <<ok, failed, retried, flags>>
       ELSE record_outcome(op[c].addr, code, op[c].attempt)
    /\ UNCHANGED transfers

\* Mutant: the attempt that failed already marks the address as failing.
Retry_RecordsFailure(c, code) ==
    /\ op' = [op EXCEPT ![c] =
           Op(FirstPhase(@.kind), @.kind, @.addr, @.asked, @.attempt + 1,
              Stalls(c, code), FALSE)]
    /\ transfers' = Count(transfers, op[c].addr)
    /\ lastOpFailed' = lastOpFailed \cup ({op[c].addr} \cap Addresses)
    /\ UNCHANGED <<holder, result, ok, failed, retried, recoveryPending>>

\* The attempt failed and another one starts: the whole sequence again.
Retry(c, code) ==
    /\ op' = [op EXCEPT ![c] =
           Op(FirstPhase(@.kind), @.kind, @.addr, @.asked, @.attempt + 1,
              Stalls(c, code), FALSE)]
    /\ transfers' = Count(transfers, op[c].addr)
    /\ UNCHANGED <<holder, result, ok, failed, retried, flags>>

EndAttempt(c, code, got, landed) ==
    \/ LastAttempt(code, op[c].attempt) /\ Return(c, code, got, landed)
    \/ ~LastAttempt(code, op[c].attempt) /\ Retry(c, code)

\* transport_.send: the outcome the controller sees says nothing certain
\* about the frame, which the device may have taken (landed) or not.  In a
\* query_read the frame is SET_REPLY, which stages the asked reply.
Transmitted(c, code, landed) ==
    /\ staged' = IF op[c].kind = "query_read" /\ landed
                 THEN [staged EXCEPT ![op[c].addr] = op[c].asked]
                 ELSE staged
    /\ \/ /\ op[c].kind = "query_read" /\ code = "Ok"
          /\ op' = [op EXCEPT ![c] =
                 Op("read", @.kind, @.addr, @.asked, @.attempt, @.stalls,
                    landed)]
          /\ UNCHANGED <<holder, result, ok, failed, retried, flags, transfers>>
       \/ /\ ~(op[c].kind = "query_read" /\ code = "Ok")
          /\ EndAttempt(c, code, NoReply, landed)

Write(c) ==
    /\ op[c].phase = "write"
    /\ \E code \in TransferOutcome, landed \in BOOLEAN :
          Transmitted(c, code, landed)
    /\ UNCHANGED <<isOpen, rejected, history>>

\* transport_.read: a successful read returns the staged reply.
Read(c) ==
    /\ op[c].phase = "read"
    /\ \E code \in TransferOutcome :
          EndAttempt(c, code,
                     IF code = "Ok" THEN staged[op[c].addr] ELSE NoReply,
                     op[c].landed)
    /\ UNCHANGED <<isOpen, rejected, staged, history>>

\* transport_.scan: its failure code is retried like the others; the
\* native code it carries is the scan's own, never ETIMEDOUT.
Scan(c) ==
    /\ op[c].phase = "scan"
    /\ \E code \in {"Ok", "Failed"} : EndAttempt(c, code, NoReply, FALSE)
    /\ UNCHANGED <<isOpen, rejected, staged, history>>

Next ==
    \E c \in Callers :
        \/ Open(c)
        \/ close(c)
        \/ \E a \in Addresses : record_rejection(c, a) \/ take_recovery(c, a)
        \/ \E a \in Addresses, q \in Opcodes : Begin(c, "query_read", a, q)
        \/ \E a \in Addresses : Begin(c, "send", a, NoReply)
        \/ \E a \in Addresses : Begin(c, "read", a, NoReply)
        \/ Begin(c, "scan", NoAddress, NoReply)
        \/ Write(c)
        \/ Read(c)
        \/ Scan(c)

Spec == Init /\ [][Next]_vars
-----------------------------------------------------------------------------
(* Properties *)

TypeOK ==
    /\ isOpen \in BOOLEAN
    /\ holder \in Callers \cup {NoCaller}
    /\ op \in [Callers -> OpType]
    /\ result \in [Callers -> ResultType]
    /\ ok \in [Addresses -> Nat]
    /\ failed \in [Addresses -> Nat]
    /\ retried \in [Addresses -> Nat]
    /\ rejected \in [Addresses -> Nat]
    /\ lastOpFailed \subseteq Addresses
    /\ recoveryPending \subseteq Addresses
    /\ staged \in [Addresses -> Opcodes]
    /\ transfers \in [Addresses -> Nat]
    /\ recoveries \in [Addresses -> Nat]
    /\ failedAtTake \in [Addresses -> Nat]

\* Attempts of the operation now under way on a.
InFlight(a) == IF holder # NoCaller /\ op[holder].addr = a
               THEN op[holder].attempt ELSE 0

\* No query is answered with another caller's reply: query_read holds the
\* mutex from SET_REPLY to the read, so when the device took the SET_REPLY
\* the reply read is the one asked for, whatever the other thread queries
\* meanwhile and however often the attempt was repeated.
ReplyIsTheAskedOne ==
    \A c \in Callers :
        result[c].code = "Ok" /\ result[c].asked # NoReply /\ result[c].landed
            => result[c].got = result[c].asked

\* The health metrics add up: every attempt started on an address is counted
\* once, in io_ok or io_failed when it was the last of its operation and in
\* io_retried_attempts when it was not, with nothing lost or counted twice
\* when two threads work the same address.
EveryAttemptIsCounted ==
    \A a \in Addresses :
        transfers[a] = ok[a] + failed[a] + retried[a] + InFlight(a)

\* Each recovery handed out is paid for by a failed operation of its own: a
\* consumer that re-applies device state on the signal does so at most once
\* per outage, and two threads never both consume one signal.
RecoveryPerOutage ==
    \A a \in Addresses :
        recoveries[a] + (IF a \in recoveryPending THEN 1 ELSE 0)
                      + (IF a \in lastOpFailed THEN 1 ELSE 0) <= failed[a]

\* No outage goes unsignalled: an operation that failed since the signal was
\* last consumed is still owed one, remembered either as the failing address
\* or as the pending signal, whoever succeeded on the address in between (the
\* keepalive, which never consumes it, included).
OutageNotForgotten ==
    \A a \in Addresses :
        failed[a] > failedAtTake[a] => a \in lastOpFailed \cup recoveryPending

\* A bus that is down stalls an operation once: after a kernel ETIMEDOUT
\* (about a second each) the attempt is not repeated, so no operation
\* collects two of them.
OneStallPerOperation ==
    \A c \in Callers : op[c].stalls = 0 /\ result[c].stalls <= 1

-----------------------------------------------------------------------------
(* The inductive invariant behind the properties above. *)

\* Exactly the holder of the mutex is inside an operation.
LockInv == \A c \in Callers : Busy(c) <=> holder = c

\* The operation under way is one Begin can have started; a query that is
\* about to read, and whose SET_REPLY landed, finds its reply staged.
OpInv ==
    \A c \in Callers :
        LET o == op[c] IN
        /\ o.phase \in {"write", "read"} => o.kind # "scan" /\ o.addr \in Addresses
        /\ o.phase = "scan" => o.kind = "scan" /\ o.addr = NoAddress
        /\ o.phase = "read" => o.kind # "send"
        /\ o.phase = "write" => o.kind \in {"send", "query_read"}
        /\ o.phase # "idle" => (o.kind = "query_read" <=> o.asked # NoReply)
        /\ o.phase = "read" /\ o.kind = "query_read" /\ o.landed
               => staged[o.addr] = o.asked

-----------------------------------------------------------------------------
(* The session implements its abstract specification.  An operation that    *)
(* holds the mutex is one that waits for its answer; the attempt, the       *)
(* transfer it is at and the stalls it met do not show.                     *)

Pending(c) == [busy |-> Busy(c), addr |-> op[c].addr, asked |-> op[c].asked]

Answer(c) == [code |-> result[c].code, asked |-> result[c].asked,
              got |-> result[c].got, landed |-> result[c].landed]

Atomic == INSTANCE AtomicSession WITH
              pending <- [c \in Callers |-> Pending(c)],
              answer <- [c \in Callers |-> Answer(c)]

\* Every operation takes effect in one step: however many transfers and
\* attempts it makes and whatever the other thread asks for meanwhile, its
\* callers see one answer, which agrees with what was counted and with the
\* recovery signal, and nothing of an attempt that was repeated.
ImplementsAtomicSession == Atomic!Spec

-----------------------------------------------------------------------------
Inv == TypeOK /\ LockInv /\ OpInv /\ ReplyIsTheAskedOne
          /\ EveryAttemptIsCounted /\ RecoveryPerOutage /\ OutageNotForgotten
          /\ OneStallPerOperation
=============================================================================
