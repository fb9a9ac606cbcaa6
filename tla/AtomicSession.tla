---------------------------- MODULE AtomicSession ----------------------------
(***************************************************************************)
(* What a CRUMBS session promises its callers (src/src/crumbs/session.hpp):*)
(* an operation is asked for and later answered in one step, which is also *)
(* the step that counts it and decides about the recovery signal.  There   *)
(* is no mutex here, no transfer, no attempt and no staged reply: none of  *)
(* that shows to a caller.                                                 *)
(***************************************************************************)
EXTENDS Integers

CONSTANTS Callers,    \* the threads that use the session
          Addresses,  \* the I2C addresses in use
          Opcodes,    \* the reply opcodes a query can ask for
          NoAddress,  \* the address of an operation that has none (a scan)
          NoReply     \* nothing asked for, or nothing read

VARIABLES
    pending,          \* per caller, the operation it waits for
    answer,           \* per caller, what its last operation returned
    ok,               \* operations that succeeded, per address
    failed,           \* operations that failed, per address
    lastOpFailed,     \* addresses whose last operation failed
    recoveryPending   \* addresses that answer again, not yet taken

vars == <<pending, answer, ok, failed, lastOpFailed, recoveryPending>>

\* What a caller waits for, if anything.
Waiting(busy, addr, asked) == [busy |-> busy, addr |-> addr, asked |-> asked]
None == Waiting(FALSE, NoAddress, NoReply)

Answered(code, asked, got, landed) ==
    [code |-> code, asked |-> asked, got |-> got, landed |-> landed]

Targets == Addresses \cup {NoAddress}
Replies == Opcodes \cup {NoReply}

Init ==
    /\ pending = [c \in Callers |-> None]
    /\ answer = [c \in Callers |-> Answered("None", NoReply, NoReply, FALSE)]
    /\ ok = [a \in Addresses |-> 0]
    /\ failed = [a \in Addresses |-> 0]
    /\ lastOpFailed = {}
    /\ recoveryPending = {}

\* A caller asks for an operation on an open session.
Ask(c, a, asked) ==
    /\ ~pending[c].busy
    /\ pending' = [pending EXCEPT ![c] = Waiting(TRUE, a, asked)]
    /\ UNCHANGED <<answer, ok, failed, lastOpFailed, recoveryPending>>

\* A session that is not open answers at once and counts nothing.
Refuse(c, asked) ==
    /\ ~pending[c].busy
    /\ answer' = [answer EXCEPT ![c] =
           Answered("NotOpen", asked, NoReply, FALSE)]
    /\ UNCHANGED <<pending, ok, failed, lastOpFailed, recoveryPending>>

\* The operation succeeds.  A query whose SET_REPLY the device took is
\* answered with the reply it asked for; the first success after a failure
\* raises the recovery signal.
Succeed(c, got, landed) ==
    LET a == pending[c].addr
        asked == pending[c].asked
    IN /\ pending[c].busy
       /\ asked # NoReply /\ landed => got = asked
       /\ pending' = [pending EXCEPT ![c] = None]
       /\ answer' = [answer EXCEPT ![c] = Answered("Ok", asked, got, landed)]
       /\ ok' = IF a \in Addresses THEN [ok EXCEPT ![a] = @ + 1] ELSE ok
       /\ lastOpFailed' = lastOpFailed \ {a}
       /\ recoveryPending' = recoveryPending \cup ({a} \cap lastOpFailed)
       /\ UNCHANGED failed

\* The operation fails, once, however often it was attempted; it returns no
\* reply.
Fail(c, code, landed) ==
    LET a == pending[c].addr
    IN /\ pending[c].busy
       /\ pending' = [pending EXCEPT ![c] = None]
       /\ answer' = [answer EXCEPT ![c] =
              Answered(code, pending[c].asked, NoReply, landed)]
       /\ failed' = IF a \in Addresses THEN [failed EXCEPT ![a] = @ + 1]
                                       ELSE failed
       /\ lastOpFailed' = lastOpFailed \cup ({a} \cap Addresses)
       /\ UNCHANGED <<ok, recoveryPending>>

\* One caller consumes the recovery signal of an address.
Take(a) ==
    /\ a \in recoveryPending
    /\ recoveryPending' = recoveryPending \ {a}
    /\ UNCHANGED <<pending, answer, ok, failed, lastOpFailed>>

Next ==
    \/ \E c \in Callers :
          \/ \E a \in Targets, asked \in Replies : Ask(c, a, asked)
          \/ \E asked \in Replies : Refuse(c, asked)
          \/ \E got \in Replies, landed \in BOOLEAN : Succeed(c, got, landed)
          \/ \E code \in {"Failed", "TimedOut"}, landed \in BOOLEAN :
                Fail(c, code, landed)
    \/ \E a \in Addresses : Take(a)

Spec == Init /\ [][Next]_vars
=============================================================================
