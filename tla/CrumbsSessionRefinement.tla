----------------------- MODULE CrumbsSessionRefinement -----------------------
(***************************************************************************)
(* CrumbsSession implements AtomicSession, for every set of threads and    *)
(* addresses and every retry count.                                        *)
(*                                                                         *)
(* Begin is the abstract Ask, or Refuse on a closed session; the Return of *)
(* the last attempt is Succeed or Fail; take_recovery is Take.  Everything *)
(* else, a SET_REPLY, a retry, open, close and record_rejection, changes   *)
(* nothing a caller sees.                                                  *)
(***************************************************************************)
EXTENDS CrumbsSessionProofs

LEMMA InitRefines == Init => Atomic!Init
<1> SUFFICES ASSUME Init PROVE Atomic!Init
  OBVIOUS
<1>1. [c \in Callers |-> Pending(c)] = [c \in Callers |-> Atomic!None]
  BY DEF Init, Pending, Busy, Idle, Op, Atomic!None, Atomic!Waiting
<1>2. [c \in Callers |-> Answer(c)]
         = [c \in Callers |-> Atomic!Answered("None", NoReply, NoReply, FALSE)]
  BY DEF Init, Answer, Nothing, Returned, Atomic!Answered
<1> QED BY <1>1, <1>2 DEF Init, Atomic!Init

\* What a caller sees is what the abstract session keeps of its operation.
LEMMA Unseen ==
  ASSUME \A c \in Callers : Pending(c)' = Pending(c) /\ Answer(c)' = Answer(c),
         UNCHANGED <<ok, failed, lastOpFailed, recoveryPending>>
  PROVE  UNCHANGED Atomic!vars
<1>1. [c \in Callers |-> Pending(c)]' = [c \in Callers |-> Pending(c)]
  OBVIOUS
<1>2. [c \in Callers |-> Answer(c)]' = [c \in Callers |-> Answer(c)]
  OBVIOUS
<1> QED BY <1>1, <1>2 DEF Atomic!vars

LEMMA BeginRefines ==
  ASSUME NEW c \in Callers, NEW kind \in Kinds,
         NEW a \in Addresses \cup {NoAddress}, NEW q \in Opcodes \cup {NoReply},
         Inv, Begin(c, kind, a, q)
  PROVE  Atomic!Next
<1>1. UNCHANGED <<ok, failed, lastOpFailed, recoveryPending>> /\ ~Busy(c)
  BY DEF Begin, counters, flags, LockFree
<1>2. CASE isOpen
  <2>1. /\ op' = [op EXCEPT ![c] = Op(FirstPhase(kind), kind, a, q, 1, 0, FALSE)]
        /\ result' = result
    BY <1>2 DEF Begin
  <2>2. FirstPhase(kind) # "idle"
    BY DEF FirstPhase
  <2>3. Pending(c)' = Atomic!Waiting(TRUE, a, q)
    BY <2>1, <2>2 DEF Inv, TypeOK, Pending, Busy, Op, Atomic!Waiting
  <2>4. \A d \in Callers : d # c => Pending(d)' = Pending(d)
    BY <2>1 DEF Inv, TypeOK, Pending, Busy
  <2>5. [d \in Callers |-> Answer(d)]' = [d \in Callers |-> Answer(d)]
    BY <2>1 DEF Answer
  <2>6. Atomic!Ask(c, a, q)
    BY <1>1, <2>3, <2>4, <2>5 DEF Atomic!Ask, Pending
  <2> QED BY <2>6 DEF Atomic!Next, Atomic!Targets, Atomic!Replies
<1>3. CASE ~isOpen
  <2>1. /\ result' = [result EXCEPT ![c] =
               Returned("NotOpen", q, NoReply, FALSE, 0)]
        /\ op' = op
    BY <1>3 DEF Begin
  <2>2. Answer(c)' = Atomic!Answered("NotOpen", q, NoReply, FALSE)
    BY <2>1 DEF Inv, TypeOK, Answer, Returned, Atomic!Answered
  <2>3. \A d \in Callers : d # c => Answer(d)' = Answer(d)
    BY <2>1 DEF Inv, TypeOK, Answer
  <2>4. [d \in Callers |-> Pending(d)]' = [d \in Callers |-> Pending(d)]
    BY <2>1 DEF Pending, Busy
  <2>5. Atomic!Refuse(c, q)
    BY <1>1, <2>2, <2>3, <2>4 DEF Atomic!Refuse, Pending
  <2> QED BY <2>5 DEF Atomic!Next, Atomic!Replies
<1> QED BY <1>2, <1>3

\* The operation returns: one abstract step counts it and answers it.
LEMMA ReturnRefines ==
  ASSUME NEW c \in Callers, NEW code \in TransferOutcome,
         NEW got \in Opcodes \cup {NoReply}, NEW landed \in BOOLEAN,
         Inv, Busy(c), Return(c, code, got, landed),
         code = "Ok" /\ op[c].asked # NoReply /\ landed => got = op[c].asked,
         code # "Ok" => got = NoReply
  PROVE  Atomic!Next
<1> USE SessionAssumption DEF SessionAssumption
<1>1. op[c] \in OpType
  BY DEF Inv, TypeOK
<1>2. /\ op' = [op EXCEPT ![c] = Idle]
      /\ result' = [result EXCEPT ![c] =
             Returned(code, op[c].asked, got, landed, Stalls(c, code))]
  BY DEF Return
<1>3. Pending(c)' = Atomic!None
  BY <1>2 DEF Inv, TypeOK, Pending, Busy, Idle, Op, Atomic!None, Atomic!Waiting
<1>4. Answer(c)' = Atomic!Answered(code, op[c].asked, got, landed)
  BY <1>2 DEF Inv, TypeOK, Answer, Returned, Atomic!Answered
<1>5. \A d \in Callers : d # c => Pending(d)' = Pending(d)
                                  /\ Answer(d)' = Answer(d)
  BY <1>2 DEF Inv, TypeOK, Pending, Busy, Answer
<1>6. [d \in Callers |-> Pending(d)]'
          = [[d \in Callers |-> Pending(d)] EXCEPT ![c] = Atomic!None]
  BY <1>3, <1>5
<1>7. [d \in Callers |-> Answer(d)]'
          = [[d \in Callers |-> Answer(d)] EXCEPT ![c] =
                Atomic!Answered(code, op[c].asked, got, landed)]
  BY <1>4, <1>5
<1>8. /\ Pending(c).busy /\ Pending(c).addr = op[c].addr
      /\ Pending(c).asked = op[c].asked
  BY DEF Pending
<1>9. op[c].kind = "scan" => op[c].addr \notin Addresses
  BY <1>1 DEF Inv, OpInv, Busy, OpType, Phases
<1>10. op[c].kind # "scan" => op[c].addr \in Addresses
  BY <1>1 DEF Inv, OpInv, Busy, OpType, Phases
<1>11. lastOpFailed \subseteq Addresses
  BY DEF Inv, TypeOK
<1>12. CASE code = "Ok"
  <2>1. /\ ok' = IF op[c].addr \in Addresses
                 THEN [ok EXCEPT ![op[c].addr] = @ + 1] ELSE ok
        /\ lastOpFailed' = lastOpFailed \ {op[c].addr}
        /\ recoveryPending' = recoveryPending
                                  \cup ({op[c].addr} \cap lastOpFailed)
        /\ failed' = failed
    <3>1. CASE op[c].kind = "scan"
      BY <1>9, <1>11, <3>1 DEF Return, flags
    <3>2. CASE op[c].kind # "scan"
      BY <1>10, <1>12, <3>2 DEF Return, record_outcome, SignalRecovery
    <3> QED BY <3>1, <3>2
  <2>2. Atomic!Succeed(c, got, landed)
    BY <1>6, <1>7, <1>8, <1>12, <2>1 DEF Atomic!Succeed
  <2> QED BY <2>2 DEF Atomic!Next, Atomic!Replies
<1>13. CASE code # "Ok"
  <2>1. /\ failed' = IF op[c].addr \in Addresses
                     THEN [failed EXCEPT ![op[c].addr] = @ + 1] ELSE failed
        /\ lastOpFailed' = lastOpFailed \cup ({op[c].addr} \cap Addresses)
        /\ ok' = ok /\ recoveryPending' = recoveryPending
    <3>1. CASE op[c].kind = "scan"
      BY <1>9, <3>1 DEF Return, flags
    <3>2. CASE op[c].kind # "scan"
      BY <1>10, <1>13, <3>2 DEF Return, record_outcome
    <3> QED BY <3>1, <3>2
  <2>2. Atomic!Fail(c, code, landed)
    BY <1>6, <1>7, <1>8, <1>13, <2>1 DEF Atomic!Fail
  <2> QED BY <1>13, <2>2 DEF Atomic!Next, TransferOutcome
<1> QED BY <1>12, <1>13

\* A retry is not seen.
LEMMA RetryRefines ==
  ASSUME NEW c \in Callers, NEW code \in TransferOutcome,
         Inv, Busy(c), Retry(c, code)
  PROVE  UNCHANGED Atomic!vars
<1>1. op[c] \in OpType
  BY DEF Inv, TypeOK
<1>2. FirstPhase(op[c].kind) # "idle"
  BY DEF FirstPhase
<1>3. \A d \in Callers : Pending(d)' = Pending(d) /\ Answer(d)' = Answer(d)
  BY <1>1, <1>2 DEF Retry, Inv, TypeOK, Pending, Busy, Answer, Op
<1> QED BY <1>3, Unseen DEF Retry, flags

LEMMA EndAttemptRefines ==
  ASSUME NEW c \in Callers, NEW code \in TransferOutcome,
         NEW got \in Opcodes \cup {NoReply}, NEW landed \in BOOLEAN,
         Inv, Busy(c), EndAttempt(c, code, got, landed),
         code = "Ok" /\ op[c].asked # NoReply /\ landed => got = op[c].asked,
         code # "Ok" => got = NoReply
  PROVE  [Atomic!Next]_(Atomic!vars)
<1>1. CASE Return(c, code, got, landed)
  BY <1>1, ReturnRefines
<1>2. CASE Retry(c, code)
  BY <1>2, RetryRefines
<1> QED BY <1>1, <1>2 DEF EndAttempt

LEMMA WriteRefines ==
  ASSUME NEW c \in Callers, Inv, Write(c)
  PROVE  [Atomic!Next]_(Atomic!vars)
<1>1. Busy(c) /\ op[c].phase = "write"
  BY DEF Write, Busy
<1>2. PICK code \in TransferOutcome, landed \in BOOLEAN :
          Transmitted(c, code, landed)
  BY DEF Write
<1>3. CASE op[c].kind = "query_read" /\ code = "Ok"
  <2>1. /\ op' = [op EXCEPT ![c] = Op("read", @.kind, @.addr, @.asked,
                                      @.attempt, @.stalls, landed)]
        /\ UNCHANGED <<result, ok, failed, lastOpFailed, recoveryPending>>
    BY <1>2, <1>3 DEF Transmitted, flags
  <2>2. \A d \in Callers : Pending(d)' = Pending(d) /\ Answer(d)' = Answer(d)
    BY <1>1, <2>1 DEF Inv, TypeOK, Pending, Busy, Answer, Op
  <2> QED BY <2>1, <2>2, Unseen
<1>4. CASE ~(op[c].kind = "query_read" /\ code = "Ok")
  <2>1. EndAttempt(c, code, NoReply, landed)
    BY <1>2, <1>4 DEF Transmitted
  <2>2. code = "Ok" => op[c].asked = NoReply
    BY <1>1, <1>4 DEF Inv, OpInv
  <2> QED BY <1>1, <2>1, <2>2, EndAttemptRefines
<1> QED BY <1>3, <1>4

LEMMA ReadRefines ==
  ASSUME NEW c \in Callers, Inv, Read(c)
  PROVE  [Atomic!Next]_(Atomic!vars)
<1>1. Busy(c) /\ op[c].phase = "read"
  BY DEF Read, Busy
<1>2. PICK code \in TransferOutcome :
          EndAttempt(c, code,
                     IF code = "Ok" THEN staged[op[c].addr] ELSE NoReply,
                     op[c].landed)
  BY DEF Read
<1> DEFINE got == IF code = "Ok" THEN staged[op[c].addr] ELSE NoReply
<1>3. op[c] \in OpType /\ op[c].addr \in Addresses
  BY <1>1 DEF Inv, TypeOK, OpInv
<1>4. got \in Opcodes \cup {NoReply} /\ op[c].landed \in BOOLEAN
  BY <1>3 DEF Inv, TypeOK, OpType
<1>5. code = "Ok" /\ op[c].asked # NoReply /\ op[c].landed => got = op[c].asked
  BY <1>1 DEF Inv, OpInv
<1>6. code # "Ok" => got = NoReply
  OBVIOUS
<1> HIDE DEF got
<1>7. EndAttempt(c, code, got, op[c].landed)
  BY <1>2 DEF got
<1> QED BY <1>1, <1>4, <1>5, <1>6, <1>7, EndAttemptRefines

LEMMA ScanRefines ==
  ASSUME NEW c \in Callers, Inv, Scan(c)
  PROVE  [Atomic!Next]_(Atomic!vars)
<1>1. Busy(c)
  BY DEF Scan, Busy
<1>2. PICK code \in TransferOutcome : EndAttempt(c, code, NoReply, FALSE)
  BY DEF Scan, TransferOutcome
<1> QED BY <1>1, <1>2, EndAttemptRefines

LEMMA NextRefines == Inv /\ [Next]_vars => [Atomic!Next]_(Atomic!vars)
<1> SUFFICES ASSUME Inv, [Next]_vars PROVE [Atomic!Next]_(Atomic!vars)
  OBVIOUS
<1>1. CASE Next
  <2>1. PICK c \in Callers : Next!(c)
    BY <1>1 DEF Next
  <2>2. ASSUME NEW a \in Addresses, record_rejection(c, a)
        PROVE  UNCHANGED Atomic!vars
    <3>1. UNCHANGED <<op, result, ok, failed, lastOpFailed, recoveryPending>>
      BY <2>2 DEF record_rejection, counters, flags
    <3> QED BY <3>1, Unseen DEF Pending, Answer, Busy
  <2>3. CASE Open(c) \/ close(c)
    <3>1. UNCHANGED <<op, result, ok, failed, lastOpFailed, recoveryPending>>
      BY <2>3 DEF Open, close, counters, flags
    <3> QED BY <3>1, Unseen DEF Pending, Answer, Busy
  <2>4. ASSUME NEW a \in Addresses, take_recovery(c, a)
        PROVE  Atomic!Next
    <3>1. UNCHANGED <<op, result, ok, failed, lastOpFailed>>
      BY <2>4 DEF take_recovery, counters
    <3>2. /\ [d \in Callers |-> Pending(d)]' = [d \in Callers |-> Pending(d)]
          /\ [d \in Callers |-> Answer(d)]' = [d \in Callers |-> Answer(d)]
      BY <3>1 DEF Pending, Answer, Busy
    <3>3. Atomic!Take(a)
      BY <2>4, <3>1, <3>2 DEF take_recovery, Atomic!Take
    <3> QED BY <3>3 DEF Atomic!Next
  <2>5. ASSUME NEW kind \in Kinds, NEW a \in Addresses \cup {NoAddress},
               NEW q \in Opcodes \cup {NoReply}, Begin(c, kind, a, q)
        PROVE  Atomic!Next
    BY <2>5, BeginRefines
  <2>6. CASE Write(c) BY <2>6, WriteRefines
  <2>7. CASE Read(c)  BY <2>7, ReadRefines
  <2>8. CASE Scan(c)  BY <2>8, ScanRefines
  <2> QED
    BY <2>1, <2>2, <2>3, <2>4, <2>5, <2>6, <2>7, <2>8 DEF Kinds
<1>2. CASE UNCHANGED vars
  <2>1. UNCHANGED <<op, result, ok, failed, lastOpFailed, recoveryPending>>
    BY <1>2 DEF vars, counters, flags
  <2> QED BY <2>1, Unseen DEF Pending, Answer, Busy
<1> QED BY <1>1, <1>2

\* session.cpp: for its callers a session is atomic.  However the operations
\* of the threads interleave, each one takes effect in the step that answers
\* it; retries, staging and the mutex do not show.
THEOREM Refinement == Spec => ImplementsAtomicSession
<1>1. Init => Atomic!Init
  BY InitRefines
<1>2. Inv /\ [Next]_vars => [Atomic!Next]_(Atomic!vars)
  BY NextRefines
<1> QED BY <1>1, <1>2, Invariance, PTL DEF Spec, ImplementsAtomicSession, Atomic!Spec
=============================================================================
