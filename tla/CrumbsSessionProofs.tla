------------------------- MODULE CrumbsSessionProofs -------------------------
(***************************************************************************)
(* Proofs about CrumbsSession, for every set of threads and addresses and  *)
(* every retry count.                                                      *)
(*                                                                         *)
(* A step of the session is one of five things: a critical section that    *)
(* leaves every operation alone, a Begin, a SET_REPLY that succeeded, a    *)
(* Retry, or a Return.  Each preserves the invariant; Write, Read and Scan *)
(* are shown to be one of the last three.                                  *)
(***************************************************************************)
EXTENDS CrumbsSession, TLAPS

LEMMA InitInv == Init => Inv
<1> SUFFICES ASSUME Init PROVE Inv
  OBVIOUS
<1> USE SessionAssumption DEF SessionAssumption, Init
<1>1. Idle \in OpType
  BY DEF Idle, Op, OpType, Phases, Kinds, MaxAttempts
<1>2. Nothing \in ResultType
  BY DEF Nothing, Returned, ResultType, Codes
<1>3. TypeOK
  BY <1>1, <1>2 DEF TypeOK
<1>4. LockInv /\ OpInv
  BY DEF LockInv, OpInv, Busy, Idle, Op
<1>5. ReplyIsTheAskedOne /\ OneStallPerOperation
  BY DEF ReplyIsTheAskedOne, OneStallPerOperation, Idle, Op, Nothing, Returned
<1>6. EveryAttemptIsCounted /\ RecoveryPerOutage /\ OutageNotForgotten
  BY DEF EveryAttemptIsCounted, RecoveryPerOutage, OutageNotForgotten, InFlight
<1> QED BY <1>3, <1>4, <1>5, <1>6 DEF Inv

\* A critical section outside any operation: open, close, record_rejection,
\* take_recovery.
LEMMA AtomicInv ==
  ASSUME NEW c \in Callers, NEW a \in Addresses, Inv,
         Open(c) \/ close(c) \/ record_rejection(c, a) \/ take_recovery(c, a)
  PROVE  Inv'
<1> USE DEF history, counters, flags, Inv
<1>1. UNCHANGED <<holder, op, result, staged, transfers, ok, failed, retried>>
  BY DEF Open, close, record_rejection, take_recovery
<1>2. LockInv' /\ OpInv' /\ ReplyIsTheAskedOne' /\ OneStallPerOperation'
  BY <1>1 DEF LockInv, OpInv, ReplyIsTheAskedOne, OneStallPerOperation, Busy
<1>3. EveryAttemptIsCounted'
  BY <1>1 DEF EveryAttemptIsCounted, InFlight
<1>4. isOpen' \in BOOLEAN /\ rejected' \in [Addresses -> Nat]
  <2>1. isOpen' \in BOOLEAN
    BY Zenon DEF TypeOK, Open, close, record_rejection, take_recovery
  <2>2. rejected' = rejected \/ rejected' = [rejected EXCEPT ![a] = @ + 1]
    BY Zenon DEF Open, close, record_rejection, take_recovery
  <2>3. rejected' \in [Addresses -> Nat]
    BY <2>2 DEF TypeOK
  <2> QED BY <2>1, <2>3
<1>5. CASE ~take_recovery(c, a)
  <2>1. UNCHANGED <<flags, history>>
    BY <1>5 DEF Open, close, record_rejection
  <2> QED
    BY <1>1, <1>2, <1>3, <1>4, <2>1
    DEF TypeOK, RecoveryPerOutage, OutageNotForgotten
<1>6. CASE take_recovery(c, a)
  <2>1. TypeOK'
    BY <1>1, <1>4, <1>6 DEF TypeOK, take_recovery
  <2>2. RecoveryPerOutage'
    <3> SUFFICES ASSUME NEW b \in Addresses
                 PROVE  RecoveryPerOutage!(b)'
      BY DEF RecoveryPerOutage
    <3> QED BY <1>1, <1>6 DEF TypeOK, RecoveryPerOutage, take_recovery
  <2>3. OutageNotForgotten'
    BY <1>1, <1>6 DEF TypeOK, OutageNotForgotten, take_recovery
  <2> QED BY <1>2, <1>3, <2>1, <2>2, <2>3
<1> QED BY <1>5, <1>6

\* Begin takes the mutex only when it is free, so the operation it starts is
\* the only one.
LEMMA BeginInv ==
  ASSUME NEW c \in Callers, NEW kind \in Kinds,
         NEW a \in Addresses \cup {NoAddress}, NEW q \in Opcodes \cup {NoReply},
         kind = "scan" <=> a = NoAddress,
         kind = "query_read" <=> q # NoReply,
         Inv, Begin(c, kind, a, q)
  PROVE  Inv'
<1> USE SessionAssumption DEF SessionAssumption, Inv
<1>1. UNCHANGED <<isOpen, ok, failed, retried, rejected, lastOpFailed,
                  recoveryPending, staged, recoveries, failedAtTake>>
  BY DEF Begin, counters, flags, history
<1>2. RecoveryPerOutage' /\ OutageNotForgotten'
  BY <1>1 DEF RecoveryPerOutage, OutageNotForgotten
<1>3. CASE isOpen
  <2> DEFINE new == Op(FirstPhase(kind), kind, a, q, 1, 0, FALSE)
  <2>1. /\ LockFree(c) /\ holder' = c
        /\ op' = [op EXCEPT ![c] = new]
        /\ transfers' = Count(transfers, a) /\ result' = result
    BY <1>3 DEF Begin
  <2>2. FirstPhase(kind) \in Phases
    BY DEF FirstPhase, Phases, Kinds
  <2>3. new \in OpType
    BY <2>2 DEF OpType, Op, MaxAttempts
  <2>4. transfers' \in [Addresses -> Nat]
    BY <2>1 DEF Count, TypeOK
  <2>5. TypeOK'
    BY <1>1, <2>1, <2>3, <2>4 DEF TypeOK
  <2>6. \A d \in Callers : ~Busy(d)
    BY <2>1 DEF LockFree, LockInv
  <2>7. op'[c] = new /\ \A d \in Callers : d # c => op'[d] = op[d]
    BY <2>1 DEF TypeOK
  <2>8. FirstPhase(kind) # "idle"
    BY DEF FirstPhase
  <2>9. LockInv'
    BY <2>1, <2>6, <2>7, <2>8 DEF LockInv, Busy, Op
  <2>10. OpInv'
    BY <1>1, <2>6, <2>7 DEF OpInv, Busy, FirstPhase, Kinds, Op
  <2>11. ReplyIsTheAskedOne' /\ OneStallPerOperation'
    BY <2>1, <2>7 DEF ReplyIsTheAskedOne, OneStallPerOperation, Op
  <2>12. EveryAttemptIsCounted'
    <3> SUFFICES ASSUME NEW b \in Addresses
                 PROVE  EveryAttemptIsCounted!(b)'
      BY DEF EveryAttemptIsCounted
    <3>1. InFlight(b) = 0
      BY <2>1 DEF LockFree, InFlight
    <3>2. InFlight(b)' = IF a = b THEN 1 ELSE 0
      BY <2>1, <2>7 DEF InFlight, Op
    <3> QED
      BY <1>1, <2>1, <3>1, <3>2 DEF EveryAttemptIsCounted, Count, TypeOK
  <2> QED BY <1>2, <2>5, <2>9, <2>10, <2>11, <2>12
<1>4. CASE ~isOpen
  <2>1. /\ result' = [result EXCEPT ![c] =
                Returned("NotOpen", q, NoReply, FALSE, 0)]
        /\ UNCHANGED <<holder, op, transfers>>
    BY <1>4 DEF Begin
  <2>2. Returned("NotOpen", q, NoReply, FALSE, 0) \in ResultType
    BY DEF Returned, ResultType, Codes
  <2>3. TypeOK'
    BY <1>1, <2>1, <2>2 DEF TypeOK
  <2>4. LockInv' /\ OpInv' /\ EveryAttemptIsCounted'
    BY <1>1, <2>1 DEF LockInv, OpInv, EveryAttemptIsCounted, InFlight, Busy
  <2>5. ReplyIsTheAskedOne' /\ OneStallPerOperation'
    BY <2>1 DEF ReplyIsTheAskedOne, OneStallPerOperation, Returned, TypeOK
  <2> QED BY <1>2, <2>3, <2>4, <2>5
<1> QED BY <1>3, <1>4

\* The SET_REPLY of a query was written: the read is next.
LEMMA StagedInv ==
  ASSUME NEW c \in Callers, NEW landed \in BOOLEAN, Inv,
         op[c].phase = "write", op[c].kind = "query_read",
         staged' = IF landed THEN [staged EXCEPT ![op[c].addr] = op[c].asked]
                             ELSE staged,
         op' = [op EXCEPT ![c] = Op("read", @.kind, @.addr, @.asked,
                                    @.attempt, @.stalls, landed)],
         UNCHANGED <<isOpen, holder, result, counters, flags, transfers, history>>
  PROVE  Inv'
<1> USE SessionAssumption DEF SessionAssumption, Inv, counters, flags, history
<1>1. op[c] \in OpType
  BY DEF TypeOK
<1>2. op[c].addr \in Addresses /\ op[c].asked \in Opcodes
  BY <1>1 DEF OpInv, OpType
<1> DEFINE new == Op("read", op[c].kind, op[c].addr, op[c].asked,
                     op[c].attempt, op[c].stalls, landed)
<1>3. new \in OpType
  BY <1>1 DEF OpType, Phases, Op
<1>4. TypeOK'
  BY <1>2, <1>3 DEF TypeOK
<1>5. /\ op'[c] = new
      /\ \A d \in Callers : d # c => op'[d] = op[d]
  BY DEF TypeOK
<1>6. /\ op'[c].phase = "read" /\ op'[c].kind = "query_read"
      /\ op'[c].landed <=> landed
      /\ op'[c].addr = op[c].addr /\ op'[c].asked = op[c].asked
      /\ op'[c].attempt = op[c].attempt /\ op'[c].stalls = op[c].stalls
  BY <1>5 DEF Op
<1>7. holder = c /\ \A d \in Callers : d # c => ~Busy(d)
  BY DEF LockInv, Busy
<1>8. LockInv'
  BY <1>5, <1>6, <1>7 DEF LockInv, Busy
<1>9. OpInv'
  <2> SUFFICES ASSUME NEW d \in Callers PROVE OpInv!(d)'
    BY DEF OpInv
  <2>1. CASE d = c
    <3>1. landed => staged'[op[c].addr] = op[c].asked
      BY <1>2 DEF TypeOK
    <3> QED BY <1>2, <1>6, <2>1, <3>1
  <2>2. CASE d # c
    BY <1>5, <1>7, <2>2 DEF Busy
  <2> QED BY <2>1, <2>2
<1>10. ReplyIsTheAskedOne' /\ OneStallPerOperation'
  BY <1>5, <1>6 DEF ReplyIsTheAskedOne, OneStallPerOperation
<1>11. EveryAttemptIsCounted'
  BY <1>6, <1>7 DEF EveryAttemptIsCounted, InFlight
<1>12. RecoveryPerOutage' /\ OutageNotForgotten'
  BY DEF RecoveryPerOutage, OutageNotForgotten
<1> QED BY <1>4, <1>8, <1>9, <1>10, <1>11, <1>12

\* A retry starts the sequence again; it never follows an ETIMEDOUT and never
\* goes past the last attempt.
LEMMA RetryInv ==
  ASSUME NEW c \in Callers, NEW code \in TransferOutcome, Inv, Busy(c),
         ~LastAttempt(code, op[c].attempt), Retry(c, code),
         staged' \in [Addresses -> Opcodes],
         UNCHANGED <<isOpen, rejected, history>>
  PROVE  Inv'
<1> USE SessionAssumption DEF SessionAssumption, Inv, flags, history
<1>1. op[c] \in OpType
  BY DEF TypeOK
<1>2. code = "Failed" /\ op[c].attempt \in 1..RetryCount
  BY <1>1 DEF LastAttempt, is_retryable, TransferOutcome, OpType, MaxAttempts
<1>3. Stalls(c, code) = 0
  BY <1>2 DEF Stalls, OneStallPerOperation
<1> DEFINE new == Op(FirstPhase(op[c].kind), op[c].kind, op[c].addr,
                     op[c].asked, op[c].attempt + 1, Stalls(c, code), FALSE)
<1>4. FirstPhase(op[c].kind) \in Phases \ {"idle"}
  BY <1>1 DEF FirstPhase, Phases
<1>5. new \in OpType
  <2>1. op[c].attempt + 1 \in 1..MaxAttempts
    BY <1>2 DEF MaxAttempts
  <2> QED BY <1>1, <1>3, <1>4, <2>1 DEF OpType, Op
<1>6. /\ new.phase = FirstPhase(op[c].kind) /\ new.kind = op[c].kind
      /\ new.landed = FALSE /\ new.addr = op[c].addr
      /\ new.asked = op[c].asked
      /\ new.attempt = op[c].attempt + 1 /\ new.stalls = 0
  BY <1>3 DEF Op
<1>7. op'[c] = new /\ \A d \in Callers : d # c => op'[d] = op[d]
  BY DEF TypeOK, Retry
<1> HIDE DEF new
<1>8. transfers' \in [Addresses -> Nat]
  BY DEF TypeOK, Retry, Count
<1>9. TypeOK'
  BY <1>5, <1>8 DEF TypeOK, Retry, new
<1>10. holder = c /\ \A d \in Callers : d # c => ~Busy(d)
  BY DEF LockInv, Busy
<1>11. LockInv'
  BY <1>4, <1>6, <1>7, <1>10 DEF LockInv, Busy, Retry
<1>12. OpInv'
  <2> SUFFICES ASSUME NEW d \in Callers PROVE OpInv!(d)'
    BY DEF OpInv
  <2>1. CASE d = c
    BY <1>1, <1>6, <1>7, <2>1 DEF OpInv, Busy, FirstPhase, OpType, Kinds, Phases
  <2>2. CASE d # c
    BY <1>7, <1>10, <2>2 DEF Busy
  <2> QED BY <2>1, <2>2
<1>13. ReplyIsTheAskedOne' /\ OneStallPerOperation'
  BY <1>6, <1>7 DEF ReplyIsTheAskedOne, OneStallPerOperation, Retry
<1>14. EveryAttemptIsCounted'
  <2> SUFFICES ASSUME NEW b \in Addresses
               PROVE  EveryAttemptIsCounted!(b)'
    BY DEF EveryAttemptIsCounted
  <2>1. InFlight(b) = IF op[c].addr = b THEN op[c].attempt ELSE 0
    BY <1>10 DEF InFlight
  <2>2. InFlight(b)' = IF op[c].addr = b THEN op[c].attempt + 1 ELSE 0
    BY <1>6, <1>7, <1>10 DEF InFlight, Retry
  <2> QED BY <1>2, <2>1, <2>2 DEF EveryAttemptIsCounted, Count, TypeOK, Retry
<1>15. RecoveryPerOutage' /\ OutageNotForgotten'
  BY DEF RecoveryPerOutage, OutageNotForgotten, Retry
<1> QED BY <1>9, <1>11, <1>12, <1>13, <1>14, <1>15

\* An operation returns: its attempts move from "in flight" to the counters,
\* and a success after a failure becomes the recovery signal.
LEMMA ReturnInv ==
  ASSUME NEW c \in Callers, NEW code \in TransferOutcome,
         NEW got \in Opcodes \cup {NoReply}, NEW landed \in BOOLEAN,
         Inv, Busy(c), Return(c, code, got, landed),
         code = "Ok" /\ op[c].asked # NoReply /\ landed => got = op[c].asked,
         staged' \in [Addresses -> Opcodes],
         UNCHANGED <<isOpen, rejected, history>>
  PROVE  Inv'
<1> USE SessionAssumption DEF SessionAssumption, Inv, flags, history
<1>1. op[c] \in OpType
  BY DEF TypeOK
<1>2. holder = c /\ \A d \in Callers : d # c => ~Busy(d)
  BY DEF LockInv, Busy
<1>3. /\ holder' = NoCaller /\ op' = [op EXCEPT ![c] = Idle]
      /\ transfers' = transfers
  BY DEF Return
<1>4. op'[c] = Idle /\ \A d \in Callers : d # c => op'[d] = op[d]
  BY <1>3 DEF TypeOK
<1>5. Stalls(c, code) \in 0..1
  BY DEF Stalls, OneStallPerOperation
<1> DEFINE res == Returned(code, op[c].asked, got, landed, Stalls(c, code))
<1>6. res \in ResultType
  BY <1>1, <1>5 DEF Returned, ResultType, OpType, Codes
<1>7. result' = [result EXCEPT ![c] = res]
  BY DEF Return
<1>8. Idle \in OpType
  BY DEF Idle, Op, OpType, Phases, Kinds, MaxAttempts
<1>9. LockInv' /\ OpInv'
  BY <1>2, <1>3, <1>4 DEF LockInv, OpInv, Busy, Idle, Op
<1>10. ReplyIsTheAskedOne' /\ OneStallPerOperation'
  BY <1>4, <1>5, <1>7
  DEF ReplyIsTheAskedOne, OneStallPerOperation, Returned, Idle, Op, TypeOK
<1>11. \A b \in Addresses :
          /\ InFlight(b) = IF op[c].addr = b THEN op[c].attempt ELSE 0
          /\ InFlight(b)' = 0
  BY <1>2, <1>3 DEF InFlight
<1>12. CASE op[c].kind = "scan"
  <2>1. UNCHANGED <<ok, failed, retried, lastOpFailed, recoveryPending>>
    BY <1>12 DEF Return
  <2>2. TypeOK'
    BY <1>3, <1>6, <1>7, <1>8, <2>1 DEF TypeOK
  <2>3. op[c].addr = NoAddress
    BY <1>1, <1>12 DEF OpInv, Busy, OpType, Phases
  <2>4. EveryAttemptIsCounted'
    BY <1>3, <1>11, <2>1, <2>3 DEF EveryAttemptIsCounted
  <2>5. RecoveryPerOutage' /\ OutageNotForgotten'
    BY <2>1 DEF RecoveryPerOutage, OutageNotForgotten
  <2> QED BY <1>9, <1>10, <2>2, <2>4, <2>5
<1>13. CASE op[c].kind # "scan"
  <2> DEFINE a == op[c].addr
             n == op[c].attempt
  <2>1. a \in Addresses
    BY <1>1, <1>13 DEF OpInv, Busy, OpType, Phases
  <2>2. n \in Nat /\ n >= 1
    BY <1>1 DEF OpType, MaxAttempts
  <2>3. record_outcome(a, code, n)
    BY <1>13 DEF Return
  <2> HIDE DEF a, n
  <2>4. retried' = [retried EXCEPT ![a] = @ + (n - 1)]
    BY <2>3 DEF record_outcome, RetriedBy
  <2>5. CASE code = "Ok"
    <3>1. /\ ok' = [ok EXCEPT ![a] = @ + 1] /\ failed' = failed
          /\ lastOpFailed' = lastOpFailed \ {a}
          /\ recoveryPending' = SignalRecovery(a)
      BY <2>3, <2>5 DEF record_outcome
    <3>2. TypeOK'
      BY <1>3, <1>6, <1>7, <1>8, <2>1, <2>2, <2>4, <3>1
      DEF TypeOK, SignalRecovery
    <3>3. EveryAttemptIsCounted'
      <4> SUFFICES ASSUME NEW b \in Addresses
                   PROVE  EveryAttemptIsCounted!(b)'
        BY DEF EveryAttemptIsCounted
      <4>1. transfers[b] = ok[b] + failed[b] + retried[b] + InFlight(b)
        BY DEF EveryAttemptIsCounted
      <4>2. /\ InFlight(b) = IF a = b THEN n ELSE 0
            /\ InFlight(b)' = 0
        BY <1>11 DEF a, n
      <4>3. /\ transfers'[b] = transfers[b]
            /\ retried'[b] = retried[b] + (IF a = b THEN n - 1 ELSE 0)
        BY <1>3, <2>1, <2>2, <2>4 DEF TypeOK
      <4>4. ok'[b] + failed'[b] = ok[b] + failed[b] + (IF a = b THEN 1 ELSE 0)
        BY <2>1, <3>1 DEF TypeOK
      <4>5. /\ ok[b] \in Nat /\ failed[b] \in Nat /\ retried[b] \in Nat
            /\ ok'[b] \in Nat /\ failed'[b] \in Nat
        BY <3>2 DEF TypeOK
      <4> QED BY <2>2, <4>1, <4>2, <4>3, <4>4, <4>5
    <3>4. RecoveryPerOutage'
      <4> SUFFICES ASSUME NEW b \in Addresses PROVE RecoveryPerOutage!(b)'
        BY DEF RecoveryPerOutage
      <4> QED BY <2>1, <3>1 DEF RecoveryPerOutage, SignalRecovery, TypeOK
    <3>5. OutageNotForgotten'
      BY <2>1, <3>1 DEF OutageNotForgotten, SignalRecovery, TypeOK
    <3> QED BY <1>9, <1>10, <3>2, <3>3, <3>4, <3>5
  <2>6. CASE code # "Ok"
    <3>1. /\ failed' = [failed EXCEPT ![a] = @ + 1] /\ ok' = ok
          /\ lastOpFailed' = lastOpFailed \cup {a}
          /\ recoveryPending' = recoveryPending
      BY <2>3, <2>6 DEF record_outcome
    <3>2. TypeOK'
      BY <1>3, <1>6, <1>7, <1>8, <2>1, <2>2, <2>4, <3>1 DEF TypeOK
    <3>3. EveryAttemptIsCounted'
      <4> SUFFICES ASSUME NEW b \in Addresses
                   PROVE  EveryAttemptIsCounted!(b)'
        BY DEF EveryAttemptIsCounted
      <4>1. transfers[b] = ok[b] + failed[b] + retried[b] + InFlight(b)
        BY DEF EveryAttemptIsCounted
      <4>2. /\ InFlight(b) = IF a = b THEN n ELSE 0
            /\ InFlight(b)' = 0
        BY <1>11 DEF a, n
      <4>3. /\ transfers'[b] = transfers[b]
            /\ retried'[b] = retried[b] + (IF a = b THEN n - 1 ELSE 0)
        BY <1>3, <2>1, <2>2, <2>4 DEF TypeOK
      <4>4. ok'[b] + failed'[b] = ok[b] + failed[b] + (IF a = b THEN 1 ELSE 0)
        BY <2>1, <3>1 DEF TypeOK
      <4>5. /\ ok[b] \in Nat /\ failed[b] \in Nat /\ retried[b] \in Nat
            /\ ok'[b] \in Nat /\ failed'[b] \in Nat
        BY <3>2 DEF TypeOK
      <4> QED BY <2>2, <4>1, <4>2, <4>3, <4>4, <4>5
    <3>4. RecoveryPerOutage'
      <4> SUFFICES ASSUME NEW b \in Addresses PROVE RecoveryPerOutage!(b)'
        BY DEF RecoveryPerOutage
      <4> QED BY <2>1, <3>1 DEF RecoveryPerOutage, TypeOK
    <3>5. OutageNotForgotten'
      BY <2>1, <3>1 DEF OutageNotForgotten, TypeOK
    <3> QED BY <1>9, <1>10, <3>2, <3>3, <3>4, <3>5
  <2> QED BY <2>5, <2>6
<1> QED BY <1>12, <1>13

\* A transfer ends its attempt: the operation returns or is retried.
LEMMA EndAttemptInv ==
  ASSUME NEW c \in Callers, NEW code \in TransferOutcome,
         NEW got \in Opcodes \cup {NoReply}, NEW landed \in BOOLEAN,
         Inv, Busy(c), EndAttempt(c, code, got, landed),
         code = "Ok" /\ op[c].asked # NoReply /\ landed => got = op[c].asked,
         staged' \in [Addresses -> Opcodes],
         UNCHANGED <<isOpen, rejected, history>>
  PROVE  Inv'
<1>1. CASE Return(c, code, got, landed)
  BY <1>1, ReturnInv
<1>2. CASE ~LastAttempt(code, op[c].attempt) /\ Retry(c, code)
  BY <1>2, RetryInv
<1> QED BY <1>1, <1>2 DEF EndAttempt

LEMMA WriteInv ==
  ASSUME NEW c \in Callers, Inv, Write(c)
  PROVE  Inv'
<1>1. Busy(c) /\ op[c].phase = "write"
  BY DEF Write, Busy
<1>2. PICK code \in TransferOutcome, landed \in BOOLEAN :
          Transmitted(c, code, landed)
  BY DEF Write
<1>3. UNCHANGED <<isOpen, rejected, history>>
  BY DEF Write
<1>4. op[c] \in OpType /\ op[c].addr \in Addresses
  BY <1>1 DEF Inv, TypeOK, OpInv
<1>5. CASE op[c].kind = "query_read" /\ code = "Ok"
  <2>1. UNCHANGED <<holder, result, counters, flags, transfers>>
    BY <1>2, <1>3, <1>5 DEF counters, Transmitted
  <2>2. op' = [op EXCEPT ![c] = Op("read", @.kind, @.addr, @.asked,
                                   @.attempt, @.stalls, landed)]
    BY <1>2, <1>5 DEF Transmitted
  <2>3. staged' = IF landed THEN [staged EXCEPT ![op[c].addr] = op[c].asked]
                            ELSE staged
    BY <1>2, <1>5 DEF Transmitted
  <2> QED BY <1>1, <1>3, <1>5, <2>1, <2>2, <2>3, StagedInv
<1>6. CASE ~(op[c].kind = "query_read" /\ code = "Ok")
  <2>1. EndAttempt(c, code, NoReply, landed)
    BY <1>2, <1>6 DEF Transmitted
  <2>2. op[c].kind = "query_read" => op[c].asked \in Opcodes
    BY <1>1, <1>4 DEF Inv, OpInv, OpType
  <2>3. staged' \in [Addresses -> Opcodes]
    BY <1>2, <1>4, <2>2 DEF Inv, TypeOK, Transmitted
  <2>4. code = "Ok" => op[c].asked = NoReply
    BY <1>1, <1>6 DEF Inv, OpInv
  <2> QED BY <1>1, <1>3, <2>1, <2>3, <2>4, EndAttemptInv
<1> QED BY <1>5, <1>6

LEMMA ReadInv ==
  ASSUME NEW c \in Callers, Inv, Read(c)
  PROVE  Inv'
<1>1. Busy(c) /\ op[c].phase = "read"
  BY DEF Read, Busy
<1>2. PICK code \in TransferOutcome :
          EndAttempt(c, code,
                     IF code = "Ok" THEN staged[op[c].addr] ELSE NoReply,
                     op[c].landed)
  BY DEF Read
<1> DEFINE got == IF code = "Ok" THEN staged[op[c].addr] ELSE NoReply
<1>3. UNCHANGED <<isOpen, rejected, staged, history>>
  BY DEF Read
<1>4. op[c] \in OpType /\ op[c].addr \in Addresses
  BY <1>1 DEF Inv, TypeOK, OpInv
<1>5. got \in Opcodes \cup {NoReply} /\ op[c].landed \in BOOLEAN
  BY <1>4 DEF Inv, TypeOK, OpType
<1>6. code = "Ok" /\ op[c].asked # NoReply /\ op[c].landed => got = op[c].asked
  BY <1>1 DEF Inv, OpInv
<1>7. staged' \in [Addresses -> Opcodes]
  BY <1>3 DEF Inv, TypeOK
<1> HIDE DEF got
<1>8. EndAttempt(c, code, got, op[c].landed)
  BY <1>2 DEF got
<1> QED BY <1>1, <1>3, <1>5, <1>6, <1>7, <1>8, EndAttemptInv

LEMMA ScanInv ==
  ASSUME NEW c \in Callers, Inv, Scan(c)
  PROVE  Inv'
<1>1. Busy(c) /\ op[c].asked = NoReply
  BY DEF Scan, Busy, Inv, OpInv
<1>2. PICK code \in TransferOutcome : EndAttempt(c, code, NoReply, FALSE)
  BY DEF Scan, TransferOutcome
<1>3. UNCHANGED <<isOpen, rejected, staged, history>>
  BY DEF Scan
<1>4. staged' \in [Addresses -> Opcodes]
  BY <1>3 DEF Inv, TypeOK
<1> QED BY <1>1, <1>2, <1>3, <1>4, EndAttemptInv

\* Every step of the session preserves the invariant.
LEMMA NextInv == Inv /\ [Next]_vars => Inv'
<1> SUFFICES ASSUME Inv, [Next]_vars PROVE Inv'
  OBVIOUS
<1>1. CASE Next
  <2>1. PICK c \in Callers : Next!(c)
    BY <1>1 DEF Next
  <2>2. CASE Open(c) \/ close(c)
    <3>1. UNCHANGED <<holder, op, result, counters, flags, staged, transfers,
                      history>> /\ isOpen' \in BOOLEAN
      BY <2>2 DEF Open, close
    <3> QED
      BY <3>1 DEF Inv, TypeOK, LockInv, OpInv, ReplyIsTheAskedOne, Busy,
                  EveryAttemptIsCounted, RecoveryPerOutage, InFlight,
                  OutageNotForgotten, OneStallPerOperation, counters, flags,
                  history
  <2>3. ASSUME NEW a \in Addresses,
               record_rejection(c, a) \/ take_recovery(c, a)
        PROVE  Inv'
    BY <2>3, AtomicInv
  <2>4. ASSUME NEW a \in Addresses, NEW q \in Opcodes,
               Begin(c, "query_read", a, q)
        PROVE  Inv'
    BY <2>4, BeginInv, SessionAssumption DEF SessionAssumption, Kinds
  <2>5. ASSUME NEW a \in Addresses, NEW k \in {"send", "read"},
               Begin(c, k, a, NoReply)
        PROVE  Inv'
    BY <2>5, BeginInv, SessionAssumption DEF SessionAssumption, Kinds
  <2>6. CASE Begin(c, "scan", NoAddress, NoReply)
    BY <2>6, BeginInv, SessionAssumption DEF SessionAssumption, Kinds
  <2>7. CASE Write(c) BY <2>7, WriteInv
  <2>8. CASE Read(c)  BY <2>8, ReadInv
  <2>9. CASE Scan(c)  BY <2>9, ScanInv
  <2> QED BY <2>1, <2>2, <2>3, <2>4, <2>5, <2>6, <2>7, <2>8, <2>9
<1>2. CASE UNCHANGED vars
  BY <1>2 DEF vars, Inv, TypeOK, LockInv, OpInv, ReplyIsTheAskedOne, Busy,
              EveryAttemptIsCounted, RecoveryPerOutage, InFlight,
              OutageNotForgotten, OneStallPerOperation, counters, flags, history
<1> QED BY <1>1, <1>2

THEOREM Invariance == Spec => []Inv
<1>1. Init => Inv
  BY InitInv
<1>2. Inv /\ [Next]_vars => Inv'
  BY NextInv
<1> QED BY <1>1, <1>2, PTL DEF Spec

\* Every state of the session is well typed.
THEOREM TypeCorrect == Spec => []TypeOK
  BY Invariance, PTL DEF Inv

\* session.cpp, query_read: the reply belongs to the question.
THEOREM ReplyCorrect == Spec => []ReplyIsTheAskedOne
  BY Invariance, PTL DEF Inv

\* session.cpp, record_outcome: the io_ metrics account for every attempt.
THEOREM CountersCorrect == Spec => []EveryAttemptIsCounted
  BY Invariance, PTL DEF Inv

\* session.cpp, record_outcome and take_recovery: one signal per outage.
THEOREM RecoveryCorrect == Spec => []RecoveryPerOutage
  BY Invariance, PTL DEF Inv

\* session.cpp, record_outcome: no outage without a signal, however the counters
\* and the signal of earlier ones were taken.
THEOREM OutageCorrect == Spec => []OutageNotForgotten
  BY Invariance, PTL DEF Inv

\* session.cpp, execute_with_retry: a dead bus stalls an operation once.
THEOREM StallBound == Spec => []OneStallPerOperation
  BY Invariance, PTL DEF Inv
=============================================================================
