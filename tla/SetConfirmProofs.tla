-------------------------- MODULE SetConfirmProofs --------------------------
(***************************************************************************)
(* Proofs about SetConfirm, for every set of opcodes, every retry count    *)
(* and every counter width above what one call can write.                  *)
(***************************************************************************)
EXTENDS SetConfirm, TLAPS

\* The counter of the acknowledgement record wraps to 0 after its last value.
LEMMA CounterStep ==
  ASSUME NEW n \in Counters
  PROVE  /\ (n + 1) % Modulus \in Counters
         /\ (n + 1) % Modulus = n + 1 \/ (n + 1) % Modulus = n + 1 - Modulus
<1> USE ConfirmAssumption DEF ConfirmAssumption, MaxWrites, kConfirmedSends, Counters
<1>1. CASE n + 1 < Modulus
  <2>1. (n + 1) % Modulus = n + 1
    BY <1>1
  <2> QED BY <2>1, <1>1
<1>2. CASE n + 1 = Modulus
  <2>1. (n + 1) % Modulus = 0
    BY <1>2
  <2> QED BY <2>1, <1>2
<1> QED BY <1>1, <1>2

LEMMA RecordCounter == ASSUME NEW r \in AckRecords PROVE r.counter \in Counters
<1>1. 0 \in Counters
  BY ConfirmAssumption DEF ConfirmAssumption, MaxWrites, kConfirmedSends, Counters
<1> QED BY <1>1 DEF AckRecords, Fresh

LEMMA InitInv == Init => Inv
<1> SUFFICES ASSUME Init PROVE Inv
  OBVIOUS
<1> USE ConfirmAssumption DEF ConfirmAssumption, Init
<1>1. MaxWrites \in Nat /\ Modulus \in Nat \ {0}
  BY DEF MaxWrites, kConfirmedSends
<1>2. Fresh \in AckRecords
  BY DEF AckRecords
<1>3. /\ sent \in 0..kConfirmedSends /\ writes \in 0..RetryCount
      /\ tries \in 0..(AckReadAttempts - 1)
      /\ counted \in 0..MaxWrites /\ handled \in 0..counted /\ live \in 0..handled
  BY <1>1 DEF kConfirmedSends
<1>4. TypeOK
  BY <1>2, <1>3, Zenon DEF TypeOK, Replies
<1>5. CallInv /\ BoundInv /\ AdvanceInv /\ AppliedInv /\ DeniedMeansNotApplied
  BY DEF CallInv, BoundInv, AdvanceInv, AppliedInv, DeniedMeansNotApplied
<1> QED BY <1>4, <1>5 DEF Inv

\* transmit_confirmed is entered with nothing of an earlier call left.
LEMMA CallKeepsInv == ASSUME Inv, NEW op \in Ops, Call(op) PROVE Inv'
<1> USE ConfirmAssumption DEF ConfirmAssumption, Inv, Call
<1>1. MaxWrites \in Nat
  BY DEF MaxWrites, kConfirmedSends
<1>2. /\ sent' \in 0..kConfirmedSends /\ writes' \in 0..RetryCount
      /\ tries' \in 0..(AckReadAttempts - 1)
      /\ counted' \in 0..MaxWrites /\ handled' \in 0..counted' /\ live' \in 0..handled'
  BY <1>1 DEF kConfirmedSends
<1>3. TypeOK'
  BY <1>2, Zenon DEF TypeOK, Replies
<1>4. Confirmed' <=> Confirmed
  BY DEF Confirmed, set_confirmation
<1>5. CallInv'
  BY <1>4 DEF CallInv, Confirmed
<1>6. BoundInv'
  BY DEF BoundInv
<1>7. AdvanceInv' /\ AppliedInv'
  BY <1>4 DEF AdvanceInv, AppliedInv, Confirmed
<1>8. DeniedMeansNotApplied'
  BY DEF DeniedMeansNotApplied
<1> QED BY <1>3, <1>5, <1>6, <1>7, <1>8

\* A board that loses power loses its record, so that it confirms nothing.
LEMMA RebootKeepsInv == ASSUME Inv, Reboot PROVE Inv'
<1> USE ConfirmAssumption DEF ConfirmAssumption, Inv, Reboot
<1>1. Fresh \in AckRecords
  BY DEF AckRecords
<1>2. TypeOK'
  BY <1>1 DEF TypeOK
<1>3. CallInv' /\ BoundInv' /\ DeniedMeansNotApplied'
  BY DEF CallInv, BoundInv, DeniedMeansNotApplied, Confirmed, set_confirmation
<1>4. AdvanceInv' /\ AppliedInv'
  BY DEF AdvanceInv, AppliedInv, Fresh
<1> QED BY <1>2, <1>3, <1>4

\* The baseline is the record before anything of the call was sent.
LEMMA BaselineKeepsInv == ASSUME Inv, ReadBaseline PROVE Inv'
<1> USE ConfirmAssumption DEF ConfirmAssumption, Inv
<1>1. pc = "baseline" /\ counted = 0 /\ reply = "none"
  BY DEF ReadBaseline, CallInv, TypeOK
<1>2. UNCHANGED <<device, ack, frame, counted, handled, live, cut>>
  BY DEF ReadBaseline
<1>3. Confirmed' <=> Confirmed
  BY <1>2 DEF Confirmed, set_confirmation
<1>4. CASE Return("not_sent") /\ before' = before
  <2>1. TypeOK'
    BY <1>2, <1>4 DEF TypeOK, Return, Replies
  <2>2. CallInv' /\ BoundInv' /\ AdvanceInv' /\ AppliedInv' /\ DeniedMeansNotApplied'
    BY <1>1, <1>2, <1>4
    DEF CallInv, BoundInv, AdvanceInv, AppliedInv, DeniedMeansNotApplied, Return
  <2> QED BY <2>1, <2>2
<1>5. CASE /\ tries + 1 < AckReadAttempts
           /\ tries' = tries + 1
           /\ UNCHANGED <<pc, before, sent, writes, reply>>
  <2>1. TypeOK'
    BY <1>2, <1>5 DEF TypeOK
  <2>2. CallInv' /\ BoundInv' /\ AdvanceInv' /\ AppliedInv' /\ DeniedMeansNotApplied'
    BY <1>1, <1>2, <1>3, <1>5
    DEF CallInv, BoundInv, AdvanceInv, AppliedInv, DeniedMeansNotApplied
  <2> QED BY <2>1, <2>2
<1>6. CASE /\ before' = ack
           /\ pc' = "write" /\ writes' = 0 /\ tries' = 0
           /\ UNCHANGED <<sent, reply>>
  <2>1. TypeOK'
    BY <1>2, <1>6 DEF TypeOK
  <2>2. CallInv' /\ DeniedMeansNotApplied'
    BY <1>1, <1>2, <1>3, <1>6 DEF CallInv, DeniedMeansNotApplied
  <2>3. BoundInv'
    BY <1>1, <1>2, <1>6 DEF BoundInv, TypeOK, kConfirmedSends
  <2>4. ack.counter \in Nat
    BY DEF TypeOK, AckRecords, Fresh, Counters
  <2>5. AdvanceInv' /\ AppliedInv'
    BY <1>1, <1>2, <1>6, <2>4 DEF AdvanceInv, AppliedInv
  <2> QED BY <2>1, <2>2, <2>3, <2>5
<1> QED BY <1>4, <1>5, <1>6 DEF ReadBaseline, read_ack

\* What a transfer does to the device, whatever its status is.
LEMMA Transfer ==
  ASSUME Inv, Write
  PROVE  \/ Lose
         \/ /\ counted' = counted + 1 /\ ack'.counter = (ack.counter + 1) % Modulus
            /\ ack' \in AckRecords
            /\ handled' \in handled..(handled + 1) /\ live' \in live..(live + 1)
            /\ live' - live <= handled' - handled
            /\ ack'.status = "APPLIED" => handled' > 0 /\ (device.refuses => live' > 0)
<1> USE ConfirmAssumption DEF ConfirmAssumption
<1>1. frame \in Ops /\ ack.counter \in Counters /\ live \in Nat /\ handled \in Nat
  BY DEF Inv, CallInv, TypeOK, Write, AckRecords, Fresh, Counters, MaxWrites,
         kConfirmedSends
<1>2. ASSUME NEW st \in AckStatus, NEW acted \in BOOLEAN, Take(st, acted)
      PROVE  /\ counted' = counted + 1 /\ ack'.counter = (ack.counter + 1) % Modulus
             /\ ack' \in AckRecords
             /\ handled' \in handled..(handled + 1) /\ live' \in live..(live + 1)
             /\ live' - live <= handled' - handled
             /\ ack'.status = "APPLIED" => handled' > 0 /\ (device.refuses => live' > 0)
  <2>1. (ack.counter + 1) % Modulus \in Counters
    BY <1>1, CounterStep
  <2>2. ack' = [counter |-> (ack.counter + 1) % Modulus, opcode |-> frame,
                status |-> st]
    BY <1>2 DEF Take
  <2>3. ack' \in AckRecords
    BY <1>1, <2>1, <2>2 DEF AckRecords
  <2> QED BY <1>1, <1>2, <2>2, <2>3 DEF Take
<1>3. Lose \/ \E st \in AckStatus, acted \in BOOLEAN : Take(st, acted)
  BY DEF Write, AckStatus
<1> QED BY <1>2, <1>3

\* One transfer of the frame, then another or the end of this send.
LEMMA WriteKeepsInv == ASSUME Inv, Write PROVE Inv'
<1> USE ConfirmAssumption DEF ConfirmAssumption
<1>1. /\ TypeOK /\ CallInv /\ BoundInv /\ AdvanceInv /\ AppliedInv
      /\ pc = "write" /\ UNCHANGED <<device, frame, before, cut>>
  BY DEF Inv, Write
<1>2. /\ frame \in Ops /\ sent \in 1..3 /\ reply = "none"
      /\ counted \in Nat /\ handled \in 0..counted /\ live \in 0..handled
      /\ writes \in 0..RetryCount
  BY <1>1 DEF CallInv, TypeOK, kConfirmedSends, MaxWrites
<1>3. Confirmed' <=> Confirmed
  BY <1>1 DEF Confirmed, set_confirmation
<1>4. \/ /\ writes + 1 <= RetryCount /\ writes' = writes + 1
         /\ UNCHANGED <<pc, sent, tries, reply>>
      \/ /\ ~Confirmed /\ \E r \in {"ok", "write_failed"} : Return(r)
      \/ /\ Confirmed /\ pc' = "ack" /\ writes' = 0 /\ tries' = 0
         /\ UNCHANGED <<sent, reply>>
  BY <1>2 DEF Write, SendEnds, Confirmed
<1>5. sent' = sent
  BY <1>4 DEF Return
<1>6. \/ Lose
      \/ /\ counted' = counted + 1 /\ ack'.counter = (ack.counter + 1) % Modulus
         /\ ack' \in AckRecords
         /\ handled' \in handled..(handled + 1) /\ live' \in live..(live + 1)
         /\ live' - live <= handled' - handled
         /\ ack'.status = "APPLIED" => handled' > 0 /\ (device.refuses => live' > 0)
  BY Transfer
<1>7. counted' \in counted..(counted + 1) /\ handled' \in 0..counted' /\ live' \in 0..handled'
  BY <1>2, <1>6 DEF Lose
<1>8. ack' \in AckRecords
  BY <1>1, <1>6 DEF Lose, TypeOK
<1>9. counted' <= MaxWrites
  BY <1>1, <1>2, <1>7 DEF BoundInv, MaxWrites, kConfirmedSends
<1>10. TypeOK'
  <2>1. /\ pc' \in {"idle", "write", "ack"} /\ writes' \in 0..RetryCount
        /\ tries' \in 0..(AckReadAttempts - 1) /\ reply' \in Replies
    BY <1>1, <1>2, <1>4 DEF TypeOK, Return, Replies
  <2>2. counted' \in 0..MaxWrites
    BY <1>2, <1>7, <1>9 DEF MaxWrites, kConfirmedSends
  <2> QED
    BY <1>1, <1>5, <1>7, <1>8, <2>1, <2>2 DEF TypeOK
<1>11. CallInv'
  BY <1>1, <1>2, <1>3, <1>4, <1>5 DEF CallInv, Return
<1>12. BoundInv'
  <2>1. CASE /\ writes + 1 <= RetryCount /\ writes' = writes + 1
             /\ UNCHANGED <<pc, sent, tries, reply>>
    BY <1>1, <1>2, <1>7, <2>1 DEF BoundInv
  <2>2. CASE pc' = "idle"
    BY <2>2 DEF BoundInv
  <2>3. CASE pc' = "ack" /\ writes' = 0
    BY <1>1, <1>2, <1>5, <1>7, <2>3 DEF BoundInv
  <2> QED BY <1>4, <2>1, <2>2, <2>3 DEF Return
<1>13. AdvanceInv'
  <2> SUFFICES ASSUME Confirmed, ~cut
               PROVE  /\ \/ ack'.counter = before.counter + counted'
                         \/ ack'.counter = before.counter + counted' - Modulus
                      /\ counted' = 0 => ack' = before
    BY <1>1, <1>3 DEF AdvanceInv
  <2>1. /\ \/ ack.counter = before.counter + counted
           \/ ack.counter = before.counter + counted - Modulus
        /\ counted = 0 => ack = before
    BY <1>1 DEF AdvanceInv
  <2>2. CASE Lose
    BY <2>1, <2>2 DEF Lose
  <2>3. CASE ~Lose
    <3>1. counted' = counted + 1 /\ ack'.counter = (ack.counter + 1) % Modulus
      BY <1>6, <2>3
    <3>2. /\ ack.counter \in Counters /\ before.counter \in Counters
          /\ ack'.counter \in Counters
      BY <1>1, <1>8, RecordCounter DEF TypeOK
    <3>3. \/ ack'.counter = ack.counter + 1
          \/ ack'.counter = ack.counter + 1 - Modulus
      BY <3>1, <3>2, CounterStep
    <3>4. before.counter + counted' < 2 * Modulus
      BY <1>2, <1>7, <1>9, <3>2 DEF Counters, MaxWrites, kConfirmedSends
    <3>5. counted' # 0
      BY <1>2, <3>1
    <3>6. Modulus \in Nat /\ counted' \in Nat
      BY <1>2, <3>1
    <3>7. /\ ack'.counter \in Int /\ ack.counter \in Int /\ before.counter \in Int
          /\ ack'.counter >= 0
      BY <3>2, <3>6 DEF Counters
    <3>8. \/ ack'.counter = before.counter + counted'
          \/ ack'.counter = before.counter + counted' - Modulus
      BY <1>2, <2>1, <3>1, <3>3, <3>4, <3>6, <3>7
    <3> QED BY <3>5, <3>8
  <2> QED BY <2>2, <2>3
<1>14. AppliedInv'
  <2>1. CASE Lose
    BY <1>1, <1>3, <2>1 DEF AppliedInv, Lose
  <2>2. CASE ~Lose
    BY <1>1, <1>6, <2>2 DEF AppliedInv
  <2> QED BY <2>1, <2>2
<1>15. DeniedMeansNotApplied'
  BY <1>2, <1>4 DEF DeniedMeansNotApplied, Return
<1> QED BY <1>10, <1>11, <1>12, <1>13, <1>14, <1>15 DEF Inv

\* A record equal to the baseline: the device, if powered throughout, counted
\* nothing of this call.
LEMMA NotAdvancedMeansUncounted ==
  ASSUME Inv, pc = "ack", ack = before, ~cut
  PROVE  counted = 0
<1> USE ConfirmAssumption DEF ConfirmAssumption
<1>1. counted \in 0..MaxWrites /\ before.counter \in Counters
  BY DEF Inv, TypeOK, AckRecords, Fresh, Counters, MaxWrites, kConfirmedSends
<1>2. \/ before.counter = before.counter + counted
      \/ before.counter = before.counter + counted - Modulus
  BY DEF Inv, AdvanceInv, CallInv
<1> QED BY <1>1, <1>2 DEF Counters, MaxWrites, kConfirmedSends

\* The classification says NOT_ADVANCED of the baseline itself only, and
\* SET_APPLIED of another record only, one that says so.
LEMMA Classified ==
  ASSUME ack \in AckRecords, NEW o \in crumbs_ack_classify(before, ack, frame)
  PROVE  /\ o = "SET_NOT_ADVANCED" => ack = before
         /\ o = "SET_APPLIED" => ack # before /\ ack.status = "APPLIED"
<1>1. CASE ack.status = "NONE"
  BY <1>1 DEF crumbs_ack_classify
<1>2. CASE ack.status # "NONE" /\ ack = before
  BY <1>2 DEF crumbs_ack_classify
<1>3. CASE ack.status = "APPLIED" /\ ack # before
  BY <1>3 DEF crumbs_ack_classify
<1>4. CASE ack.status = "REFUSED" /\ ack # before
  BY <1>4 DEF crumbs_ack_classify
<1>5. CASE ack.status = "REJECTED" /\ ack # before
  BY <1>5 DEF crumbs_ack_classify
<1>6. ack.status \in {"APPLIED", "REFUSED", "REJECTED", "NONE"}
  BY DEF AckRecords, Fresh, AckStatus
<1> QED BY <1>1, <1>2, <1>3, <1>4, <1>5, <1>6

\* The record decides: the call returns, or the frame is sent again.
LEMMA AckKeepsInv == ASSUME Inv, ReadAck PROVE Inv'
<1> USE ConfirmAssumption DEF ConfirmAssumption
<1>1. /\ TypeOK /\ CallInv /\ BoundInv /\ AdvanceInv /\ AppliedInv
      /\ pc = "ack" /\ UNCHANGED <<device, ack, frame, counted, handled, live, cut, before>>
  BY DEF Inv, ReadAck, read_ack
<1>2. Confirmed' <=> Confirmed
  BY <1>1 DEF Confirmed, set_confirmation
<1>3. CASE \E r \in Replies \ {"not_sent", "not_applied"} : Return(r)
  <2>1. TypeOK'
    BY <1>1, <1>3 DEF TypeOK, Return
  <2> QED
    BY <1>1, <1>3, <2>1 DEF Inv, CallInv, BoundInv, AdvanceInv, AppliedInv,
       DeniedMeansNotApplied, Return
<1>4. CASE tries + 1 < AckReadAttempts /\ tries' = tries + 1
           /\ UNCHANGED <<pc, before, sent, writes, reply>>
  <2>1. TypeOK'
    BY <1>1, <1>4 DEF TypeOK
  <2>2. CallInv' /\ BoundInv' /\ DeniedMeansNotApplied'
    BY <1>1, <1>2, <1>4 DEF Inv, CallInv, BoundInv, DeniedMeansNotApplied
  <2>3. AdvanceInv' /\ AppliedInv'
    BY <1>1, <1>2, <1>4 DEF AdvanceInv, AppliedInv
  <2> QED BY <2>1, <2>2, <2>3 DEF Inv
<1>5. CASE ack = before /\ NotAdvanced
  <2>1. CASE /\ sent < kConfirmedSends
             /\ pc' = "write" /\ sent' = sent + 1 /\ writes' = 0 /\ tries' = 0
             /\ UNCHANGED reply
    <3>1. TypeOK'
      BY <1>1, <2>1 DEF TypeOK, kConfirmedSends
    <3>2. CallInv' /\ DeniedMeansNotApplied'
      BY <1>1, <1>2, <2>1 DEF Inv, CallInv, DeniedMeansNotApplied, TypeOK, kConfirmedSends
    <3>3. BoundInv'
      BY <1>1, <2>1 DEF BoundInv, CallInv, TypeOK, kConfirmedSends
    <3>4. AdvanceInv' /\ AppliedInv'
      BY <1>1, <1>2, <2>1 DEF AdvanceInv, AppliedInv
    <3> QED BY <3>1, <3>2, <3>3, <3>4 DEF Inv
  <2>2. CASE Return("not_applied")
    <3>1. TypeOK'
      BY <1>1, <2>2 DEF TypeOK, Return, Replies
    <3>2. CallInv' /\ BoundInv' /\ AdvanceInv' /\ AppliedInv'
      BY <1>1, <2>2 DEF CallInv, BoundInv, AdvanceInv, AppliedInv, Return
    <3>3. ~cut => counted = 0
      BY <1>1, <1>5, NotAdvancedMeansUncounted
    <3>4. DeniedMeansNotApplied'
      BY <1>1, <2>2, <3>3 DEF DeniedMeansNotApplied, Return, TypeOK
    <3> QED BY <3>1, <3>2, <3>4 DEF Inv
  <2> QED BY <1>5, <2>1, <2>2 DEF NotAdvanced
<1>6. ASSUME NEW o \in crumbs_ack_classify(before, ack, frame), Decide(o)
      PROVE  \/ \E r \in Replies \ {"not_sent", "not_applied"} : Return(r)
             \/ ack = before /\ NotAdvanced
  <2>1. o = "SET_NOT_ADVANCED" => ack = before
    BY <1>1, Classified DEF TypeOK
  <2> QED BY <1>6, <2>1 DEF Decide, Replies
<1> QED
  BY <1>3, <1>4, <1>5, <1>6 DEF ReadAck, read_ack, Replies

LEMMA NextInv == Inv /\ [Next]_vars => Inv'
<1> SUFFICES ASSUME Inv, [Next]_vars PROVE Inv'
  OBVIOUS
<1>1. CASE UNCHANGED vars
  BY <1>1 DEF vars, Inv, TypeOK, CallInv, BoundInv, AdvanceInv, AppliedInv,
     DeniedMeansNotApplied, Confirmed, set_confirmation
<1> QED
  BY <1>1, CallKeepsInv, RebootKeepsInv, BaselineKeepsInv, WriteKeepsInv, AckKeepsInv
  DEF Next, Step

\* set_confirm.cpp, transmit_confirmed: the inductive invariant of a setter call.
THEOREM Invariance == Spec => []Inv
<1>1. Init => Inv
  BY InitInv
<1>2. Inv /\ [Next]_vars => Inv'
  BY NextInv
<1> QED BY <1>1, <1>2, PTL DEF Spec

\* Every counter, index and record of a setter call has its type: in particular
\* the device counts at most MaxWrites of its frames.
THEOREM TypeCorrect == Spec => []TypeOK
BY Invariance, PTL DEF Inv

\* A call that says "not sent", or "not applied" of a device that kept its power,
\* is right.
THEOREM DenialCorrect == Spec => []DeniedMeansNotApplied
BY Invariance, PTL DEF Inv

\* A confirmed call returns OK only when the device has acted on its frame since
\* it last booted or, on firmware that does not refuse, has handled it since.
THEOREM OkCorrect == Spec => OkMeansConfirmed
<1> DEFINE P == reply' = "ok" /\ reply # "ok" =>
                  /\ set_confirmation(device) = "Acknowledged" => live' > 0
                  /\ set_confirmation(device) = "DeliveryOnly" => handled' > 0
<1>1. Inv /\ [Next]_vars => [P]_vars
  <2> SUFFICES ASSUME Inv, Next, reply' = "ok", reply # "ok", Confirmed
               PROVE  handled' > 0 /\ (device.refuses => live' > 0)
    BY DEF Confirmed, set_confirmation
  <2>1. ~Write
    BY DEF Write, Return, Confirmed
  <2>2. ReadAck
    BY <2>1 DEF Next, Step, Call, Reboot, ReadBaseline, read_ack, Return
  <2>3. "SET_APPLIED" \in crumbs_ack_classify(before, ack, frame)
    BY <2>2 DEF ReadAck, read_ack, Return, Decide, NotAdvanced
  <2>4. ack # before /\ ack.status = "APPLIED"
    BY <2>3, Classified DEF Inv, TypeOK
  <2> QED BY <2>2, <2>4 DEF Inv, AppliedInv, ReadAck
<1> QED BY <1>1, Invariance, PTL DEF Spec, OkMeansConfirmed

\* The confirmed-send loop repeats no frame that a device, powered throughout,
\* has counted.
THEOREM ResendCorrect == Spec => ResendOnlyIfUncounted
<1> DEFINE P == pc = "ack" /\ pc' = "write" /\ ~cut => counted = 0
<1>1. Inv /\ [Next]_vars => [P]_vars
  <2> SUFFICES ASSUME Inv, Next, pc = "ack", pc' = "write", ~cut
               PROVE  counted = 0
    OBVIOUS
  <2>1. ReadAck
    BY DEF Next, Step, Call, Reboot, ReadBaseline, Write
  <2>2. "SET_NOT_ADVANCED" \in crumbs_ack_classify(before, ack, frame)
    BY <2>1 DEF ReadAck, read_ack, Return, Decide, NotAdvanced
  <2>3. ack = before
    BY <2>2, Classified DEF Inv, TypeOK
  <2> QED BY <2>3, NotAdvancedMeansUncounted
<1> QED BY <1>1, Invariance, PTL DEF Spec, ResendOnlyIfUncounted
=============================================================================
