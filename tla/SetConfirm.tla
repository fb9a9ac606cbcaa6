------------------------------ MODULE SetConfirm ------------------------------
(***************************************************************************)
(* One setter call on one device (src/src/devices/common/set_confirm.cpp): *)
(* transmit_confirmed reads the device's acknowledgement record (GET_ACK)  *)
(* as a baseline, sends the frame, reads the record again, and decides     *)
(* from the two records whether the device applied the frame, refused it,  *)
(* or has to be sent it again.                                             *)
(*                                                                         *)
(* The bus may report an error for a frame the device took, or success for *)
(* one it did not; the device may refuse or reject a frame, and may lose   *)
(* power at any step.  The device's record and its classification are      *)
(* external (CRUMBS), modelled from the canned bus, the tests and the      *)
(* outcomes transmit_confirmed distinguishes.                              *)
(***************************************************************************)
EXTENDS Integers

CONSTANTS Ops,              \* command opcodes
          NoOp,             \* the opcode of a device that counted nothing yet
          Modulus,          \* the record's counter wraps here (256 on the wire)
          RetryCount,       \* SessionOptions::retry_count
          AckReadAttempts   \* CRUMBS_ACK_READ_ATTEMPTS

kConfirmedSends == 3

\* A call writes its frame at most this often; the counter must not wrap
\* within one call (255 writes would be needed on the wire).
MaxWrites == kConfirmedSends * (RetryCount + 1)

ASSUME ConfirmAssumption ==
    /\ NoOp \notin Ops
    /\ RetryCount \in Nat
    /\ AckReadAttempts \in Nat \ {0}
    /\ Modulus \in Nat /\ Modulus > MaxWrites

VARIABLES
    device,   \* what the probe found: CRUMBS version and REFUSES capability
    ack,      \* external: the device's record [counter, opcode, status]
    pc,       \* where transmit_confirmed is
    frame,    \* the opcode of the frame being sent
    before,   \* the baseline record
    sent,     \* the confirmed-send loop counter
    writes,   \* session.send: transfers of the current send so far
    tries,    \* read_ack: queries of the current read so far
    reply,    \* what the call returned
    counted,  \* history: times the device counted this call's frame
    handled,  \* history: since it last booted, times a handler got this frame
    live,     \* history: of those, the times the device acted on it
    cut       \* history: the device lost power during the call

vars == <<device, ack, pc, frame, before, sent, writes, tries, reply, counted,
          handled, live, cut>>

Counters   == 0..(Modulus - 1)
AckStatus  == {"APPLIED", "REFUSED", "REJECTED"}
Fresh      == [counter |-> 0, opcode |-> NoOp, status |-> "NONE"]
AckRecords == [counter : Counters, opcode : Ops, status : AckStatus]
                 \cup {Fresh}
Devices    == [acks : BOOLEAN, refuses : BOOLEAN]

\* refusal_for, NOT_ADVANCED on every send, and the errors that say the
\* outcome is unknown, by what they tell the caller about the frame.
Replies == {"none", "ok", "refused", "rejected", "not_sent", "unconfirmed",
            "not_applied", "write_failed"}

set_confirmation(d) ==
    IF ~d.acks THEN "Unconfirmed"
    ELSE IF d.refuses THEN "Acknowledged" ELSE "DeliveryOnly"

\* crumbs_ack_classify.  Records more than one command apart are classified
\* by CRUMBS either way, so both outcomes are possible here.
crumbs_ack_classify(b, a, opcode) ==
    LET byStatus == CASE a.status = "APPLIED"  -> "SET_APPLIED"
                      [] a.status = "REFUSED"  -> "SET_REFUSED"
                      [] a.status = "REJECTED" -> "SET_REJECTED"
    IN  IF a.status = "NONE" THEN {"ACK_UNKNOWN"}
        ELSE IF a = b THEN {"SET_NOT_ADVANCED"}
        ELSE IF a.counter = (b.counter + 1) % Modulus
             THEN {IF a.opcode = opcode THEN byStatus ELSE "ACK_MISMATCH"}
        ELSE {"ACK_UNKNOWN"}
             \cup {o \in {byStatus} : a.opcode = opcode /\ a.counter # b.counter}

\* Mutant: one transfer more than the retry policy allows.
SendEnds_OneMore(code, n) == code # "Failed" \/ n = RetryCount + 2

\* execute_with_retry, for the transfers of one session.send.
SendEnds(code, n) == code # "Failed" \/ n = RetryCount + 1

Init ==
    /\ device \in Devices
    /\ ack \in AckRecords  \* boards keep running when the provider restarts
    /\ ack.status = "REFUSED" => device.refuses
    /\ ~device.acks => ack = Fresh
    /\ pc = "idle" /\ frame = NoOp /\ before = Fresh
    /\ sent = 0 /\ writes = 0 /\ tries = 0
    /\ reply = "none"
    /\ counted = 0 /\ handled = 0 /\ live = 0 /\ cut = FALSE

-----------------------------------------------------------------------------

Return(r) ==
    /\ pc' = "idle" /\ reply' = r
    /\ UNCHANGED <<sent, writes, tries>>

\* transmit_confirmed is entered: without GET_ACK the frame is sent at once.
Call(op) ==
    /\ pc = "idle"
    /\ frame' = op
    /\ pc' = IF set_confirmation(device) = "Unconfirmed" THEN "write" ELSE "baseline"
    /\ sent' = 1 /\ writes' = 0 /\ tries' = 0 /\ reply' = "none"
    /\ counted' = 0 /\ handled' = 0 /\ live' = 0 /\ cut' = FALSE
    /\ UNCHANGED <<device, ack, before>>

\* read_ack: one query_read.  A transport failure ends the read; a reply that
\* is no GET_ACK record is read again, up to AckReadAttempts; OnAck continues
\* with the record, OnFail when there is none.
read_ack(OnFail, OnAck) ==
    \/ OnFail
    \/ /\ tries + 1 < AckReadAttempts
       /\ tries' = tries + 1
       /\ UNCHANGED <<pc, before, sent, writes, reply>>
    \/ OnAck

\* Mutant: the record of an earlier call is kept as the baseline.
ReadBaseline_Stale ==
    /\ pc = "baseline"
    /\ read_ack(/\ Return("not_sent")
                /\ UNCHANGED before,
                /\ pc' = "write" /\ writes' = 0 /\ tries' = 0
                /\ UNCHANGED <<before, sent, reply>>)
    /\ UNCHANGED <<device, ack, frame, counted, handled, live, cut>>

ReadBaseline ==
    /\ pc = "baseline"
    /\ read_ack(/\ Return("not_sent")
                /\ UNCHANGED before,
                /\ before' = ack
                /\ pc' = "write" /\ writes' = 0 /\ tries' = 0
                /\ UNCHANGED <<sent, reply>>)
    /\ UNCHANGED <<device, ack, frame, counted, handled, live, cut>>

\* external: the device takes a command frame and counts it.  CRUMBS rejects one
\* it has no handler for; a handler that got it may refuse it on firmware with
\* *_CAP_REFUSES.  There APPLIED says the device acted on the frame; on other
\* firmware it says only that the frame was handled, and a tripped board, say,
\* ignores it.
Take(status, acted) ==
    /\ status = "REFUSED" => device.refuses
    /\ acted => status = "APPLIED"
    /\ status = "APPLIED" /\ device.refuses => acted
    /\ ack' = [counter |-> (ack.counter + 1) % Modulus, opcode |-> frame,
               status |-> status]
    /\ counted' = counted + 1
    /\ handled' = IF status = "REJECTED" THEN handled ELSE handled + 1
    /\ live' = IF acted THEN live + 1 ELSE live

Lose == UNCHANGED <<ack, counted, handled, live>>

\* One transfer of session.send(addr, frame), and what follows the last one:
\* on an acknowledging device the status is ignored and GET_ACK decides.
Write ==
    /\ pc = "write"
    /\ \/ Lose
       \/ \E s \in AckStatus, acted \in BOOLEAN : Take(s, acted)
    /\ \E code \in {"Ok", "Failed", "TimedOut"} :
          \/ /\ ~SendEnds(code, writes + 1)
             /\ writes' = writes + 1
             /\ UNCHANGED <<pc, sent, tries, reply>>
          \/ /\ SendEnds(code, writes + 1)
             /\ \/ /\ set_confirmation(device) = "Unconfirmed"
                   /\ Return(IF code = "Ok" THEN "ok" ELSE "write_failed")
                \/ /\ set_confirmation(device) # "Unconfirmed"
                   /\ pc' = "ack" /\ writes' = 0 /\ tries' = 0
                   /\ UNCHANGED <<sent, reply>>
    /\ UNCHANGED <<device, frame, before, cut>>

\* Mutant: the loop counter is not advanced.
NotAdvanced_Forever ==
    /\ pc' = "write" /\ writes' = 0 /\ tries' = 0
    /\ UNCHANGED <<sent, reply>>

\* NOT_ADVANCED: send again, up to kConfirmedSends sends in all.
NotAdvanced ==
    \/ /\ sent < kConfirmedSends
       /\ pc' = "write" /\ sent' = sent + 1 /\ writes' = 0 /\ tries' = 0
       /\ UNCHANGED reply
    \/ sent = kConfirmedSends /\ Return("not_applied")

\* Mutant: a record that says nothing certain is taken for NOT_ADVANCED.
Decide_UnknownIsNotAdvanced(outcome) ==
    \/ outcome = "SET_APPLIED"      /\ Return("ok")
    \/ outcome = "SET_REFUSED"      /\ Return("refused")
    \/ outcome = "SET_REJECTED"     /\ Return("rejected")
    \/ outcome \in {"SET_NOT_ADVANCED", "ACK_MISMATCH", "ACK_UNKNOWN"}
           /\ NotAdvanced

Decide(outcome) ==
    \/ outcome = "SET_APPLIED"      /\ Return("ok")
    \/ outcome = "SET_REFUSED"      /\ Return("refused")
    \/ outcome = "SET_REJECTED"     /\ Return("rejected")
    \/ outcome = "SET_NOT_ADVANCED" /\ NotAdvanced
    \/ outcome \in {"ACK_MISMATCH", "ACK_UNKNOWN"} /\ Return("unconfirmed")

\* Mutant: a record that cannot be read is taken for NOT_ADVANCED.
ReadAck_ResendIfUnread ==
    /\ pc = "ack"
    /\ read_ack(NotAdvanced /\ UNCHANGED before,
                /\ \E o \in crumbs_ack_classify(before, ack, frame) : Decide(o)
                /\ UNCHANGED before)
    /\ UNCHANGED <<device, ack, frame, counted, handled, live, cut>>

ReadAck ==
    /\ pc = "ack"
    /\ read_ack(Return("unconfirmed") /\ UNCHANGED before,
                /\ \E o \in crumbs_ack_classify(before, ack, frame) : Decide(o)
                /\ UNCHANGED before)
    /\ UNCHANGED <<device, ack, frame, counted, handled, live, cut>>

\* external: the device loses power and boots with no record; what it had
\* been told is gone.
Reboot ==
    /\ ack' = Fresh
    /\ handled' = 0 /\ live' = 0 /\ cut' = TRUE
    /\ UNCHANGED <<device, pc, frame, before, sent, writes, tries, reply,
                   counted>>

Step == ReadBaseline \/ Write \/ ReadAck

Next == Step \/ Reboot \/ \E op \in Ops : Call(op)

Spec == Init /\ [][Next]_vars

\* The handler thread keeps executing the call it is in: every query and
\* write returns, since the bus driver bounds each transfer.
FairSpec == Spec /\ WF_vars(Step)

-----------------------------------------------------------------------------
(* Properties *)

TypeOK ==
    /\ device \in Devices
    /\ ack \in AckRecords /\ before \in AckRecords
    /\ pc \in {"idle", "baseline", "write", "ack"}
    /\ frame \in Ops \cup {NoOp}
    /\ sent \in 0..kConfirmedSends
    /\ writes \in 0..RetryCount
    /\ tries \in 0..(AckReadAttempts - 1)
    /\ reply \in Replies
    /\ counted \in 0..MaxWrites /\ handled \in 0..counted /\ live \in 0..handled
    /\ cut \in BOOLEAN

Confirmed == set_confirmation(device) # "Unconfirmed"

\* What a confirmed OK says (set_confirm.hpp, SetConfirmation), whatever frames,
\* replies or power were lost on the way.  Acknowledged: the device has acted on
\* the frame since it last booted.  DeliveryOnly: the frame has reached the
\* device's handler since it last booted, acted on or not.
OkMeansConfirmed ==
    [][reply' = "ok" /\ reply # "ok" =>
         /\ set_confirmation(device) = "Acknowledged" => live' > 0
         /\ set_confirmation(device) = "DeliveryOnly" => handled' > 0]_vars

\* "not sent" and "not applied" are never said of a frame that reached the
\* device, as long as it keeps its power: a reboot can put its counter back on
\* the baseline.
DeniedMeansNotApplied ==
    reply = "not_sent" \/ (reply = "not_applied" /\ ~cut) => counted = 0

\* The confirmed-send loop re-sends a frame only while the device, powered
\* throughout, has counted none of this call's frames: a refused or rejected
\* frame is not repeated and an applied one is not applied again by the loop.
ResendOnlyIfUncounted ==
    [][pc = "ack" /\ pc' = "write" /\ ~cut => counted = 0]_vars

\* set_confirm.hpp: "A device below CRUMBS 1600 gets the frame written once and
\* an OK": such a device takes the frame of a call at most once.
WrittenOnce == ~Confirmed => counted <= 1

\* A call returns, however the bus and the device behave.
CallReturns == pc # "idle" ~> pc = "idle"

-----------------------------------------------------------------------------
(* The inductive invariant behind the safety properties above. *)

\* What the pc says of the call: its frame is a command, nothing was sent before
\* the baseline is known, and only a call that returned has a reply.
CallInv ==
    /\ pc # "idle" => frame \in Ops /\ sent >= 1 /\ reply = "none"
    /\ pc \in {"baseline", "ack"} => Confirmed
    /\ pc = "baseline" => counted = 0

\* The device counts at most the writes made so far.
BoundInv ==
    LET Before(n) == CASE n = 1 -> 0
                       [] n = 2 -> RetryCount + 1
                       [] OTHER -> 2 * (RetryCount + 1)
    IN  /\ pc = "write" => counted <= Before(sent) + writes
        /\ pc = "ack" => counted <= Before(sent) + RetryCount + 1

\* A device that kept its power has moved on from the baseline by what it counted,
\* and its record is of this call's frame as soon as it counted one.
AdvanceInv ==
    Confirmed /\ pc \in {"write", "ack"} /\ ~cut =>
        /\ \/ ack.counter = before.counter + counted
           \/ ack.counter = before.counter + counted - Modulus
        /\ counted = 0 => ack = before

\* A record that says APPLIED is the one the call found, or this boot's own: then
\* the frame was handled, and acted on by firmware that would have refused.
AppliedInv ==
    Confirmed /\ pc \in {"write", "ack"} /\ ack.status = "APPLIED" =>
        \/ ack = before
        \/ handled > 0 /\ (device.refuses => live > 0)

Inv == TypeOK /\ CallInv /\ BoundInv /\ AdvanceInv /\ AppliedInv
          /\ DeniedMeansNotApplied
=============================================================================
