------------------------------- MODULE Signals -------------------------------
(***************************************************************************)
(* The signals of a device: those the inventory declares                   *)
(* (src/src/devices/common/inventory.cpp) and those the adapters make of a *)
(* GET_STATE reply (read_signals in src/src/devices/rlht/rlht_adapter.cpp  *)
(* and src/src/devices/dcmt/dcmt_adapter.cpp).                             *)
(*                                                                         *)
(* A reply is the mode, the number of bytes, the fields that hold          *)
(* BREAD_INVALID_I16 and the thermocouple each channel follows.  A value   *)
(* served is the signal, the field of the reply it was taken from and its  *)
(* quality: the number itself is the field's.                              *)
(***************************************************************************)
EXTENDS Integers

\* The two halves of a declaration or a reply, one for each channel or motor.
Pair(a, b) == {a, b}

RlhtSignals ==
    {"mode", "estop"} \cup Pair("t1_c", "t2_c")
    \cup Pair("setpoint1_c", "setpoint2_c") \cup Pair("period1_ms", "period2_ms")
    \cup Pair("on1_ms", "on2_ms") \cup Pair("relay1_on", "relay2_on")
    \cup Pair("channel1_thermocouple", "channel2_thermocouple")

DcmtSignals ==
    {"mode", "estop", "estop_count"} \cup Pair("motor1_target", "motor2_target")
    \cup Pair("motor1_value", "motor2_value")
    \cup Pair("motor1_brake", "motor2_brake")

\* Mutant: estop_count is declared whatever the firmware.
DeclaredSignals_Always(kind, flags) ==
    IF kind = "Dcmt" THEN DcmtSignals ELSE RlhtSignals \cup {"estop_count"}

\* The add_signal calls: an RLHT declares estop_count only where it advertises
\* it.
DeclaredSignals(kind, flags) ==
    IF kind = "Dcmt" THEN DcmtSignals
    ELSE RlhtSignals \cup ({"estop_count"} \cap flags)

-----------------------------------------------------------------------------
(* external: what the device replies. *)

FullLength == 20  \* with estop_count; an RLHT may leave it out

\* The signed fields that have a meaning in each mode of a DCMT; the others
\* hold the sentinel.
Meaningful(mode) ==
    CASE mode = "open_loop"       -> Pair("m1_pwm", "m2_pwm")
      [] mode = "closed_position" -> Pair("sp1", "sp2") \cup Pair("pos1", "pos2")
      [] OTHER                    -> Pair("sp1", "sp2") \cup Pair("spd1", "spd2")

SignedFields == UNION {Meaningful(m) : m \in {"open_loop", "closed_position",
                                              "closed_speed"}}

Reply(mode, length, invalid, tc) ==
    [mode |-> mode, length |-> length, invalid |-> invalid, tc |-> tc]

\* The replies of a device in a mode whose setpoints on the channels of sentinel
\* read as the sentinel: a thermocouple may be open, a speed unknown and a
\* selection byte anything.  The mode byte of an RLHT is one of its two: the
\* adapter takes every byte but open_loop's for closed_loop.
RlhtReplies(mode, sentinel) ==
    {Reply(mode, n,
           open \cup {IF i = 1 THEN "setpoint1_c" ELSE "setpoint2_c" : i \in sentinel},
           tc) :
        n \in {FullLength - 1, FullLength}, open \in SUBSET Pair("t1_c", "t2_c"),
        tc \in {<<1, 2>>, <<0, 1>>, <<2, 3>>}}

\* The fields of a DCMT's reply that hold the sentinel in any case; a position is
\* always known.
Unused(mode, sentinel) ==
    (SignedFields \ Meaningful(mode))
    \cup {IF i = 1 THEN "sp1" ELSE "sp2" : i \in sentinel}

\* The mode byte may be one that names no mode.
DcmtReplies(mode, sentinel) ==
    UNION {UNION {{Reply(m, n, Unused(mode, sentinel) \cup unknown, <<1, 2>>) :
                       n \in {FullLength - 1, FullLength}} :
                  m \in {mode, "unknown"}} :
           unknown \in SUBSET Pair("spd1", "spd2")}

StateReplies(kind, mode, sentinel) ==
    IF kind = "Rlht" THEN RlhtReplies(mode, sentinel)
                     ELSE DcmtReplies(mode, sentinel)

-----------------------------------------------------------------------------
(* The adapters. *)

\* dcmt parse_state: the whole layout, and the fields its mode needs.
dcmt_parse_state(r) ==
    /\ r.length = FullLength
    /\ r.mode \in {"open_loop", "closed_position", "closed_speed"}
    /\ r.mode \in {"closed_position", "closed_speed"}
           => r.invalid \cap Pair("sp1", "sp2") = {}
    /\ r.mode = "closed_speed" => r.invalid \cap Pair("spd1", "spd2") = {}

\* Mutant: a reply without the byte is served, estop_count as 0.
rlht_parse_state_Short(r, flags) == TRUE

\* rlht parse_state, and the refusal of a reply without the estop_count that
\* the firmware advertises.
rlht_parse_state(r, flags) == "estop_count" \in flags => r.length = FullLength

parse_state(kind, flags, r) == IF kind = "Rlht" THEN rlht_parse_state(r, flags)
                                                ELSE dcmt_parse_state(r)

\* The field of each signal: in a DCMT the targets and values are those of its
\* mode; in an RLHT, and for the rest, the field of that name.
Field(kind, id, mode) ==
    LET n(a, b) == CASE id \in {"motor1_target", "motor1_value"} -> a
                     [] OTHER                                    -> b
    IN  CASE id \in Pair("motor1_target", "motor2_target") ->
               IF mode = "open_loop" THEN n("m1_pwm", "m2_pwm") ELSE n("sp1", "sp2")
          [] id \in Pair("motor1_value", "motor2_value") ->
               CASE mode = "open_loop"       -> n("m1_pwm", "m2_pwm")
                 [] mode = "closed_position" -> n("pos1", "pos2")
                 [] OTHER                    -> n("spd1", "spd2")
          [] OTHER -> id

\* thermocouple_signal: a selection is 1 or 2.
Selection(id, r) == IF id = "channel1_thermocouple" THEN r.tc[1] ELSE r.tc[2]

\* Mutant: the sentinel is divided like any temperature (#109).
quality_Ok(kind, id, r) == "OK"

\* deci_c_signal and thermocouple_signal; a DCMT serves only what parse_state
\* accepted.
quality(kind, id, r) ==
    IF kind = "Rlht" /\ id \in r.invalid THEN "FAULT"
    ELSE IF id \in Pair("channel1_thermocouple", "channel2_thermocouple")
    THEN IF Selection(id, r) \in 1..2 THEN "OK" ELSE "FAULT"
    ELSE "OK"

\* is_default_signal: the measured values and the state of the outputs.
is_default_signal(kind) ==
    IF kind = "Rlht" THEN Pair("t1_c", "t2_c") \cup Pair("relay1_on", "relay2_on")
    ELSE Pair("motor1_value", "motor2_value") \cup Pair("motor1_brake", "motor2_brake")

\* should_include, for the ids of the request; none means the default set.
should_include(kind, ids) == IF ids = {} THEN is_default_signal(kind) ELSE ids

\* What the adapter can serve, each value under its condition.
Readable(kind, flags) ==
    IF kind = "Dcmt"
    THEN {"mode", "motor1_target", "motor2_target", "motor1_value", "motor2_value",
          "motor1_brake", "motor2_brake", "estop", "estop_count"}
    ELSE {"mode", "t1_c", "t2_c", "setpoint1_c", "setpoint2_c", "period1_ms",
          "period2_ms", "on1_ms", "on2_ms", "channel1_thermocouple",
          "channel2_thermocouple", "relay1_on", "relay2_on", "estop"}
         \cup (IF "estop_count" \in flags THEN {"estop_count"} ELSE {})

\* read_signals of a reply that was parsed.
Serve(kind, flags, r, ids) ==
    {[id |-> id, field |-> Field(kind, id, r.mode), q |-> quality(kind, id, r)] :
        id \in Readable(kind, flags) \cap should_include(kind, ids)}
=============================================================================
