---------------------------- MODULE DeviceAdapter ----------------------------
(***************************************************************************)
(* One call or read of one device: what the inventory declares of its      *)
(* functions (src/src/devices/common/inventory.cpp), the gate of           *)
(* BreadProviderRuntime::call (src/src/core/bread_provider_runtime.cpp),   *)
(* the validation and encoding of build_frame, the checks of transmit and  *)
(* the decoding of read_signals (src/src/devices/dcmt/dcmt_adapter.cpp,    *)
(* src/src/devices/rlht/rlht_adapter.cpp).                                 *)
(*                                                                         *)
(* A call has a function id and a value for each of two channels, a mode,  *)
(* or no usable argument.  RLHT setpoints are given in hundredths of a     *)
(* degree.  Six PID gains are two here, and the loop that a frame of gains *)
(* tunes is its function.  The confirmation of a frame is SetConfirm's,    *)
(* seen here by what became of the frame and what was answered.  The       *)
(* device is external: it decodes the bytes of the payload and applies     *)
(* them.                                                                   *)
(***************************************************************************)
EXTENDS Signals, Sequences

CONSTANTS RlhtProfiles, DcmtProfiles, \* sets of capability flags of firmware
          Values,    \* pairs of channel values a caller may ask for
          Requests,  \* sets of signal ids a caller may read
          MaxEvents  \* bound: failed operations and brakes engaged

Flags == {"mode", "setpoint", "pid", "period", "tc", "duty",  \* RLHT
          "open", "brake", "position", "speed",               \* DCMT, and "pid"
          "estop_count",                                      \* RLHT
          "watchdog", "clear", "refuses"}                     \* both

Modes == {"open_loop", "closed_loop", "closed_position", "closed_speed"}

\* An argument: two channel values, a mode, or missing.
Arg(t, m, v) == [t |-> t, m |-> m, v |-> v]
NoArg == Arg("missing", "", <<0, 0>>)
Arguments == {Arg("pair", "", v) : v \in Values}
             \cup {Arg("mode", m, <<0, 0>>) : m \in Modes}
             \cup {NoArg}

ASSUME AdapterAssumption ==
    /\ RlhtProfiles \cup DcmtProfiles \subseteq SUBSET Flags
    /\ Values \subseteq Int \X Int
    /\ Requests \subseteq SUBSET (RlhtSignals \cup DcmtSignals)
    /\ MaxEvents \in Nat

VARIABLES
    kind, encoders,  \* the inventory device; encoders is of its DeviceSpec
    flags,           \* the capability flags it advertises
    acks,            \* whether its CRUMBS has GET_ACK (1600 or later)
    session,         \* whether there is a session: not in a build without hardware
    mode, brakes,    \* external: the device's mode, its engaged brakes
    sentinel,        \* external: channels whose setpoint is BREAD_INVALID_I16
    applied,         \* history: the command it applied in this call
    pc, f, arg,      \* the handler: the call's function id and argument
    frame,           \* the frame built
    code,            \* the status returned to the caller
    ids, reply,      \* a read: the signals asked for, the device's reply
    values,          \* the signal values returned
    rejected,        \* the read counted a rejection (Session::record_rejection)
    braked,          \* history: brakes engaged since the call began
    blind,           \* history: the state could not be read in this call
    events           \* history: external events so far

device == <<mode, brakes, sentinel, applied>>
call   == <<pc, f, arg, frame, code, braked, blind>>
read   == <<ids, reply, values, rejected>>
config == <<kind, encoders, flags, acks, session>>
vars   == <<config, device, call, read, events>>

-----------------------------------------------------------------------------
(* What the inventory declares: build_rlht_capabilities and                *)
(* build_dcmt_capabilities.                                                *)

Loops == {"position", "speed"}

\* The flags build_capabilities sees: a DCMT configured without encoders has
\* its loops and their tuning dropped (#179).
OfferedFlags == IF encoders THEN flags ELSE flags \ (Loops \cup {"pid"})

\* clear_watchdog_trip, on firmware that latches the trip.
ClearTrip == IF kind = "Rlht" THEN 7 ELSE 6

\* function_exists.
Offered(fn) ==
    \/ fn = ClearTrip /\ {"watchdog", "clear"} \subseteq OfferedFlags
    \/ /\ kind = "Rlht" /\ fn \in 1..6
       /\ <<"mode", "setpoint", "pid", "period", "tc", "duty">>[fn] \in OfferedFlags
    \/ /\ kind = "Dcmt"
       /\ \/ fn = 1 /\ "open" \in OfferedFlags
          \/ fn = 2 /\ "brake" \in OfferedFlags
          \/ fn = 3 /\ OfferedFlags \cap ({"open"} \cup Loops) # {}
          \/ fn = 4 /\ OfferedFlags \cap Loops # {}
          \/ fn = 5 /\ "pid" \in OfferedFlags
          \/ fn = 7 /\ {"pid", "speed"} \subseteq OfferedFlags

DeclaredModes ==
    IF kind = "Rlht" THEN {"open_loop", "closed_loop"}
    ELSE {"open_loop"}
         \cup (IF "position" \in OfferedFlags THEN {"closed_position"} ELSE {})
         \cup (IF "speed" \in OfferedFlags THEN {"closed_speed"} ELSE {})

\* The bounds of each channel's argument.
build_dcmt_capabilities(fn) ==
    CASE fn = 1 -> <<-255, 255>>
      [] fn = 2 -> <<0, 1>>
      [] fn = 4 -> <<-32768, 32767>>
      [] OTHER  -> <<0, 65535>>  \* 5 and 7

build_rlht_capabilities(fn) ==
    CASE fn = 2 -> <<-327680, 327670>>
      [] fn = 3 -> <<0, 255>>
      [] fn = 4 -> <<100, 10000>>
      [] fn = 5 -> <<1, 2>>
      [] OTHER  -> <<0, 100>>    \* 6

Declared(fn) == IF kind = "Rlht" THEN build_rlht_capabilities(fn)
                                 ELSE build_dcmt_capabilities(fn)

IsSetMode(fn) == fn = IF kind = "Rlht" THEN 1 ELSE 3

InDeclared(fn, a) ==
    IF fn = ClearTrip THEN TRUE
    ELSE IF IsSetMode(fn) THEN a.t = "mode" /\ a.m \in DeclaredModes
    ELSE a.t = "pair" /\ \A i \in 1..2 :
             Declared(fn)[1] <= a.v[i] /\ a.v[i] <= Declared(fn)[2]

-----------------------------------------------------------------------------
(* Encoding: append_u8, append_u16_le, append_i16_le, and back. *)

\* Mutant: the low byte is not masked.
append_u16_le_Unmasked(v) == <<v, (v \div 256) % 256>>

append_u16_le(v) == <<v % 256, (v \div 256) % 256>>

append_i16_le(v) == append_u16_le(v % 65536)

append_u8(v) == <<v % 256>>

read_u16_le(b) == b[1] + 256 * b[2]

read_i16_le(b) == LET u == read_u16_le(b) IN IF u < 32768 THEN u ELSE u - 65536

\* Mutant: truncation toward zero.
llround_Truncates(v) == IF v >= 0 THEN v \div 10 ELSE -((-v) \div 10)

\* std::llround(x * 10.0), of hundredths: half away from zero.
llround(v) == IF v >= 0 THEN (v + 5) \div 10 ELSE -((-v + 5) \div 10)

Both(Enc(_), v) == Enc(v[1]) \o Enc(v[2])

-----------------------------------------------------------------------------
(* build_frame: the arguments are checked and the payload encoded, in the  *)
(* order of the code: type, then range.                                    *)

Failure(c) == [code |-> c, fn |-> 0, m |-> "", bytes |-> <<>>]
Success(fn, m, b) == [code |-> "OK", fn |-> fn, m |-> m, bytes |-> b]

\* get_arg_int64, get_arg_uint64, get_arg_bool: both are there and of the type.
HasType(a, type) ==
    /\ a.t = "pair"
    /\ \A i \in 1..2 : CASE type = "uint64" -> a.v[i] >= 0
                        [] type = "bool"   -> a.v[i] \in {0, 1}
                        [] OTHER           -> TRUE

\* Mutant: the upper bound is excluded.
Checked_BelowMax(fn, a, type, lo, hi, bytes) ==
    IF ~HasType(a, type) THEN Failure("INVALID_ARGUMENT")
    ELSE IF \A i \in 1..2 : lo <= a.v[i] /\ a.v[i] < hi THEN Success(fn, "", bytes)
    ELSE Failure("OUT_OF_RANGE")

Checked(fn, a, type, lo, hi, bytes) ==
    IF ~HasType(a, type) THEN Failure("INVALID_ARGUMENT")
    ELSE IF \A i \in 1..2 : lo <= a.v[i] /\ a.v[i] <= hi THEN Success(fn, "", bytes)
    ELSE Failure("OUT_OF_RANGE")

\* set_mode; a mode byte is its name here.
CheckedMode(fn, a, modes) ==
    IF a.t = "mode" /\ a.m \in modes THEN Success(fn, a.m, <<>>)
                                     ELSE Failure("INVALID_ARGUMENT")

dcmt_build_frame(fn, a) ==
    CASE fn = 1 -> Checked(fn, a, "int64", -255, 255, Both(append_i16_le, a.v))
      [] fn = 2 -> Checked(fn, a, "bool", 0, 1, Both(append_u8, a.v))
      [] fn = 3 -> CheckedMode(fn, a, {"open_loop", "closed_position", "closed_speed"})
      [] fn = 4 -> Checked(fn, a, "int64", -32768, 32767, Both(append_i16_le, a.v))
      [] fn \in {5, 7} -> Checked(fn, a, "uint64", 0, 65535, Both(append_u16_le, a.v))
      [] fn = 6 -> Success(fn, "", <<>>)
      [] OTHER  -> Failure("NOT_FOUND")

\* The second check of set_setpoints, of the rounded value, never fails.
rlht_build_frame(fn, a) ==
    CASE fn = 1 -> CheckedMode(fn, a, {"open_loop", "closed_loop"})
      [] fn = 2 -> Checked(fn, a, "double", -327680, 327670,
                           Both(append_i16_le, [i \in 1..2 |-> llround(a.v[i])]))
      [] fn = 3 -> Checked(fn, a, "uint64", 0, 255, Both(append_u8, a.v))
      [] fn = 4 -> Checked(fn, a, "uint64", 100, 10000, Both(append_u16_le, a.v))
      [] fn = 5 -> Checked(fn, a, "uint64", 1, 2, Both(append_u8, a.v))
      [] fn = 6 -> Checked(fn, a, "uint64", 0, 100, Both(append_u8, a.v))
      [] fn = 7 -> Success(fn, "", <<>>)
      [] OTHER  -> Failure("NOT_FOUND")

\* adapter_for.
build_frame(fn, a) == IF kind = "Rlht" THEN rlht_build_frame(fn, a)
                                       ELSE dcmt_build_frame(fn, a)

-----------------------------------------------------------------------------
(* external: the device. *)

Event == events < MaxEvents /\ events' = events + 1

\* The two values of a payload, by the length of it.
Decode(fr) ==
    CASE Len(fr.bytes) = 2 -> fr.bytes
      [] Len(fr.bytes) = 4 ->
            LET lo == SubSeq(fr.bytes, 1, 2)
                hi == SubSeq(fr.bytes, 3, 4) IN
            IF fr.fn \in (IF kind = "Rlht" THEN {2} ELSE {1, 4})
            THEN <<read_i16_le(lo), read_i16_le(hi)>>
            ELSE <<read_u16_le(lo), read_u16_le(hi)>>
      [] OTHER -> <<0, 0>>

BREAD_IS_VALID_I16(v) == v # -32768

\* The replies the device can give to GET_STATE now.
States == StateReplies(kind, mode, sentinel)

NoState == Reply("open_loop", 0, {}, <<1, 2>>)

\* A frame that was applied on the channels of on.
Command(fr, on) == [fn |-> fr.fn, m |-> fr.m, v |-> Decode(fr), on |-> on]
NoCommand       == [fn |-> 0, m |-> "", v |-> <<0, 0>>, on |-> {}]

\* A slice that does not change one channel's thermocouple still changes the
\* other's (kTcSelectDescription).
ApplyOne(fr) ==
    /\ kind = "Rlht" /\ fr.fn = 5
    /\ \E i \in 1..2 : applied' = Command(fr, {i})
    /\ UNCHANGED <<mode, brakes, sentinel>>

Apply(fr) ==
    LET v == Decode(fr) IN
    /\ applied' = Command(fr, {1, 2})
    /\ mode' = IF IsSetMode(fr.fn) THEN fr.m ELSE mode
    /\ sentinel' = IF fr.fn = (IF kind = "Rlht" THEN 2 ELSE 4)
                   THEN {i \in 1..2 : ~BREAD_IS_VALID_I16(v[i])} ELSE sentinel
    /\ brakes' = IF kind = "Dcmt" /\ fr.fn = 2 THEN {i \in 1..2 : v[i] = 1}
                                               ELSE brakes

Init ==
    /\ \/ kind = "Rlht" /\ flags \in RlhtProfiles /\ encoders = TRUE
       \/ kind = "Dcmt" /\ flags \in DcmtProfiles /\ encoders \in BOOLEAN
    /\ session \in BOOLEAN /\ acks \in BOOLEAN
    /\ mode = "open_loop" /\ brakes = {} /\ sentinel = {} /\ applied = NoCommand
    /\ pc = "idle" /\ f = 0 /\ arg = NoArg
    /\ frame = Failure("NOT_FOUND") /\ code = "OK"
    /\ braked = FALSE /\ blind = FALSE /\ events = 0
    /\ ids = {} /\ reply = NoState /\ values = {} /\ rejected = FALSE

\* The brakes engage by themselves: a watchdog trip engages both.
EngageBrakes ==
    /\ kind = "Dcmt" /\ Event
    /\ brakes' = {1, 2} /\ braked' = TRUE
    /\ UNCHANGED <<config, mode, sentinel, applied, pc, f, arg, frame, code, blind,
                   read>>

-----------------------------------------------------------------------------
(* The call: gate, build_frame, transmit. *)

Answer(c) == pc' = "returned" /\ code' = c

\* Mutant: the encoders are not looked at.
AllowedMode_Any(fr) == TRUE

\* transmit refuses a closed loop to a DCMT without encoders.
AllowedMode(fr) ==
    ~encoders /\ kind = "Dcmt" /\ IsSetMode(fr.fn) => fr.m = "open_loop"

Call(fn, a) ==
    /\ pc = "idle"
    /\ f' = fn /\ arg' = a /\ braked' = FALSE /\ blind' = FALSE
    /\ frame' = build_frame(fn, a)
    /\ \/ ~Offered(fn) /\ Answer("NOT_FOUND")
       \/ Offered(fn) /\ frame'.code # "OK" /\ Answer(frame'.code)
       \/ /\ Offered(fn) /\ frame'.code = "OK"
          /\ IF session THEN pc' = "check" /\ code' = "OK" ELSE Answer("UNAVAILABLE")
    /\ UNCHANGED <<config, device, read, events>>

\* The channels a frame drives: those with a nonzero motor command.
Driven(fr) ==
    {i \in 1..2 : kind = "Dcmt" /\ fr.fn \in {1, 4} /\ Decode(fr)[i] # 0}

\* Mutant: a command is refused only if both motors are braked.
Braked_Both(fr) == Driven(fr) # {} /\ {1, 2} \subseteq brakes

Braked(fr) == Driven(fr) \cap brakes # {}

\* transmit, up to the sending: a nonzero motor command reads the brakes; if
\* the state cannot be read or parsed the command goes out.
Check ==
    /\ pc = "check"
    /\ \/ /\ Driven(frame) = {}
          /\ IF AllowedMode(frame) THEN pc' = "send" /\ UNCHANGED code
                                  ELSE Answer("INVALID_ARGUMENT")
          /\ UNCHANGED <<blind, events>>
       \/ /\ Driven(frame) # {} /\ UNCHANGED events
          /\ \E r \in States :
                IF ~parse_state(kind, flags, r)
                THEN pc' = "send" /\ blind' = TRUE /\ UNCHANGED code
                ELSE /\ IF Braked(frame) THEN Answer("FAILED_PRECONDITION")
                                         ELSE pc' = "send" /\ UNCHANGED code
                     /\ UNCHANGED blind
       \/ /\ Driven(frame) # {} /\ Event  \* the read fails
          /\ pc' = "send" /\ blind' = TRUE /\ UNCHANGED code
    /\ UNCHANGED <<config, device, f, arg, frame, braked, read>>

\* read_error_from_session and call_error_from_session.
error_from_session(session_code) ==
    CASE session_code = "Timeout"      -> "DEADLINE_EXCEEDED"
      [] session_code = "DecodeFailed" -> "INTERNAL"
      [] OTHER                         -> "UNAVAILABLE"

SessionErrors == {"Timeout", "DecodeFailed", "TransportError"}

\* The codes of a refused frame.
refusal_for == {"FAILED_PRECONDITION", "INVALID_ARGUMENT", "UNIMPLEMENTED"}

set_confirmation ==
    IF ~acks THEN "Unconfirmed"
    ELSE IF "refuses" \in flags THEN "Acknowledged" ELSE "DeliveryOnly"

\* transmit_confirmed, by the outcomes SetConfirm shows: what became of the frame
\* and what the caller is told.  An answer that does not say leaves open whether
\* the frame was applied.
Send ==
    /\ pc = "send"
    /\ \/ Apply(frame) /\ Answer("OK") /\ UNCHANGED events
       \/ /\ Event  \* lost unnoticed, or delivered and not acted on
          /\ set_confirmation # "Acknowledged" /\ Answer("OK")
          /\ ApplyOne(frame) \/ UNCHANGED device
       \/ /\ Event  \* failed, not applied or unconfirmed
          /\ IF set_confirmation = "Unconfirmed"
             THEN \E e \in SessionErrors : Answer(error_from_session(e))
             ELSE Answer("UNAVAILABLE")
          /\ Apply(frame) \/ ApplyOne(frame) \/ UNCHANGED device
       \/ /\ Event  \* refused
          /\ set_confirmation = "Acknowledged"
          /\ \E c \in refusal_for : Answer(c)
          /\ ApplyOne(frame) \/ UNCHANGED device
       \/ /\ Event  \* rejected
          /\ set_confirmation # "Unconfirmed" /\ Answer("INTERNAL")
          /\ UNCHANGED device
    /\ UNCHANGED <<config, f, arg, frame, braked, blind, read>>

\* The adapter's read of the aggregate state ends with code c; a reply that
\* came and is not served counts as a rejection.
Result(c, r, served, refused) ==
    Answer(c) /\ reply' = r /\ values' = served /\ rejected' = refused

\* read, and read_signals of the device's adapter: the aggregate state is
\* fetched and filtered, or an error returned.
Read(req) ==
    /\ pc = "idle"
    /\ ids' = req
    /\ \/ ~session /\ Result("UNAVAILABLE", NoState, {}, FALSE) /\ UNCHANGED events
       \/ /\ session /\ Event
          /\ \E e \in SessionErrors : Result(error_from_session(e), NoState, {}, FALSE)
       \/ /\ session /\ Event  \* another frame's header
          /\ Result("INTERNAL", NoState, {}, TRUE)
       \/ /\ session /\ UNCHANGED events
          /\ \E r \in States :
                IF parse_state(kind, flags, r)
                THEN Result("OK", r, Serve(kind, flags, r, req), FALSE)
                ELSE Result("INTERNAL", r, {}, TRUE)
    /\ UNCHANGED <<config, device, f, arg, frame, braked, blind>>

\* The answer is sent; the histories of the call are forgotten.
Done ==
    /\ pc = "returned"
    /\ applied' = NoCommand
    /\ pc' = "idle" /\ f' = 0 /\ arg' = NoArg
    /\ frame' = Failure("NOT_FOUND") /\ code' = "OK"
    /\ braked' = FALSE /\ blind' = FALSE
    /\ ids' = {} /\ reply' = NoState /\ values' = {} /\ rejected' = FALSE
    /\ UNCHANGED <<config, mode, brakes, sentinel, events>>

Next == \/ \E fn \in 1..8, a \in Arguments : Call(fn, a)
        \/ \E req \in Requests : Read(req)
        \/ Check \/ Send \/ Done \/ EngageBrakes

Spec == Init /\ [][Next]_vars

-----------------------------------------------------------------------------
(* Properties *)

Codes == {"OK", "INVALID_ARGUMENT", "OUT_OF_RANGE", "NOT_FOUND",
          "FAILED_PRECONDITION", "UNAVAILABLE", "INTERNAL",
          "DEADLINE_EXCEEDED", "UNIMPLEMENTED"}

TypeOK ==
    /\ kind \in {"Rlht", "Dcmt"} /\ encoders \in BOOLEAN /\ flags \subseteq Flags
    /\ session \in BOOLEAN /\ acks \in BOOLEAN
    /\ mode \in Modes /\ brakes \subseteq 1..2
    /\ sentinel \subseteq 1..2
    /\ pc \in {"idle", "check", "send", "returned"} /\ f \in 0..8 /\ arg \in Arguments
    /\ frame.code \in Codes /\ \A i \in DOMAIN frame.bytes : frame.bytes[i] \in 0..255
    /\ code \in Codes /\ braked \in BOOLEAN /\ blind \in BOOLEAN
    /\ events \in 0..MaxEvents
    /\ ids \in Requests \cup {{}} /\ reply \in States \cup {NoState}
    /\ rejected => code = "INTERNAL" /\ values = {}

Returned == pc = "returned" /\ f # 0

\* What the caller asked for, in the device's units: the nearest tenth of a
\* degree, and every other value as it is.
Nearest(v, d) == 20 * d - 10 <= 2 * v /\ 2 * v <= 20 * d + 10

\* What a call puts on the device is what its caller asked for, whatever firmware
\* it is, whatever the call returns, for every function and at every bound of its
\* range: no width, sign, byte order or rounding of the encoding changes a value
\* on the way.  An OK of acknowledging firmware says that all of it is there.
AppliedIsAsked ==
    Returned =>
        /\ applied # NoCommand =>
             /\ applied.fn = f
             /\ IF IsSetMode(f) THEN applied.m = arg.m
                ELSE f = ClearTrip \/ \A i \in applied.on :
                       IF kind = "Rlht" /\ f = 2 THEN Nearest(arg.v[i], applied.v[i])
                                                ELSE applied.v[i] = arg.v[i]
        /\ code = "OK" /\ set_confirmation = "Acknowledged" => applied.on = {1, 2}

\* The inventory and the adapters agree: what a function declares is accepted
\* by build_frame and, where nothing fails, by the device, and a channel value
\* outside it never reaches the bus.
DeclaredIsAccepted ==
    Returned /\ Offered(f) =>
        LET refused == code \in {"INVALID_ARGUMENT", "OUT_OF_RANGE", "NOT_FOUND"} IN
        /\ InDeclared(f, arg) /\ events = 0 => ~refused
        /\ ~IsSetMode(f) /\ ~InDeclared(f, arg) => refused /\ applied = NoCommand

\* No call takes a DCMT configured without encoders into a closed loop, though
\* set_mode is offered and build_frame takes every mode (#179).
NoLoopWithoutEncoders == kind = "Dcmt" /\ ~encoders => mode = "open_loop"

\* A motor command that is answered OK or that the device applied, whatever it was
\* answered, drives no motor whose brake was engaged when the call began (#202),
\* unless the state could not be read.
BrakedIsRefused ==
    Returned /\ (code = "OK" \/ applied # NoCommand) /\ ~braked /\ ~blind =>
        Driven(frame) \cap brakes = {}

\* A read is answered with what was asked for and declared: the inventory's
\* signals and the adapter's agree on every firmware, whichever flags it
\* advertises, and the default set is part of both.
ReadAsDeclared ==
    pc = "returned" /\ code = "OK" /\ reply # NoState =>
        LET got == {v.id : v \in values}
            known == DeclaredSignals(kind, OfferedFlags)
        IN  IF ids = {} THEN got # {} /\ got \subseteq known
                        ELSE got = ids \cap known

\* A value of quality OK is one the device has: not the sentinel of an open
\* thermocouple or of a field its mode does not use, not a byte that the reply
\* lacks, not a selection that names no thermocouple.
NoFabricatedValue ==
    \A v \in values :
        v.q = "OK" => /\ v.field \notin reply.invalid
                      /\ v.id = "estop_count" => reply.length = FullLength
                      /\ v.id = "channel1_thermocouple" => reply.tc[1] \in 1..2
                      /\ v.id = "channel2_thermocouple" => reply.tc[2] \in 1..2

\* The inventory declares motor targets from -32768: whatever declared target
\* is applied, the device's state can still be read.
DeclaredTargetIsReadable ==
    kind = "Dcmt" /\ events = 0 => \E r \in States : parse_state(kind, flags, r)

-----------------------------------------------------------------------------
(* The inductive invariant behind the safety properties above. *)

\* A call is at its frame until it returns; nothing but its frame is applied, and
\* not before it is sent.
CallInv ==
    /\ pc = "idle" => f = 0
    /\ pc # "returned" => applied = NoCommand
    /\ f # 0 => frame = build_frame(f, arg)
    /\ pc \in {"check", "send"} => f # 0 /\ Offered(f) /\ frame.code = "OK"
    /\ pc = "send" => AllowedMode(frame)
    /\ applied # NoCommand =>
           /\ f # 0 /\ frame.code = "OK"
           /\ \E on \in SUBSET (1..2) : applied = Command(frame, on)
    /\ Returned /\ code = "OK" /\ set_confirmation = "Acknowledged" =>
           applied = Command(frame, {1, 2})

\* Where a refusal comes from: the frame, the encoders or an event on the bus.
RefusalInv ==
    Returned /\ Offered(f) =>
        \/ frame.code # "OK" /\ code = frame.code /\ applied = NoCommand
        \/ /\ frame.code = "OK"
           /\ \/ code \notin {"INVALID_ARGUMENT", "OUT_OF_RANGE", "NOT_FOUND"}
              \/ events # 0 \/ ~AllowedMode(frame)

\* A device is in one of its own modes.
ModeInv ==
    /\ NoLoopWithoutEncoders
    /\ mode \in {"open_loop", "closed_loop"} \/ kind = "Dcmt"
    /\ mode # "closed_loop" \/ kind = "Rlht"

BrakeInv ==
    /\ pc = "send" /\ ~braked /\ ~blind => Driven(frame) \cap brakes = {}
    /\ BrakedIsRefused

\* Values are those of a reply of the device as it is that was parsed.
Served == /\ reply \in States /\ parse_state(kind, flags, reply)
          /\ values = Serve(kind, flags, reply, ids)

ReadInv ==
    /\ pc # "returned" \/ f # 0 =>
           reply = NoState /\ values = {} /\ ids = {} /\ ~rejected
    /\ values # {} => Served
    /\ pc = "returned" /\ code = "OK" /\ reply # NoState => Served

Inv == TypeOK /\ CallInv /\ RefusalInv /\ ModeInv /\ BrakeInv /\ ReadInv
=============================================================================
