--------------------------- MODULE ProviderRuntime ---------------------------
(***************************************************************************)
(* What the provider does to keep its devices safe: the outputs policy and *)
(* the watchdog arming of startup (src/src/core/runtime_state.cpp), the    *)
(* Read, Call and health handlers with the recovery they run               *)
(* (src/src/core/bread_provider_runtime.cpp), the safe-output sequence     *)
(* (src/src/devices/common/safe_outputs.cpp), the watchdog helpers         *)
(* (src/src/devices/common/watchdog.cpp), and the keepalive thread that    *)
(* queries the armed devices beside the handler until their first call.    *)
(*                                                                         *)
(* The session is what CrumbsSession shows it to be: per address the flags *)
(* last_op_failed_ and recovery_pending_.  A setter call is what SetConfirm *)
(* shows it to be: one step that delivers its frame or not, with an answer *)
(* that on an acknowledging device is OK only if the frame was delivered.  *)
(* Devices, bus faults, power cuts and the serial console are external.    *)
(***************************************************************************)
EXTENDS Integers, Sequences

CONSTANTS Devices,    \* the devices of the inventory
          NoDevice,   \* the handler works on no device
          Configs,    \* what a device can be: DeviceConfig records
          Policies,   \* provider.outputs_on_startup: "Safe", "Leave"
          MaxFaults   \* bound: bus faults and external events in a behaviour

\* kind: device type; wd: command_watchdog_ms > 0 and CMD_WATCHDOG advertised;
\* latch: CMD_WATCHDOG and CLEAR_WATCHDOG_TRIP advertised; acks: GET_ACK;
\* refuses: *_CAP_REFUSES.
DeviceConfig == [kind : {"Rlht", "Dcmt"}, wd : BOOLEAN, latch : BOOLEAN,
                 acks : BOOLEAN, refuses : BOOLEAN]

ASSUME RuntimeAssumption ==
    /\ NoDevice \notin Devices
    /\ Configs \subseteq DeviceConfig
    /\ Policies \subseteq {"Safe", "Leave"}
    /\ MaxFaults \in Nat

VARIABLES
    cfg, policy,      \* the configuration, fixed at start
    \* external, as sets of devices: those in closed loop, with a setpoint, with
    \* a duty (or PWM), with the command watchdog armed, and tripped
    closed, sp, duty, armed, tripped,
    failing,          \* Session::last_op_failed_
    pending,          \* Session::recovery_pending_
    metric,           \* RuntimeState::safe_outputs
    fed,              \* Keepalive: the devices it still feeds
    pc,               \* where the handler thread is
    cur,              \* the device it works on
    todo,             \* startup: the devices still to be done in this loop
    step, good,       \* safe_outputs::drive: next step, Result::ok
    starting,         \* initialize has not returned
    commanded,        \* history: devices driven by a Call since last set safe
    faults            \* history: external events so far

output   == <<closed, sp, duty>>
watchdog == <<armed, tripped>>
flags    == <<failing, pending>>
handler  == <<pc, cur, todo, step, good, starting>>
vars     == <<cfg, policy, output, watchdog, flags, metric, fed, handler,
              commanded, faults>>

-----------------------------------------------------------------------------
(* Devices.  An output is energised by a closed loop with a setpoint or by *)
(* an open loop with a duty.                                               *)

Frames == {"sp_zero", "sp_on", "closed", "open", "duty_zero", "duty_on", "clear"}

Off(d) == IF d \in closed THEN d \notin sp ELSE d \notin duty

\* A device with the latch obeys no actuating command while it is tripped; the
\* others are released by any command frame.
Obeys(d) == ~(cfg[d].latch /\ d \in tripped)

\* An RLHT slice ignores the duty in closed loop.
TakesDuty(d) == Obeys(d) /\ ~(cfg[d].kind = "Rlht" /\ d \in closed)

\* external: the device takes command frame f.
Deliver(d, f) ==
    /\ closed' = CASE f = "closed" /\ Obeys(d) -> closed \cup {d}
                   [] f = "open" /\ Obeys(d)   -> closed \ {d}
                   [] OTHER                    -> closed
    /\ sp' = CASE f = "sp_on" /\ Obeys(d)   -> sp \cup {d}
               [] f = "sp_zero" /\ Obeys(d) -> sp \ {d}
               [] OTHER                     -> sp
    /\ duty' = CASE f = "duty_on" /\ TakesDuty(d)   -> duty \cup {d}
                 [] f = "duty_zero" /\ TakesDuty(d) -> duty \ {d}
                 [] OTHER                           -> duty
    /\ tripped' = IF Obeys(d) \/ f = "clear" THEN tripped \ {d} ELSE tripped
    /\ UNCHANGED armed

Refused(d, f) == cfg[d].refuses /\ ~Obeys(d) /\ f # "clear"

\* external: SET_WATCHDOG arms; it releases a trip only without the latch.
Arm(d) ==
    /\ armed' = armed \cup {d}
    /\ tripped' = IF cfg[d].latch THEN tripped ELSE tripped \ {d}

\* Mutant: the duty goes out before the mode.
safe_output_steps_DutyFirst(kind) ==
    IF kind = "Dcmt" THEN <<"duty_zero", "open">>
                     ELSE <<"sp_zero", "duty_zero", "open">>

\* dcmt::safe_output_steps and rlht::safe_output_steps.
safe_output_steps(kind) ==
    IF kind = "Dcmt" THEN <<"open", "duty_zero">>
                     ELSE <<"sp_zero", "open", "duty_zero">>

-----------------------------------------------------------------------------
(* The session, as the handlers see it. *)

Fault   == faults < MaxFaults /\ faults' = faults + 1
NoFault == UNCHANGED faults

\* One operation on d, or several that all succeed.
Succeed(d) ==
    /\ failing' = failing \ {d}
    /\ pending' = IF d \in failing THEN pending \cup {d} ELSE pending

\* One operation that failed.
Fail(d) == failing' = failing \cup {d} /\ UNCHANGED pending

\* Several operations: a success followed a failure, and another failure that.
Recover(d)   == failing' = failing \ {d} /\ pending' = pending \cup {d}
FailAgain(d) == failing' = failing \cup {d} /\ pending' = pending \cup {d}

\* transmit_confirmed of frame f on d, with answer ok.
CallDevice(d, f, ok) ==
    \/ /\ Deliver(d, f) /\ ok = ~Refused(d, f)
       /\ \/ Succeed(d) /\ NoFault
          \/ Recover(d) /\ Fault  \* a failed write that GET_ACK shows applied
    \/ /\ Fault  \* the frame, its acknowledgement, or both are lost
       /\ Deliver(d, f) \/ UNCHANGED <<output, watchdog>>
       /\ \/ ok = FALSE /\ (Succeed(d) \/ Recover(d) \/ Fail(d) \/ FailAgain(d))
          \/ ok = TRUE /\ ~cfg[d].acks /\ Succeed(d)

\* One query on d whose reply is usable (ok) or not.
Query(d, ok) ==
    /\ \/ ok = TRUE /\ Succeed(d) /\ NoFault
       \/ ok = FALSE /\ (Succeed(d) \/ Fail(d)) /\ Fault
    /\ UNCHANGED <<output, watchdog>>

Init ==
    /\ cfg \in [Devices -> Configs] /\ policy \in Policies
    \* boards keep running while the provider is down
    /\ closed \in SUBSET Devices
    /\ sp \in SUBSET Devices /\ duty \in SUBSET Devices
    /\ armed \in SUBSET Devices /\ tripped \in SUBSET Devices
    \* and may have been armed under an earlier configuration
    /\ \A d \in armed \cup tripped : cfg[d].wd \/ cfg[d].latch
    /\ tripped \cap (sp \cup duty) = {}
    \* discovery has found every device, with or without failures on the way
    /\ failing = {} /\ pending \in SUBSET Devices
    /\ metric = [d \in Devices |-> "none"]
    /\ fed = {}
    /\ pc = "policy" /\ cur = NoDevice /\ todo = Devices
    /\ step = 1 /\ good = TRUE
    /\ starting = TRUE
    /\ commanded = Devices
    /\ faults = 0

-----------------------------------------------------------------------------
(* Startup: initialize_until, once the roster is known. *)

\* Mutant: off by one.
StartDrive_FromZero(d) ==
    /\ pc' = "drive" /\ cur' = d
    /\ step' = 0 /\ good' = TRUE

StartDrive(d) ==
    /\ pc' = "drive" /\ cur' = d
    /\ step' = 1 /\ good' = TRUE

\* apply_outputs_policy, for device d.
apply_outputs_policy(d) ==
    /\ pc = "policy" /\ d \in todo
    /\ todo' = todo \ {d}
    /\ \/ /\ policy = "Leave"
          /\ metric' = [metric EXCEPT ![d] = "left"]
          /\ UNCHANGED <<pc, cur, step, good>>
       \/ policy = "Safe" /\ StartDrive(d) /\ UNCHANGED metric
    /\ UNCHANGED <<cfg, policy, output, watchdog, flags, fed, starting, commanded,
                   faults>>

to_metric(ok) == IF ok THEN "set" ELSE "not set"

\* Result::ok after a step.
Result(before, ok) == before /\ ok

\* safe_outputs::drive, one step; after the last one, record_safe_outputs.
Drive ==
    /\ pc = "drive"
    /\ LET steps == safe_output_steps(cfg[cur].kind) IN
       /\ \E ok \in BOOLEAN :
             /\ CallDevice(cur, steps[step], ok)
             /\ good' = Result(good, ok)
       /\ \/ /\ step < Len(steps)
             /\ step' = step + 1
             /\ UNCHANGED <<pc, metric, commanded>>
          \/ /\ step = Len(steps)
             /\ metric' = [metric EXCEPT ![cur] = to_metric(good')]
             /\ commanded' = commanded \ {cur}
             /\ pc' = IF starting THEN "policy" ELSE "arm"
             /\ UNCHANGED step
    /\ UNCHANGED <<cfg, policy, fed, cur, todo, starting>>

StartArming ==
    /\ pc = "policy" /\ todo = {}
    /\ pc' = "arming" /\ todo' = Devices
    /\ UNCHANGED <<cfg, policy, output, watchdog, flags, metric, fed, cur, step,
                   good, starting, commanded, faults>>

\* Mutant: a trip is cleared before the watchdog is armed.
arm_if_configured_Clears(d) ==
    \/ /\ ~cfg[d].wd
       /\ UNCHANGED <<watchdog, flags, faults>>
    \/ /\ cfg[d].wd
       /\ armed' = armed \cup {d} /\ tripped' = tripped \ {d}
       /\ Succeed(d) /\ NoFault

\* arm_if_configured: one unconfirmed send, whose failure is only logged.
arm_if_configured(d) ==
    \/ /\ ~cfg[d].wd
       /\ UNCHANGED <<watchdog, flags, faults>>
    \/ /\ cfg[d].wd
       /\ \/ Arm(d) /\ Succeed(d) /\ NoFault
          \/ Fault /\ (Arm(d) \/ UNCHANGED watchdog) /\ (Fail(d) \/ Succeed(d))

ArmAtStartup(d) ==
    /\ pc = "arming" /\ d \in todo
    /\ arm_if_configured(d)
    /\ todo' = todo \ {d}
    /\ UNCHANGED <<cfg, policy, output, metric, fed, pc, cur, step, good,
                   starting, commanded>>

\* keepalive->start() and the publication of the snapshot: ready.
Publish ==
    /\ pc = "arming" /\ todo = {}
    /\ pc' = "idle" /\ starting' = FALSE
    /\ fed' = {d \in Devices : cfg[d].wd}
    /\ UNCHANGED <<cfg, policy, output, watchdog, flags, metric, cur, todo, step,
                   good, commanded, faults>>

-----------------------------------------------------------------------------
(* The handlers: one request at a time. *)

\* Mutant: nothing consumes the recovery signal.
AfterOperation_NoRecovery(d, ok) == pc' = "idle" /\ cur' = d

\* An adapter operation ended: a successful one is followed by
\* handle_recovery.
AfterOperation(d, ok) ==
    /\ pc' = IF ok THEN "recover" ELSE "idle"
    /\ cur' = d

\* read: note_contact stops the feeding of d, then the adapter queries it.
Read(d) ==
    /\ pc = "idle"
    /\ fed' = fed \ {d}
    /\ \E ok \in BOOLEAN : Query(d, ok) /\ AfterOperation(d, ok)
    /\ UNCHANGED <<cfg, policy, metric, todo, step, good, starting, commanded>>

\* call: function f of d, offered only where the device has it.
Call(d, f) ==
    /\ pc = "idle"
    /\ f = "clear" => cfg[d].latch
    /\ fed' = fed \ {d}
    /\ \E ok \in BOOLEAN : CallDevice(d, f, ok) /\ AfterOperation(d, ok)
    /\ commanded' = IF f = "clear" THEN commanded ELSE commanded \cup {d}
    /\ UNCHANGED <<cfg, policy, metric, todo, step, good, starting>>

\* handle_recovery, up to its first bus operation.
handle_recovery ==
    /\ pc = "recover"
    /\ \/ /\ cur \notin pending
          /\ pc' = "idle"
          /\ UNCHANGED <<pending, step, good, cur>>
       \/ /\ cur \in pending  \* take_recovery
          /\ pending' = pending \ {cur}
          /\ \/ policy = "Safe" /\ StartDrive(cur)
             \/ /\ policy = "Leave" /\ pc' = "arm"
                /\ UNCHANGED <<cur, step, good>>
    /\ UNCHANGED <<cfg, policy, output, watchdog, failing, metric, fed, todo,
                   starting, commanded, faults>>

\* The re-arm that ends a recovery, or a health read of a disarmed device.
ArmCurrent ==
    /\ pc \in {"arm", "rearm"}
    /\ arm_if_configured(cur)
    /\ pc' = "idle"
    /\ UNCHANGED <<cfg, policy, output, metric, fed, cur, todo, step, good,
                   starting, commanded>>

\* Mutant: a tripped device is re-armed too.
rearm_if_rebooted_Tripped(d) == d \notin armed

\* Mutant: a health read only reports the disarm.
rearm_if_rebooted_Never(d) == FALSE

\* rearm_if_rebooted, on the status just read.
rearm_if_rebooted(d) == d \notin armed /\ d \notin tripped

\* device_health queries the watchdog of a device that is not failing, and
\* re-arms it if it reports disarmed.
MayQueryHealth(d) == cfg[d].wd /\ d \notin failing

device_health(d) ==
    /\ pc = "idle" /\ MayQueryHealth(d)
    /\ \E ok \in BOOLEAN :
          /\ Query(d, ok)
          /\ pc' = IF ok /\ rearm_if_rebooted(d) THEN "rearm" ELSE "idle"
    /\ cur' = d
    /\ UNCHANGED <<cfg, policy, metric, fed, todo, step, good, starting,
                   commanded>>

-----------------------------------------------------------------------------
(* The keepalive thread, between any two steps of the handler. *)

\* tick_locked: a due device is queried and the answer ignored.
Feed(d) ==
    /\ d \in fed
    /\ \E ok \in BOOLEAN : Query(d, ok)
    /\ UNCHANGED <<cfg, policy, metric, fed, handler, commanded>>

\* kKeepaliveCap has passed.
Cap ==
    /\ fed # {}
    /\ fed' = {}
    /\ UNCHANGED <<cfg, policy, output, watchdog, flags, metric, handler,
                   commanded, faults>>

-----------------------------------------------------------------------------
(* external: what happens to the devices and to the provider itself. *)

\* A trip stops the outputs; whether the device still reports itself armed is
\* the firmware's affair.
Trip(d) ==
    /\ Fault
    /\ d \in armed /\ d \notin tripped
    /\ tripped' = tripped \cup {d}
    /\ sp' = sp \ {d} /\ duty' = duty \ {d}
    /\ armed' \in {armed, armed \ {d}}
    /\ UNCHANGED <<cfg, policy, closed, flags, metric, fed, handler, commanded>>

\* Power cut and boot: open loop, outputs off, disarmed.
PowerCycle(d) ==
    /\ Fault
    /\ closed' = closed \ {d} /\ sp' = sp \ {d} /\ duty' = duty \ {d}
    /\ armed' = armed \ {d} /\ tripped' = tripped \ {d}
    /\ UNCHANGED <<cfg, policy, flags, metric, fed, handler, commanded>>

\* The serial console's WDOG=0.
LocalDisarm(d) ==
    /\ Fault
    /\ d \in armed
    /\ armed' = armed \ {d}
    /\ UNCHANGED <<cfg, policy, output, tripped, flags, metric, fed, handler,
                   commanded>>

\* The provider dies at any point and starts again; the boards keep running.
Restart ==
    /\ Fault
    /\ failing' = {} /\ pending' \in SUBSET Devices
    /\ metric' = [d \in Devices |-> "none"]
    /\ fed' = {}
    /\ pc' = "policy" /\ cur' = NoDevice /\ todo' = Devices
    /\ step' = 1 /\ good' = TRUE
    /\ starting' = TRUE /\ commanded' = Devices
    /\ UNCHANGED <<cfg, policy, output, watchdog>>

Startup == \/ \E d \in Devices : apply_outputs_policy(d) \/ ArmAtStartup(d)
           \/ StartArming \/ Publish

Recovery == Drive \/ handle_recovery \/ ArmCurrent

Requests == \E d \in Devices : \/ Read(d)
                               \/ \E f \in Frames : Call(d, f)
                               \/ device_health(d)

External == \/ \E d \in Devices : Trip(d) \/ PowerCycle(d) \/ LocalDisarm(d)
            \/ Restart

Next == \/ Startup
        \/ Recovery
        \/ Requests
        \/ Cap \/ \E d \in Devices : Feed(d)
        \/ External

Spec == Init /\ [][Next]_vars

\* The handler thread goes on with what it is doing, and the runtime keeps
\* polling: every device is read, and its health asked for, again and again.
FairSpec ==
    /\ Spec
    /\ WF_vars(Startup) /\ WF_vars(Recovery)
    /\ \A d \in Devices : SF_vars(Read(d)) /\ SF_vars(device_health(d))

-----------------------------------------------------------------------------
(* Properties *)

TypeOK ==
    /\ cfg \in [Devices -> Configs] /\ policy \in Policies
    /\ closed \subseteq Devices /\ sp \subseteq Devices /\ duty \subseteq Devices
    /\ armed \subseteq Devices /\ tripped \subseteq Devices
    /\ failing \subseteq Devices /\ pending \subseteq Devices
    /\ metric \in [Devices -> {"none", "set", "not set", "left"}]
    /\ fed \subseteq Devices /\ todo \subseteq Devices
    /\ pc \in {"policy", "drive", "arming", "idle", "recover", "arm", "rearm"}
    /\ cur \in Devices \cup {NoDevice}
    /\ pc \in {"drive", "recover", "arm", "rearm"} => cur \in Devices
    /\ step \in 1..3 /\ good \in BOOLEAN
    /\ starting \in BOOLEAN /\ commanded \subseteq Devices
    /\ faults \in 0..MaxFaults

\* A device whose outputs the provider has driven safe, at startup or after an
\* outage, and that no Call has driven since, is off or its health is FAULT
\* ("not set"): no lost frame, refusal, trip, power cut, keepalive query or
\* provider restart leaves an acknowledging device energised and reported set.
SafeOrFault ==
    \A d \in Devices \ commanded :
        cfg[d].acks /\ ~(pc = "drive" /\ cur = d)
            => Off(d) \/ metric[d] = "not set"

\* The health re-arm leaves a trip alone, on any firmware: what the device
\* reported before the SET_WATCHDOG is still so when it is sent.
ReleasesNoTrip ==
    pc = "rearm" => \A d \in tripped : d \in tripped' \/ PowerCycle(d)

HealthReleasesNoTrip == [][ReleasesNoTrip]_vars

\* Only an operator's call, or a power cut, releases a tripped device: neither
\* startup, nor recovery, nor a re-arm does.
OnlyOperatorReleases ==
    [][\A d \in tripped \ tripped' :
           PowerCycle(d) \/ \E f \in Frames : Call(d, f)]_vars

ClearedByOperator(d) == PowerCycle(d) \/ Call(d, "clear")

\* The same of firmware that latches the trip (CLEAR_WATCHDOG_TRIP), where the
\* only frame that releases it is the operator's clear_watchdog_trip: no step
\* of startup, recovery or re-arming, and no other call, does.
LatchHolds ==
    [][\A d \in tripped \ tripped' : cfg[d].latch => ClearedByOperator(d)]_vars

\* A device configured to arm does not stay disarmed: once the bus and the
\* devices are left in peace it is armed again (or tripped), even if the reboot
\* failed no operation, or the provider missed it during its own recovery.
StaysArmed ==
    \A d \in Devices : []<>(cfg[d].wd => d \in armed \cup tripped)

\* Every outage ends in a recovery: a failing device, or a recovery signal that
\* only the keepalive saw raised, is acted upon by a later request.
OutageIsHandled ==
    \A d \in Devices : d \in failing \cup pending ~> d \notin failing \cup pending

\* "Each step is safe if another is lost", says rlht_adapter.cpp of the RLHT
\* sequence: no step of it energises a relay that was open.
EachStepIsSafe ==
    [][Drive /\ cfg[cur].kind = "Rlht" /\ Off(cur) => Off(cur)']_vars

-----------------------------------------------------------------------------
(* The inductive invariant behind SafeOrFault and HealthReleasesNoTrip. *)

\* A tripped device has neither setpoint nor duty.
TripInv == tripped \cap (sp \cup duty) = {}

\* What the confirmed steps before step n of a drive have achieved on d, unless
\* a trip or a power cut did more.
Driven(d, n) ==
    \/ d \notin sp \cup duty
    \/ /\ cfg[d].kind = "Rlht"
       /\ n >= 2 => d \notin sp
       /\ n >= 3 => d \notin closed
    \/ /\ cfg[d].kind = "Dcmt"
       /\ n >= 2 => d \notin closed

DriveInv ==
    pc = "drive" => /\ step <= Len(safe_output_steps(cfg[cur].kind))
                    /\ good /\ cfg[cur].acks => Driven(cur, step)

\* The device a health read is about to re-arm is still disarmed, so it
\* cannot have tripped since.
RearmInv == pc = "rearm" => cur \notin armed \cup tripped

\* Under the policy "leave" nothing is ever driven safe.
LeaveInv == policy = "Leave" => pc # "drive" /\ commanded = Devices

Inv == TypeOK /\ TripInv /\ DriveInv /\ RearmInv /\ LeaveInv /\ SafeOrFault
=============================================================================
