------------------------ MODULE ProviderRuntimeProofs ------------------------
(***************************************************************************)
(* Proofs about ProviderRuntime, for every set of devices, every           *)
(* configuration and policy, and every number of faults.                   *)
(***************************************************************************)
EXTENDS ProviderRuntime, TLAPS

\* What any step may do to the output of a device it does not energise.
Untouched(d) == /\ d \in closed' <=> d \in closed
                /\ d \in sp' <=> d \in sp
                /\ d \in duty' <=> d \in duty

\* The configuration of a device is a DeviceConfig record.
LEMMA ConfigType ==
    ASSUME TypeOK, NEW d \in Devices
    PROVE  cfg[d] \in DeviceConfig
BY RuntimeAssumption DEF TypeOK, RuntimeAssumption

\* A frame taken by device d (Deliver) changes no other device, leaves the
\* device sets well typed, and a device that stays tripped stays off.
LEMMA DeliverEffect ==
    ASSUME TypeOK, TripInv, NEW d \in Devices, NEW f \in Frames, Deliver(d, f)
    PROVE  /\ closed' \subseteq Devices /\ sp' \subseteq Devices
           /\ duty' \subseteq Devices /\ tripped' \subseteq Devices
           /\ armed' = armed
           /\ TripInv'
           /\ \A e \in Devices \ {d} : Untouched(e)
           /\ tripped' \subseteq tripped
BY DEF TypeOK, TripInv, Deliver, Obeys, TakesDuty, Untouched

\* Session operations leave the two flag sets sets of devices.
LEMMA FlagsType ==
    ASSUME TypeOK, NEW d \in Devices, Succeed(d) \/ Recover(d) \/ Fail(d) \/ FailAgain(d)
    PROVE  failing' \subseteq Devices /\ pending' \subseteq Devices
BY DEF TypeOK, Succeed, Recover, Fail, FailAgain

\* The fault counter stays within its bound.
LEMMA FaultsType ==
    ASSUME TypeOK, Fault \/ NoFault
    PROVE  faults' \in 0..MaxFaults
<1>1. faults \in 0..MaxFaults /\ MaxFaults \in Nat
  BY RuntimeAssumption DEF TypeOK, RuntimeAssumption
<1> QED BY <1>1 DEF Fault, NoFault

\* A setter call delivers its frame or changes nothing on the device, and on an
\* acknowledging device the answer OK means that it was delivered.
LEMMA CallEffect ==
    ASSUME TypeOK, NEW d \in Devices, NEW f \in Frames, NEW ok \in BOOLEAN,
           CallDevice(d, f, ok)
    PROVE  /\ Deliver(d, f) \/ UNCHANGED <<output, watchdog>>
           /\ ok /\ cfg[d].acks => Deliver(d, f)
           /\ failing' \subseteq Devices /\ pending' \subseteq Devices
           /\ faults' \in 0..MaxFaults
BY FlagsType, FaultsType DEF CallDevice, NoFault

\* A query changes nothing but the session's flags.
LEMMA QueryEffect ==
    ASSUME TypeOK, NEW d \in Devices, NEW ok \in BOOLEAN, Query(d, ok)
    PROVE  /\ UNCHANGED <<output, watchdog>>
           /\ failing' \subseteq Devices /\ pending' \subseteq Devices
           /\ faults' \in 0..MaxFaults
BY FlagsType, FaultsType DEF Query

\* Arming releases at most the trip of the device it arms.
LEMMA ArmEffect ==
    ASSUME TypeOK, TripInv, NEW d \in Devices, arm_if_configured(d)
    PROVE  /\ armed' \subseteq Devices
           /\ tripped' \subseteq tripped /\ tripped \subseteq tripped' \cup {d}
           /\ failing' \subseteq Devices /\ pending' \subseteq Devices
           /\ faults' \in 0..MaxFaults
<1>1. CASE ~cfg[d].wd /\ UNCHANGED <<watchdog, flags, faults>>
  BY <1>1 DEF TypeOK, watchdog, flags
<1>2. CASE Arm(d) \/ UNCHANGED watchdog
  <2>1. Fault \/ NoFault
    BY DEF arm_if_configured, NoFault
  <2>2. \/ UNCHANGED flags
        \/ Succeed(d) \/ Fail(d)
    BY DEF arm_if_configured
  <2>3. failing' \subseteq Devices /\ pending' \subseteq Devices
    BY <2>2, FlagsType DEF TypeOK, flags
  <2> QED BY <1>2, <2>1, <2>3, FaultsType DEF Arm, TypeOK, watchdog
<1> QED BY <1>1, <1>2 DEF arm_if_configured

\* The safe-output sequences hold frames, two or three of them.
LEMMA StepsType ==
    ASSUME TypeOK, NEW d \in Devices
    PROVE  /\ Len(safe_output_steps(cfg[d].kind)) \in 2..3
           /\ \A n \in 1..Len(safe_output_steps(cfg[d].kind)) :
                  safe_output_steps(cfg[d].kind)[n] \in Frames
BY ConfigType DEF safe_output_steps, Frames, DeviceConfig

-----------------------------------------------------------------------------
\* The inductive invariant holds at the start of the provider.
LEMMA InitInv == Init => Inv
<1> SUFFICES ASSUME Init PROVE Inv
  OBVIOUS
<1>1. TypeOK
  BY RuntimeAssumption DEF Init, TypeOK, RuntimeAssumption
<1>2. TripInv /\ DriveInv /\ RearmInv /\ LeaveInv /\ SafeOrFault
  BY DEF Init, TripInv, DriveInv, RearmInv, LeaveInv, SafeOrFault
<1> QED BY <1>1, <1>2 DEF Inv

\* One step of the safe-output sequence preserves the invariant: the confirmed
\* steps add up to an output that is off, whatever the device did meanwhile.
LEMMA DriveStep == ASSUME Inv, Drive PROVE Inv'
<1> DEFINE steps == safe_output_steps(cfg[cur].kind)
<1>0. TypeOK /\ TripInv /\ DriveInv /\ RearmInv /\ LeaveInv /\ SafeOrFault
  BY DEF Inv
<1>1. /\ pc = "drive" /\ cur \in Devices /\ step \in 1..3
      /\ step <= Len(steps)
  BY <1>0 DEF TypeOK, DriveInv, Drive
<1>2. cfg[cur] \in DeviceConfig
  BY <1>0, <1>1, ConfigType
<1>3. Len(steps) \in 2..3 /\ steps[step] \in Frames
  <2>1. /\ Len(steps) \in 2..3
        /\ \A n \in 1..Len(steps) : steps[n] \in Frames
    BY <1>0, <1>1, StepsType
  <2>2. step \in 1..Len(steps)
    BY <1>1, <2>1
  <2> QED BY <2>1, <2>2
<1>4. PICK ok \in BOOLEAN : /\ CallDevice(cur, steps[step], ok)
                            /\ good' = Result(good, ok)
  BY DEF Drive
<1>5. \/ /\ step < Len(steps) /\ step' = step + 1
         /\ UNCHANGED <<pc, metric, commanded>>
      \/ /\ step = Len(steps) /\ step' = step
         /\ metric' = [metric EXCEPT ![cur] = to_metric(good')]
         /\ commanded' = commanded \ {cur}
         /\ pc' \in {"policy", "arm"}
  BY DEF Drive
<1>6. UNCHANGED <<cfg, policy, fed, cur, todo, starting>>
  BY DEF Drive
<1> DEFINE n == Len(steps)
<1>len. n \in 2..3 /\ n = Len(steps)
  BY <1>3
<1> HIDE DEF steps, n
<1>7. /\ Deliver(cur, steps[step]) \/ UNCHANGED <<output, watchdog>>
      /\ ok /\ cfg[cur].acks => Deliver(cur, steps[step])
      /\ failing' \subseteq Devices /\ pending' \subseteq Devices
      /\ faults' \in 0..MaxFaults
  BY <1>0, <1>1, <1>3, <1>4, CallEffect
<1>8. /\ closed' \subseteq Devices /\ sp' \subseteq Devices
      /\ duty' \subseteq Devices /\ tripped' \subseteq Devices
      /\ armed' = armed
      /\ TripInv'
      /\ \A e \in Devices \ {cur} : Untouched(e)
      /\ tripped' \subseteq tripped
  <2>1. CASE Deliver(cur, steps[step])
    BY <2>1, <1>0, <1>1, <1>3, DeliverEffect
  <2>2. CASE UNCHANGED <<output, watchdog>>
    BY <2>2, <1>0 DEF TypeOK, TripInv, output, watchdog, Untouched
  <2> QED BY <1>7, <2>1, <2>2
<1>9. good' \in BOOLEAN /\ (good' => good /\ ok)
  BY <1>0, <1>4 DEF Result, TypeOK
<1>s. step' \in 1..3 /\ (step <= Len(safe_output_steps(cfg[cur].kind)))'
  <2>1. (step' = step + 1 /\ step < n) \/ (step' = step /\ step = n)
    BY <1>5, <1>len
  <2>2. step \in 1..3 /\ n \in 2..3
    BY <1>1, <1>len
  <2>3. step' \in 1..3 /\ step' <= n
    BY <2>1, <2>2
  <2>4. steps = safe_output_steps(cfg[cur].kind)'
    BY <1>6 DEF steps, safe_output_steps
  <2> QED BY <2>3, <2>4, <1>len
<1>10. TypeOK'
  <2>3. metric' \in [Devices -> {"none", "set", "not set", "left"}]
    BY <1>0, <1>1, <1>5 DEF TypeOK, to_metric
  <2>4. commanded' \subseteq Devices /\ pc' \in {"policy", "arm", "drive"}
    BY <1>0, <1>1, <1>5 DEF TypeOK
  <2> QED BY <1>0, <1>1, <1>6, <1>7, <1>8, <1>9, <1>s, <2>3, <2>4 DEF TypeOK
<1>11. ASSUME good', cfg[cur].acks
       PROVE  /\ step < Len(steps) => Driven(cur, step)'
              /\ step = Len(steps) => Off(cur)'
  <2>1. Deliver(cur, steps[step]) /\ Driven(cur, step)
    BY <1>0, <1>1, <1>7, <1>9, <1>11 DEF DriveInv
  <2>2. CASE ~Obeys(cur)
    <3>1. cur \notin sp \cup duty
      BY <1>0, <1>1, <2>2 DEF Obeys, TripInv
    <3>2. sp' = sp /\ duty' = duty
      BY <2>1, <2>2 DEF Deliver, TakesDuty
    <3> QED BY <3>1, <3>2, <1>6 DEF Driven, Off
  <2>3. CASE Obeys(cur) /\ cfg[cur].kind = "Rlht"
    <3>1. steps = <<"sp_zero", "open", "duty_zero">>
      BY <2>3 DEF safe_output_steps, steps
    <3>2. Len(steps) = 3
      BY <3>1
    <3>3. CASE step = 1
      <4>1. Deliver(cur, "sp_zero")
        BY <2>1, <3>1, <3>3
      <4> QED BY <4>1, <2>3, <3>2, <3>3, <1>5, <1>6 DEF Deliver, Driven
    <3>4. CASE step = 2
      <4>1. Deliver(cur, "open")
        BY <2>1, <3>1, <3>4
      <4> QED BY <4>1, <2>1, <2>3, <3>2, <3>4, <1>5, <1>6 DEF Deliver, Driven
    <3>5. CASE step = 3
      <4>1. Deliver(cur, "duty_zero")
        BY <2>1, <3>1, <3>5
      <4> QED BY <4>1, <2>1, <2>3, <3>2, <3>5, <1>5, <1>6
              DEF Deliver, Driven, Off, TakesDuty
    <3> QED BY <1>1, <3>3, <3>4, <3>5
  <2>4. CASE Obeys(cur) /\ cfg[cur].kind = "Dcmt"
    <3>1. steps = <<"open", "duty_zero">>
      BY <2>4 DEF safe_output_steps, steps
    <3>2. Len(steps) = 2
      BY <3>1
    <3>3. CASE step = 1
      <4>1. Deliver(cur, "open")
        BY <2>1, <3>1, <3>3
      <4> QED BY <4>1, <2>4, <3>2, <3>3, <1>5, <1>6 DEF Deliver, Driven
    <3>4. CASE step = 2
      <4>1. Deliver(cur, "duty_zero")
        BY <2>1, <3>1, <3>4
      <4> QED BY <4>1, <2>1, <2>4, <3>2, <3>4, <1>5, <1>6
              DEF Deliver, Driven, Off, TakesDuty
    <3> QED BY <1>1, <3>2, <3>3, <3>4
  <2> QED BY <1>2, <2>2, <2>3, <2>4 DEF DeviceConfig
<1>12. DriveInv'
  <2> SUFFICES ASSUME pc' = "drive", good', (cfg[cur].acks)'
               PROVE  Driven(cur, step)'
    BY <1>s DEF DriveInv
  <2>1. step < Len(steps) /\ cfg[cur].acks
    BY <1>5, <1>6
  <2> QED BY <2>1, <1>11
<1>13. RearmInv' /\ LeaveInv'
  BY <1>0, <1>1, <1>5, <1>6 DEF RearmInv, LeaveInv
<1>14. SafeOrFault'
  <2> SUFFICES ASSUME NEW e \in Devices, e \notin commanded', cfg'[e].acks,
                      ~(pc' = "drive" /\ cur' = e)
               PROVE  Off(e)' \/ metric'[e] = "not set"
    BY DEF SafeOrFault
  <2>1. CASE e = cur
    <3>1. step = Len(steps) /\ metric' = [metric EXCEPT ![cur] = to_metric(good')]
      BY <2>1, <1>1, <1>5, <1>6
    <3>2. CASE good'
      <4>1. Off(cur)'
        BY <3>1, <3>2, <2>1, <1>6, <1>11
      <4> QED BY <4>1, <2>1, <1>6 DEF Off
    <3>3. CASE ~good'
      BY <3>3, <3>1, <2>1, <1>0, <1>1 DEF to_metric, TypeOK
    <3> QED BY <3>2, <3>3
  <2>2. CASE e # cur
    <3>1. Off(e)' <=> Off(e)
      BY <2>2, <1>8 DEF Untouched, Off
    <3>2. metric'[e] = metric[e] /\ e \notin commanded
      BY <2>2, <1>0, <1>5 DEF TypeOK
    <3> QED BY <3>1, <3>2, <2>2, <1>0, <1>6 DEF SafeOrFault
  <2> QED BY <2>1, <2>2
<1> QED BY <1>8, <1>10, <1>12, <1>13, <1>14 DEF Inv

\* A step that touches no device and no metric, taken while no drive is under
\* way, preserves what the invariant says of outputs and trips.
LEMMA QuietStep ==
    ASSUME Inv, pc # "drive",
           UNCHANGED <<cfg, output, watchdog, metric>>, commanded \subseteq commanded'
    PROVE  TripInv' /\ SafeOrFault'
<1>1. TripInv'
  BY DEF Inv, TripInv, output, watchdog
<1>2. SafeOrFault'
  BY DEF Inv, SafeOrFault, Off, output
<1> QED BY <1>1, <1>2

\* A drive starts at a step the sequence has, with nothing yet to show.
LEMMA DriveStarts ==
    ASSUME TypeOK, NEW d \in Devices, StartDrive(d), cfg' = cfg
    PROVE  /\ (step <= Len(safe_output_steps(cfg[cur].kind)))'
           /\ Driven(cur, step)'
<1>1. pc' = "drive" /\ cur' = d /\ step' = 1
  BY DEF StartDrive
<1>2. Len(safe_output_steps(cfg[d].kind)) \in 2..3
  BY StepsType
<1>3. 1 <= Len(safe_output_steps(cfg[d].kind))
  BY <1>2
<1>4. safe_output_steps(cfg[cur].kind)' = safe_output_steps(cfg[d].kind)
  BY <1>1 DEF safe_output_steps
<1>5. Driven(cur, step)'
  BY <1>1, ConfigType DEF Driven, DeviceConfig
<1> QED BY <1>1, <1>3, <1>4, <1>5

\* The steps of startup, except the drives, preserve the invariant.
LEMMA StartupStep == ASSUME Inv, Startup PROVE Inv'
<1>0. TypeOK /\ TripInv /\ DriveInv /\ RearmInv /\ LeaveInv /\ SafeOrFault
  BY DEF Inv
<1>1. ASSUME NEW d \in Devices, apply_outputs_policy(d) PROVE Inv'
  <2>1. CASE policy = "Safe" /\ StartDrive(d) /\ UNCHANGED metric
    <3>1. /\ cfg' = cfg /\ cur' = d /\ step' = 1 /\ pc' = "drive"
          /\ policy' = "Safe" /\ good'
      BY <1>1, <2>1 DEF apply_outputs_policy, StartDrive
    <3>2. /\ (step <= Len(safe_output_steps(cfg[cur].kind)))'
          /\ Driven(cur, step)'
      BY <1>0, <2>1, <3>1, DriveStarts
    <3>3. TypeOK'
      <4>1. good' \in BOOLEAN
        BY <2>1 DEF StartDrive
      <4>2. /\ todo' \subseteq Devices /\ metric' = metric
            /\ UNCHANGED <<cfg, policy, output, watchdog, flags, fed, starting,
                           commanded, faults>>
        BY <1>0, <1>1, <2>1 DEF TypeOK, apply_outputs_policy
      <4>3. cur' \in Devices /\ step' \in 1..3 /\ pc' = "drive"
        BY <3>1
      <4> QED BY <1>0, <4>1, <4>2, <4>3 DEF TypeOK, output, watchdog, flags
    <3>4. DriveInv' /\ RearmInv' /\ LeaveInv'
      BY <3>1, <3>2 DEF DriveInv, RearmInv, LeaveInv
    <3>5. TripInv' /\ SafeOrFault'
      BY <1>1, <2>1, QuietStep DEF apply_outputs_policy
    <3> QED BY <3>3, <3>4, <3>5 DEF Inv
  <2>2. CASE policy = "Leave" /\ metric' = [metric EXCEPT ![d] = "left"]
                  /\ UNCHANGED <<pc, cur, step, good>>
    <3>1. TypeOK'
      BY <1>0, <1>1, <2>2 DEF TypeOK, apply_outputs_policy, output, watchdog, flags
    <3>2. TripInv' /\ DriveInv' /\ RearmInv' /\ LeaveInv'
      BY <1>0, <1>1, <2>2 DEF TripInv, DriveInv, RearmInv, LeaveInv,
         apply_outputs_policy, output, watchdog
    <3>3. SafeOrFault'
      BY <1>0, <1>1, <2>2 DEF LeaveInv, SafeOrFault, apply_outputs_policy
    <3> QED BY <3>1, <3>2, <3>3 DEF Inv
  <2> QED BY <1>1, <2>1, <2>2 DEF apply_outputs_policy
<1>2. CASE StartArming
  <2>1. TypeOK'
    BY <1>0, <1>2 DEF TypeOK, StartArming, output, watchdog, flags
  <2>2. DriveInv' /\ RearmInv' /\ LeaveInv'
    BY <1>0, <1>2 DEF StartArming, DriveInv, RearmInv, LeaveInv
  <2>3. TripInv' /\ SafeOrFault'
    BY <1>2, QuietStep DEF StartArming
  <2> QED BY <2>1, <2>2, <2>3 DEF Inv
<1>3. CASE Publish
  <2>1. TypeOK'
    BY <1>0, <1>3 DEF TypeOK, Publish, output, watchdog, flags
  <2>2. DriveInv' /\ RearmInv' /\ LeaveInv'
    BY <1>0, <1>3 DEF Publish, DriveInv, RearmInv, LeaveInv
  <2>3. TripInv' /\ SafeOrFault'
    BY <1>3, QuietStep DEF Publish
  <2> QED BY <2>1, <2>2, <2>3 DEF Inv
<1>4. ASSUME NEW d \in Devices, ArmAtStartup(d) PROVE Inv'
  <2>1. /\ armed' \subseteq Devices /\ tripped' \subseteq tripped
        /\ failing' \subseteq Devices /\ pending' \subseteq Devices
        /\ faults' \in 0..MaxFaults
    BY <1>0, <1>4, ArmEffect DEF ArmAtStartup
  <2>2. TypeOK'
    BY <1>0, <1>4, <2>1 DEF TypeOK, ArmAtStartup, output
  <2>3. TripInv' /\ DriveInv' /\ RearmInv' /\ LeaveInv'
    BY <1>0, <1>4, <2>1 DEF TripInv, DriveInv, RearmInv, LeaveInv, ArmAtStartup, output
  <2>4. SafeOrFault'
    BY <1>0, <1>4 DEF SafeOrFault, Off, ArmAtStartup, output
  <2> QED BY <2>2, <2>3, <2>4 DEF Inv
<1> QED BY <1>1, <1>2, <1>3, <1>4 DEF Startup

\* handle_recovery preserves the invariant: it takes the signal, then drives
\* the device or goes straight to the re-arm.
LEMMA RecoveryStep == ASSUME Inv, handle_recovery PROVE Inv'
<1>0. TypeOK /\ TripInv /\ DriveInv /\ RearmInv /\ LeaveInv /\ SafeOrFault
  BY DEF Inv
<1>1. cur \in Devices /\ pc = "recover" /\ pending' \subseteq Devices
  BY <1>0 DEF TypeOK, handle_recovery
<1>2. UNCHANGED <<cfg, policy, output, watchdog, failing, metric, fed, todo,
                  starting, commanded, faults>>
  BY DEF handle_recovery
<1>3. TripInv' /\ SafeOrFault'
  BY <1>1, <1>2, QuietStep
<1>4. CASE policy = "Safe" /\ StartDrive(cur)
  <2>1. /\ (step <= Len(safe_output_steps(cfg[cur].kind)))'
        /\ Driven(cur, step)'
    BY <1>0, <1>1, <1>2, <1>4, DriveStarts
  <2>2. pc' = "drive" /\ cur' \in Devices /\ step' \in 1..3
    BY <1>1, <1>4 DEF StartDrive
  <2>3. good' \in BOOLEAN
    BY <1>4 DEF StartDrive
  <2>4. TypeOK'
    BY <1>0, <1>1, <1>2, <2>2, <2>3 DEF TypeOK, output, watchdog
  <2>5. DriveInv' /\ RearmInv' /\ LeaveInv'
    BY <1>2, <1>4, <2>1, <2>2 DEF DriveInv, RearmInv, LeaveInv
  <2> QED BY <1>3, <2>4, <2>5 DEF Inv
<1>5. CASE pc' \in {"idle", "arm"} /\ UNCHANGED <<cur, step, good>>
  <2>1. TypeOK'
    BY <1>0, <1>1, <1>2, <1>5 DEF TypeOK, output, watchdog
  <2>2. DriveInv' /\ RearmInv' /\ LeaveInv'
    BY <1>0, <1>2, <1>5 DEF DriveInv, RearmInv, LeaveInv
  <2> QED BY <1>3, <2>1, <2>2 DEF Inv
<1> QED BY <1>4, <1>5 DEF handle_recovery

\* The re-arm preserves the invariant.
LEMMA ArmStep == ASSUME Inv, ArmCurrent PROVE Inv'
<1>0. TypeOK /\ TripInv /\ DriveInv /\ RearmInv /\ LeaveInv /\ SafeOrFault
  BY DEF Inv
<1>1. /\ cur \in Devices /\ pc # "drive" /\ pc' = "idle"
      /\ arm_if_configured(cur)
      /\ UNCHANGED <<cfg, policy, output, metric, fed, cur, todo, step, good,
                     starting, commanded>>
  BY <1>0 DEF TypeOK, ArmCurrent
<1>2. /\ armed' \subseteq Devices /\ tripped' \subseteq tripped
      /\ failing' \subseteq Devices /\ pending' \subseteq Devices
      /\ faults' \in 0..MaxFaults
  BY <1>0, <1>1, ArmEffect
<1>3. TypeOK'
  BY <1>0, <1>1, <1>2 DEF TypeOK, output
<1>4. TripInv' /\ DriveInv' /\ RearmInv' /\ LeaveInv'
  BY <1>0, <1>1, <1>2 DEF TripInv, DriveInv, RearmInv, LeaveInv, output
<1>5. SafeOrFault'
  BY <1>0, <1>1 DEF SafeOrFault, Off, output
<1> QED BY <1>3, <1>4, <1>5 DEF Inv

\* The handlers' requests preserve the invariant.
LEMMA RequestStep == ASSUME Inv, Requests PROVE Inv'
<1>0. TypeOK /\ TripInv /\ DriveInv /\ RearmInv /\ LeaveInv /\ SafeOrFault
  BY DEF Inv
<1>1. ASSUME NEW d \in Devices, Read(d) PROVE Inv'
  <2>1. PICK ok \in BOOLEAN : Query(d, ok) /\ AfterOperation(d, ok)
    BY <1>1 DEF Read
  <2>2. /\ UNCHANGED <<output, watchdog>>
        /\ failing' \subseteq Devices /\ pending' \subseteq Devices
        /\ faults' \in 0..MaxFaults
    BY <1>0, <2>1, QueryEffect
  <2>3. /\ pc = "idle" /\ pc' \in {"idle", "recover"} /\ cur' = d
        /\ fed' \subseteq Devices
        /\ UNCHANGED <<cfg, policy, metric, todo, step, good, starting, commanded>>
    BY <1>0, <1>1, <2>1 DEF Read, AfterOperation, TypeOK
  <2>4. TypeOK'
    BY <1>0, <2>2, <2>3 DEF TypeOK, output, watchdog
  <2>5. DriveInv' /\ RearmInv' /\ LeaveInv'
    BY <1>0, <2>3 DEF DriveInv, RearmInv, LeaveInv
  <2>6. TripInv' /\ SafeOrFault'
    BY <2>2, <2>3, QuietStep
  <2> QED BY <2>4, <2>5, <2>6 DEF Inv
<1>2. ASSUME NEW d \in Devices, NEW f \in Frames, Call(d, f) PROVE Inv'
  <2>1. PICK ok \in BOOLEAN : CallDevice(d, f, ok) /\ AfterOperation(d, ok)
    BY <1>2 DEF Call
  <2>2. /\ Deliver(d, f) \/ UNCHANGED <<output, watchdog>>
        /\ failing' \subseteq Devices /\ pending' \subseteq Devices
        /\ faults' \in 0..MaxFaults
    BY <1>0, <2>1, CallEffect
  <2>3. /\ pc = "idle" /\ pc' \in {"idle", "recover"} /\ cur' = d
        /\ fed' \subseteq Devices
        /\ commanded' = IF f = "clear" THEN commanded ELSE commanded \cup {d}
        /\ UNCHANGED <<cfg, policy, metric, todo, step, good, starting>>
    BY <1>0, <1>2, <2>1 DEF Call, AfterOperation, TypeOK
  <2>4. /\ closed' \subseteq Devices /\ sp' \subseteq Devices
        /\ duty' \subseteq Devices /\ tripped' \subseteq Devices
        /\ armed' = armed
        /\ TripInv'
        /\ \A e \in Devices \ {d} : Untouched(e)
        /\ f = "clear" => Untouched(d)
    <3>1. CASE Deliver(d, f)
      <4>1. f = "clear" => Untouched(d)
        BY <3>1 DEF Deliver, Untouched
      <4> QED BY <1>0, <3>1, <4>1, DeliverEffect
    <3>2. CASE UNCHANGED <<output, watchdog>>
      BY <1>0, <3>2 DEF TypeOK, TripInv, output, watchdog, Untouched
    <3> QED BY <2>2, <3>1, <3>2
  <2>5. TypeOK'
    BY <1>0, <2>2, <2>3, <2>4 DEF TypeOK
  <2>6. DriveInv' /\ RearmInv' /\ LeaveInv'
    BY <1>0, <2>3 DEF DriveInv, RearmInv, LeaveInv
  <2>7. SafeOrFault'
    <3> SUFFICES ASSUME NEW e \in Devices, e \notin commanded', cfg'[e].acks
                 PROVE  Off(e)' \/ metric'[e] = "not set"
      BY DEF SafeOrFault
    <3>1. e \notin commanded /\ (e = d => f = "clear")
      BY <2>3
    <3>2. Off(e)' <=> Off(e)
      BY <2>4, <3>1 DEF Untouched, Off
    <3> QED BY <1>0, <2>3, <3>1, <3>2 DEF SafeOrFault
  <2> QED BY <2>4, <2>5, <2>6, <2>7 DEF Inv
<1>3. ASSUME NEW d \in Devices, device_health(d) PROVE Inv'
  <2>1. PICK ok \in BOOLEAN :
            /\ Query(d, ok)
            /\ pc' = IF ok /\ rearm_if_rebooted(d) THEN "rearm" ELSE "idle"
    BY <1>3 DEF device_health
  <2>2. /\ UNCHANGED <<output, watchdog>>
        /\ failing' \subseteq Devices /\ pending' \subseteq Devices
        /\ faults' \in 0..MaxFaults
    BY <1>0, <2>1, QueryEffect
  <2>3. /\ pc = "idle" /\ pc' \in {"idle", "rearm"} /\ cur' = d
        /\ pc' = "rearm" => d \notin armed \cup tripped
        /\ UNCHANGED <<cfg, policy, metric, fed, todo, step, good, starting,
                       commanded>>
    BY <1>3, <2>1 DEF device_health, rearm_if_rebooted
  <2>4. TypeOK'
    BY <1>0, <2>2, <2>3 DEF TypeOK, output, watchdog
  <2>5. DriveInv' /\ RearmInv' /\ LeaveInv'
    BY <1>0, <2>2, <2>3 DEF DriveInv, RearmInv, LeaveInv, watchdog
  <2>6. TripInv' /\ SafeOrFault'
    BY <2>2, <2>3, QuietStep
  <2> QED BY <2>4, <2>5, <2>6 DEF Inv
<1> QED BY <1>1, <1>2, <1>3 DEF Requests

\* The keepalive preserves the invariant, between any two handler steps.
LEMMA KeepaliveStep ==
    ASSUME Inv, Cap \/ \E d \in Devices : Feed(d)
    PROVE  Inv'
<1>0. TypeOK /\ TripInv /\ DriveInv /\ RearmInv /\ LeaveInv /\ SafeOrFault
  BY DEF Inv
<1>1. /\ fed' \subseteq Devices
      /\ UNCHANGED <<cfg, policy, output, watchdog, metric, handler, commanded>>
      /\ failing' \subseteq Devices /\ pending' \subseteq Devices
      /\ faults' \in 0..MaxFaults
  <2>1. CASE Cap
    BY <1>0, <2>1 DEF Cap, TypeOK, flags
  <2>2. ASSUME NEW d \in Devices, Feed(d)
        PROVE  /\ fed' \subseteq Devices
               /\ UNCHANGED <<cfg, policy, output, watchdog, metric, handler,
                              commanded>>
               /\ failing' \subseteq Devices /\ pending' \subseteq Devices
               /\ faults' \in 0..MaxFaults
    <3>1. PICK ok \in BOOLEAN : Query(d, ok)
      BY <2>2 DEF Feed
    <3> QED BY <1>0, <2>2, <3>1, QueryEffect DEF Feed, TypeOK
  <2> QED BY <2>1, <2>2
<1>2. TypeOK'
  BY <1>0, <1>1 DEF TypeOK, output, watchdog, handler
<1>3. TripInv' /\ RearmInv' /\ LeaveInv'
  BY <1>0, <1>1 DEF TripInv, RearmInv, LeaveInv, output, watchdog, handler
<1>4. DriveInv'
  BY <1>0, <1>1 DEF DriveInv, Driven, output, handler
<1>5. SafeOrFault'
  BY <1>0, <1>1 DEF SafeOrFault, Off, output, handler
<1> QED BY <1>2, <1>3, <1>4, <1>5 DEF Inv

\* A trip or a power cut of d turns its output off and touches no other; so
\* does, trivially, a local disarm.
LEMMA DeviceEvent ==
    ASSUME Inv, NEW d \in Devices, Trip(d) \/ PowerCycle(d) \/ LocalDisarm(d)
    PROVE  /\ closed' \subseteq closed /\ sp' \subseteq sp /\ duty' \subseteq duty
           /\ armed' \subseteq armed
           /\ closed \subseteq closed' \cup {d}
           /\ sp \subseteq sp' \cup {d} /\ duty \subseteq duty' \cup {d}
           /\ UNCHANGED output \/ d \notin sp' \cup duty'
           /\ tripped' \subseteq tripped \cup {d}
           /\ d \in tripped' \ tripped => d \in armed
           /\ TripInv'
           /\ UNCHANGED <<cfg, policy, flags, metric, fed, handler, commanded>>
           /\ faults' \in 0..MaxFaults
<1>1. faults' \in 0..MaxFaults
  BY FaultsType DEF Trip, PowerCycle, LocalDisarm, Inv
<1>2. CASE Trip(d)
  BY <1>1, <1>2 DEF Trip, Inv, TripInv
<1>3. CASE PowerCycle(d)
  BY <1>1, <1>3 DEF PowerCycle, Inv, TripInv
<1>4. CASE LocalDisarm(d)
  BY <1>1, <1>4 DEF LocalDisarm, Inv, TripInv, output
<1> QED BY <1>2, <1>3, <1>4

\* External events and a restart of the provider preserve the invariant.
LEMMA ExternalStep == ASSUME Inv, External PROVE Inv'
<1>0. TypeOK /\ TripInv /\ DriveInv /\ RearmInv /\ LeaveInv /\ SafeOrFault
  BY DEF Inv
<1>1. ASSUME NEW d \in Devices, Trip(d) \/ PowerCycle(d) \/ LocalDisarm(d)
      PROVE  Inv'
  <2>1. /\ closed' \subseteq closed /\ sp' \subseteq sp /\ duty' \subseteq duty
        /\ armed' \subseteq armed
        /\ closed \subseteq closed' \cup {d}
        /\ sp \subseteq sp' \cup {d} /\ duty \subseteq duty' \cup {d}
        /\ UNCHANGED output \/ d \notin sp' \cup duty'
        /\ tripped' \subseteq tripped \cup {d}
        /\ d \in tripped' \ tripped => d \in armed
        /\ TripInv'
        /\ UNCHANGED <<cfg, policy, flags, metric, fed, handler, commanded>>
        /\ faults' \in 0..MaxFaults
    BY <1>1, DeviceEvent
  <2>2. TypeOK'
    BY <1>0, <2>1 DEF TypeOK, flags, handler
  <2>3. RearmInv' /\ LeaveInv'
    BY <1>0, <2>1 DEF RearmInv, LeaveInv, handler
  <2>4. DriveInv'
    BY <1>0, <2>1 DEF DriveInv, Driven, handler
  <2>5. SafeOrFault'
    <3>1. \A e \in Devices : Off(e) => Off(e)'
      BY <2>1 DEF Off, output
    <3> QED BY <1>0, <2>1, <3>1 DEF SafeOrFault, handler
  <2> QED BY <2>1, <2>2, <2>3, <2>4, <2>5 DEF Inv
<1>2. CASE Restart
  <2>1. faults' \in 0..MaxFaults
    BY <1>0, <1>2, FaultsType DEF Restart
  <2>2. TypeOK'
    <3>1. good' \in BOOLEAN /\ starting' \in BOOLEAN
      BY <1>2 DEF Restart
    <3>2. /\ failing' = {} /\ pending' \subseteq Devices /\ fed' = {}
          /\ metric' \in [Devices -> {"none", "set", "not set", "left"}]
          /\ pc' = "policy" /\ cur' = NoDevice /\ todo' = Devices
          /\ step' \in 1..3 /\ commanded' = Devices
          /\ UNCHANGED <<cfg, policy, output, watchdog>>
      BY <1>2 DEF Restart
    <3> QED BY <1>0, <2>1, <3>1, <3>2 DEF TypeOK, output, watchdog
  <2>3. TripInv' /\ DriveInv' /\ RearmInv' /\ LeaveInv' /\ SafeOrFault'
    BY <1>0, <1>2 DEF TripInv, DriveInv, RearmInv, LeaveInv, SafeOrFault, Restart,
       output, watchdog
  <2> QED BY <2>2, <2>3 DEF Inv
<1> QED BY <1>1, <1>2 DEF External

-----------------------------------------------------------------------------
\* The inductive invariant holds in every reachable state.
THEOREM Invariance == Spec => []Inv
<1>1. Init => Inv
  BY InitInv
<1>2. Inv /\ [Next]_vars => Inv'
  <2> SUFFICES ASSUME Inv, [Next]_vars PROVE Inv'
    OBVIOUS
  <2>1. CASE Startup
    BY <2>1, StartupStep
  <2>2. CASE Recovery
    BY <2>2, DriveStep, RecoveryStep, ArmStep DEF Recovery
  <2>3. CASE Requests
    BY <2>3, RequestStep
  <2>4. CASE Cap \/ \E d \in Devices : Feed(d)
    BY <2>4, KeepaliveStep
  <2>5. CASE External
    BY <2>5, ExternalStep
  <2>6. CASE UNCHANGED vars
    <3>1. TypeOK' /\ TripInv' /\ RearmInv' /\ LeaveInv'
      BY <2>6 DEF Inv, vars, TypeOK, TripInv, RearmInv, LeaveInv, output, watchdog,
         flags, handler
    <3>2. DriveInv' /\ SafeOrFault'
      BY <2>6 DEF Inv, vars, DriveInv, Driven, SafeOrFault, Off, output, handler
    <3> QED BY <3>1, <3>2 DEF Inv
  <2> QED BY <2>1, <2>2, <2>3, <2>4, <2>5, <2>6 DEF Next
<1> QED BY <1>1, <1>2, PTL DEF Spec

\* The state of the provider and of its devices stays well formed.
THEOREM TypeCorrect == Spec => []TypeOK
BY Invariance, PTL DEF Inv

\* A device driven safe at startup or after an outage, and not commanded since,
\* is off or reported FAULT: with any number of devices and faults.
THEOREM SafeCorrect == Spec => []SafeOrFault
BY Invariance, PTL DEF Inv

\* The health re-arm (rearm_if_rebooted, then SET_WATCHDOG) releases no trip,
\* on any firmware and whatever happens between the two.
THEOREM RearmCorrect == Spec => HealthReleasesNoTrip
<1>1. Inv /\ [Next]_vars => [ReleasesNoTrip]_vars
  <2> SUFFICES ASSUME Inv, Next, pc = "rearm", NEW d \in tripped
               PROVE  d \in tripped' \/ PowerCycle(d)
    BY DEF ReleasesNoTrip
  <2>0. TypeOK /\ TripInv /\ RearmInv /\ d \in Devices /\ d # cur /\ cur \in Devices
    BY DEF Inv, TypeOK, RearmInv
  <2>1. CASE Startup
    BY <2>1 DEF Startup, apply_outputs_policy, ArmAtStartup, StartArming, Publish
  <2>2. CASE Recovery
    <3>1. ArmCurrent
      BY <2>2 DEF Recovery, Drive, handle_recovery
    <3>2. arm_if_configured(cur)
      BY <3>1 DEF ArmCurrent
    <3>3. tripped \subseteq tripped' \cup {cur}
      BY <2>0, <3>2, ArmEffect
    <3> QED BY <2>0, <3>3
  <2>3. CASE Requests
    BY <2>3 DEF Requests, Read, Call, device_health
  <2>4. CASE Cap
    BY <2>4 DEF Cap, watchdog
  <2>5. ASSUME NEW e \in Devices, Feed(e) PROVE d \in tripped'
    <3>1. PICK ok \in BOOLEAN : Query(e, ok)
      BY <2>5 DEF Feed
    <3> QED BY <3>1 DEF Query, watchdog
  <2>6. ASSUME NEW e \in Devices, Trip(e) \/ LocalDisarm(e) PROVE d \in tripped'
    BY <2>6 DEF Trip, LocalDisarm
  <2>7. ASSUME NEW e \in Devices, PowerCycle(e)
        PROVE  d \in tripped' \/ PowerCycle(d)
    <3>1. CASE e = d
      BY <2>7, <3>1
    <3>2. CASE e # d
      BY <2>7, <3>2 DEF PowerCycle
    <3> QED BY <3>1, <3>2
  <2>8. CASE Restart
    BY <2>8 DEF Restart, watchdog
  <2> QED BY <2>1, <2>2, <2>3, <2>4, <2>5, <2>6, <2>7, <2>8 DEF Next, External
<1> QED BY <1>1, Invariance, PTL DEF Spec, HealthReleasesNoTrip

\* No step of the sequences that drive outputs safe is the frame that releases
\* a latched trip.
LEMMA StepsClearNothing ==
    ASSUME Inv, pc = "drive"
    PROVE  LET f == safe_output_steps(cfg[cur].kind)[step]
           IN  f \in Frames /\ f # "clear"
<1>1. TypeOK /\ DriveInv
  BY DEF Inv
<1>2. step \in 1..3
  BY <1>1 DEF TypeOK
<1>3. step <= Len(safe_output_steps(cfg[cur].kind))
  BY <1>1 DEF DriveInv
<1>4. CASE cfg[cur].kind = "Dcmt"
  BY <1>2, <1>3, <1>4 DEF safe_output_steps, Frames
<1>5. CASE cfg[cur].kind # "Dcmt"
  BY <1>2, <1>3, <1>5 DEF safe_output_steps, Frames
<1> QED BY <1>4, <1>5

\* A frame other than clear_watchdog_trip leaves latched trips alone.
LEMMA DeliverKeepsLatch ==
    ASSUME NEW e, NEW f, f # "clear", Deliver(e, f), NEW d \in tripped, cfg[d].latch
    PROVE  d \in tripped'
BY DEF Deliver, Obeys

\* Neither does arming the watchdog (SET_WATCHDOG).
LEMMA ArmKeepsLatch ==
    ASSUME NEW e, arm_if_configured(e), NEW d \in tripped, cfg[d].latch
    PROVE  d \in tripped'
BY DEF arm_if_configured, Arm, watchdog

\* On firmware that latches it, a watchdog trip is released by the operator's
\* clear_watchdog_trip on that device or by a power cut, and by nothing else
\* the provider does: startup, recovery, re-arming, feeding, another call.
THEOREM LatchCorrect == Spec => LatchHolds
<1> DEFINE P == \A d \in tripped \ tripped' : cfg[d].latch => ClearedByOperator(d)
<1>1. Inv /\ [Next]_vars => [P]_vars
  <2> SUFFICES ASSUME Inv, Next, NEW d \in tripped, cfg[d].latch, d \notin tripped'
               PROVE  ClearedByOperator(d)
    OBVIOUS
  <2>1. CASE Startup
    BY <2>1, ArmKeepsLatch
       DEF Startup, apply_outputs_policy, ArmAtStartup, StartArming, Publish, watchdog
  <2>2. CASE Drive
    <3>1. PICK ok \in BOOLEAN : CallDevice(cur, safe_output_steps(cfg[cur].kind)[step], ok)
      BY <2>2 DEF Drive
    <3>2. safe_output_steps(cfg[cur].kind)[step] # "clear"
      BY <2>2, StepsClearNothing DEF Drive
    <3> QED BY <3>1, <3>2, DeliverKeepsLatch DEF CallDevice, watchdog
  <2>3. CASE handle_recovery \/ ArmCurrent
    BY <2>3, ArmKeepsLatch DEF handle_recovery, ArmCurrent, watchdog
  <2>4. ASSUME NEW e \in Devices, Read(e) \/ device_health(e) \/ Feed(e) PROVE FALSE
    BY <2>4 DEF Read, device_health, Feed, Query, watchdog
  <2>5. ASSUME NEW e \in Devices, NEW f \in Frames, Call(e, f)
        PROVE  ClearedByOperator(d)
    <3>1. PICK ok \in BOOLEAN : CallDevice(e, f, ok)
      BY <2>5 DEF Call
    <3>2. Deliver(e, f)
      BY <3>1 DEF CallDevice, watchdog
    <3>3. f = "clear"
      BY <3>2, DeliverKeepsLatch
    <3>4. e = d
      BY <3>2 DEF Deliver
    <3> QED BY <2>5, <3>3, <3>4 DEF ClearedByOperator
  <2>6. CASE Cap \/ Restart
    BY <2>6 DEF Cap, Restart, watchdog
  <2>7. ASSUME NEW e \in Devices, Trip(e) \/ LocalDisarm(e) PROVE FALSE
    BY <2>7 DEF Trip, LocalDisarm
  <2>8. ASSUME NEW e \in Devices, PowerCycle(e) PROVE ClearedByOperator(d)
    <3>1. e = d
      BY <2>8 DEF PowerCycle
    <3> QED BY <2>8, <3>1 DEF ClearedByOperator
  <2> QED BY <2>1, <2>2, <2>3, <2>4, <2>5, <2>6, <2>7, <2>8
          DEF Next, Recovery, Requests, External
<1> QED BY <1>1, Invariance, PTL DEF Spec, LatchHolds
=============================================================================
