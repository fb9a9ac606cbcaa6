# A TLA+ verification of anolis-provider-bread

anolis-provider-bread is a process between the Anolis runtime and a rack of
BREAD boards (RLHT heaters and DCMT motor drivers) on one I2C bus that speaks
CRUMBS. It finds the boards, drives their outputs to a safe state, arms their
command watchdogs, and then serves reads, calls and health queries. This
directory models its control logic in TLA+, checks it with TLC and proves its
safety properties with TLAPS. Paths below are relative to the repository, whose
sources are under `src/` of it.

## 1. The system and its parts

| Part | State | Operations | Interacts with |
|---|---|---|---|
| CRUMBS session (`crumbs/session.cpp`) | mutex, per-address counters, last-op-failed and recovery-pending sets | open, close, scan, send, read, query_read, record_rejection, take_recovery | the transport below; shared by the handler and keepalive threads |
| Transport (`crumbs/crumbs_transport.cpp`) | open bus | send, read, scan: ok, failed or timed out | the bus |
| Set confirmation (`devices/common/set_confirm.cpp`) | none between calls | baseline read, send, acknowledgement read, re-send | the session; used by both adapters and the safe outputs |
| Safe outputs (`devices/common/safe_outputs.cpp`) | result of a drive | drive: every step of the adapter's sequence | start-up and recovery |
| Watchdog helpers (`devices/common/watchdog.cpp`) | none | arm_if_configured, rearm_if_rebooted, query_status | start-up, recovery, health, keepalive |
| Keepalive (`devices/common/watchdog_keepalive.cpp`) | thread, next due times, done, capped | start, tick, contacted, destruction (stop and join) | its own thread; contacted by the handlers |
| Provider runtime (`core/bread_provider_runtime.cpp`) | none (uses the snapshot) | read, call, device_health, handle_recovery, readiness | called by the SDK on one thread |
| Runtime state (`core/runtime_state.cpp`) | published snapshot, session, transport, keepalive, g_mutex | initialize, publish_not_ready, reset, process exit, snapshot, session, note_contact, record_safe_outputs | everything |
| Discovery (`core/startup.cpp`) | probes, unprobed addresses, deadline | run_discovery, probe_device, query_reply | session, inventory |
| Inventory (`devices/common/inventory.cpp`) | served and missing devices | build_inventory_from_probes, build_capabilities, find_device | discovery, handlers |
| Adapters (`devices/dcmt`, `devices/rlht`) | none | build_frame, transmit, read_signals, safe_output_steps | set confirmation, session |
| Configuration (`config/provider_config.cpp`, `config/config_schema.cpp`) | none | load_config: drop_rlht_encoders, validation, defaults | start-up, which refuses a file that does not load |
| Host check, command line, logging | – | probing the host, text | not modelled (section 7) |

What is hard here: two threads on one bus whose query is two transfers; writes
whose reported result says nothing about delivery; boards that reboot, trip or
are disarmed between two requests; a sequence of safe-output steps of which any
may be lost; a provider that restarts with the outputs on; a serial keepalive
that must beat several hardware timers; a start-up budget that ends between two
probes; 16-bit encodings with a sentinel. Each is a line of `hazards` in
`PROJECT.json`, with the property that watches it.

What makes the parts correct:

* session: a reply answers its own query, each attempt is counted, each outage
  signals one recovery, a dead bus stalls an operation once;
* set confirmation: OK means acted on, or handled where the firmware cannot refuse;
  a denial means not delivered, a re-send only follows a frame the device did not
  count, a call returns;
* runtime: a device driven safe is off or reported FAULT; a trip is released by
  an operator only; a disarmed watchdog is armed again; an outage is handled;
* keepalive: no device trips while it is waited for, every uncontacted one trips
  after the cap, no feeding after the first contact;
* runtime state: nothing is used after it is destroyed, one generation of objects
  exists at a time, every request is answered and every lifecycle step ends;
* configuration and discovery: a row of the file is served as it asks or missing
  with the true cause, an encoders key never costs a file, ids are distinct and
  route to their device, start-up always publishes;
* adapters: what reaches the device is what was asked, a declared value is accepted, no
  closed loop without encoders, no drive against a brake; a read returns the
  signals that were declared, each from its field, and no value the device did
  not give.

## 2. The modules

| Module | Models | Actions |
|---|---|---|
| `CrumbsSession` | session and transport outcomes | `Open`, `close`, `Begin` (takes the lock), `Write`, `Read`, `Scan` (one per transfer), `record_rejection`, `take_recovery` |
| `AtomicSession` | what the session promises a caller, without mutex, transfers, attempts or staged replies | `Ask`, `Refuse`, `Succeed`, `Fail`, `Take` |
| `SetConfirm` | `transmit_confirmed` and the device's acknowledgement record | `Call`, `ReadBaseline`, `Write`, `ReadAck`, `Reboot` |
| `ProviderRuntime` | start-up order, handlers, recovery, safe outputs, watchdogs, keepalive feeding, the boards | `apply_outputs_policy`, `Drive` (one per step), `StartArming`, `ArmAtStartup`, `Publish`, `Read`, `Call`, `handle_recovery`, `ArmCurrent`, `device_health`, `Feed`, `Cap`; from outside `Trip`, `PowerCycle`, `LocalDisarm`, `Restart` |
| `RuntimeState` | publication and teardown of the objects the globals own, the three mutexes, the requests and the keepalive thread that use them | `initialize`, `Open`, `Discover`, `Start`, `PublishNew`, `NotReady`, `reset`, `Exit`, `Stop`, `Destroy`; the thread's `Tick`, `Feed`, `FedOne`, `Wait`; a request's `Dispatch`, `Snapshot`, `note_contact`, `contacted`, `GetSession`, `Use`, `Used`, `record_safe_outputs` |
| `ProviderConfig` | `load_config` and its schema, as operators | |
| `Discovery` (extends `ProviderConfig`) | loading, discovery, version gate, inventory building, publication | `load_config`, `OpenBus`, `ListAddresses`, `NextAddress`, `QueryVersion`, `QueryCaps`, `StartBuild`, `Place`, `PublishReady`, `build_seed_probes`, `Deadline` |
| `Keepalive` | the keepalive thread in time | `Arm`, `Armed`, `Construct`, `Tick`, `Skip`, `Feed`, `Fed`, `EndTick`, `contacted`, `Clock` |
| `Signals` | declared signals and what a read makes of a reply, for both boards, as operators | |
| `DeviceAdapter` (extends `Signals`) | declared functions, frame building, checks, send, state parsing, for both boards | `Call`, `Check`, `Send`, `Read`, `EngageBrakes` |
| `CrumbsSessionProofs`, `SetConfirmProofs`, `ProviderRuntimeProofs`, `RuntimeStateProofs`, `DiscoveryProofs`, `KeepaliveProofs`, `DeviceAdapterProofs` | theorems about the module each is named after | |
| `CrumbsSessionRefinement` | that `CrumbsSession` implements `AtomicSession` | |
| `MC*` | constants for TLC | |

How the abstraction goes, by module:

* **CrumbsSession.** One record per thread says where in
  `execute_with_retry` it is; `holder` is `mutex_`. A transfer ends Ok, Failed or
  TimedOut (`ETIMEDOUT`, which is not retried); a failed write may have landed.
  `staged` is the reply opcode on the device. `transfers`, `recoveries` and
  `failedAtTake` are history variables for the counters' and signals' properties.
* **AtomicSession.** Asking and answering are the two steps a caller sees; the
  answer is the step that counts the operation and decides about the recovery
  signal. `CrumbsSession` is mapped to it by `Pending` (what each thread waits for)
  and `Answer` (what its last operation returned); counters and sets are its own.
* **SetConfirm.** The device has an acknowledgement record (counter modulo
  `Modulus`, opcode, status). A frame is taken or lost independently of what the
  write reports. CRUMBS may reject a frame on any firmware; only firmware with
  `*_CAP_REFUSES` refuses one. APPLIED means acted on there, and merely dispatched
  to a handler elsewhere (`set_confirm.hpp:30-31`): a tripped board of that kind
  ignores a frame it counts as APPLIED, so `Take` leaves open whether it acts.
  `counted` counts what the device counted for this call, `handled` the frames that
  reached a handler since it last booted and `live` those it acted on since; `cut`
  records that it lost power: a reboot can put the counter back on the baseline, so
  "not applied" and a re-send are only promised of a device that kept its power.
  The counter is 8 bits in
  the code; a call moves it by at most `kConfirmedSends * (RetryCount + 1)`, so any
  larger modulus behaves like it, and the runs use one just above that bound.
* **ProviderRuntime.** An output is a mode, a setpoint and a duty, each zero or
  not. A board is described by `DeviceConfig`: kind, watchdog configured, trip
  latch, acknowledgements, refusals. A board with the latch offers
  `clear_watchdog_trip` whether or not its watchdog is configured, and may have been
  armed or tripped under an earlier configuration. The session is reduced to its `failing` and
  `pending` sets, a confirmed SET to its result (each is what `CrumbsSession` and
  `SetConfirm` establish). Handlers run on one thread, so `pc` is the step it is
  at; keepalive and outside actions interleave with it. `commanded` is history:
  the devices a call may have driven since they were last driven safe. `Fault`
  counts every lost frame, trip, power cut and restart up to `MaxFaults`.
* **RuntimeState.** A generation is the transport, session and keepalive that one
  `initialize` makes; `published` is the one the globals own, 0 for none, and
  `doomed` what the destructors have still to destroy, in the order of the code
  at each of its places. A critical section in which no other lock is taken and no
  transfer made is one step; the others are split where the second lock is taken.
  The SDK's run loop is external: it dispatches requests, on one or more threads,
  and runs the lifecycle only while none is in progress. What the requests do to
  the devices is `ProviderRuntime`'s.
* **ProviderConfig.** A file is a record of what the YAML says, `Absent` for a key
  it does not have. Validation is the conjunction of the schema's rules for the
  fields that start-up depends on.
* **Discovery.** A board is a type, a version verdict and whether it advertises
  closed loops; an id is a name and a number. The deadline may pass at any step
  (`late`). A probe is two queries, each asked again on a stale reply, up to
  `kStaleReplyAttempts`.
* **Keepalive.** Time is a tick counter. A bus operation takes up to `OpTime`
  ticks with the keepalive's mutex held, and its frame reaches the device at its
  start, its end or never, at most `MaxLost` times in a row per device.
* **DeviceAdapter.** Values are integers; setpoints in hundredths of a degree, so
  that rounding to tenths is visible. Encoding to bytes and back is modelled byte
  by byte, since the properties compare what was asked with what the firmware
  decodes. `Send` is `transmit_confirmed` by its outcomes, which depend on the
  firmware's `set_confirmation`: without acknowledgements, or with delivery-only
  ones, OK is also the answer to a frame that was lost or not acted on. A
  thermocouple selection that is refused, ignored or unconfirmed may have changed
  one of the two channels (`applied.on`).
* **Signals.** A reply is its mode, its length, the fields that hold the sentinel
  and the thermocouple selections; a value served is its signal, the field it is
  read from, and its quality. Two assumptions on the firmware are made here, as the
  code makes them: a DCMT in closed position always knows its positions
  (`dcmt_adapter.cpp:78-79` serves them unchecked), and an RLHT's mode byte is one of
  its two modes (`rlht_adapter.cpp:142` serves any other as `closed_loop`). A DCMT's
  mode byte may be any.

## 3. What the runs check

| Run | Config | Result | Shows |
|---|---|---|---|
| session | MCCrumbsSession | pass | two threads, one device, two opcodes, one retry, three operations: `ReplyIsTheAskedOne`, `EveryAttemptIsCounted`, `RecoveryPerOutage`, `OutageNotForgotten`, `OneStallPerOperation`, and the refinement `ImplementsAtomicSession` |
| set_confirm | MCSetConfirm | pass | writes retried once, power lost at any step: `OkMeansConfirmed`, `DeniedMeansNotApplied`, `ResendOnlyIfUncounted`, `CallReturns` |
| set_confirm_older | MCSetConfirmOlder | violation | `WrittenOnce`: finding 3 |
| runtime | MCProviderRuntime | pass | one device, every kind of firmware, both policies, three faults: `SafeOrFault`, `HealthReleasesNoTrip`, `LatchHolds`, `StaysArmed`, `OutageIsHandled` |
| runtime_legacy | MCProviderRuntimeLegacy | violation | `OnlyOperatorReleases`: finding 1 |
| runtime_step | MCProviderRuntimeStep | violation | `EachStepIsSafe`: finding 4 |
| discovery | MCDiscovery | pass | two addresses, every kind of board, files with up to two rows and both sides of each schema rule, scan, manual and mock: `ServedXorMissing`, `MissingForCause`, `ServedAsFound`, `EncodersNeverRefused`, `EventuallyPublished` |
| discovery_routes | MCDiscoveryRoutes | violation | `ConfiguredIdRoutes`: finding 2 |
| keepalive | MCKeepalive | pass | two devices with timeouts 20 and 25, cap 23, a clock of 55: `FedUntilCap`, `TripsAfterCap`, `NoFeedOnceContacted` |
| runtime_state | MCRuntimeState | pass | two handlers, one device, two initialisations, three ticks, three requests: `NothingDangles`, `OneGeneration`, `RequestIsAnswered`, `LifecycleEnds` |
| adapter | MCDeviceAdapter | pass | both sides of every bound of every function, firmware of every confirmation: `AppliedIsAsked`, `DeclaredIsAccepted`, `NoLoopWithoutEncoders`, `BrakedIsRefused`; every reply of both boards: `ReadAsDeclared`, `NoFabricatedValue` |
| adapter_sentinel | MCDeviceAdapterSentinel | violation | `DeclaredTargetIsReadable`: finding 5 |

Each module with variables that a run checks also has one `TypeOK`. Every property of a passing run has a mutant of
the code that breaks it (`mutants` in `PROJECT.json`; the operators named
`<definition>_<what is wrong>` in the modules).

**Bounds.** Two threads are enough for every interleaving on one mutex; one retry
is the default configuration's shape and gives first, middle and last attempts;
three operations let an outage begin, end and begin again; one recorded rejection
per address (`MaxRejections`) interleaves it with everything else. Three faults let a drive lose
a step, the device reboot and the provider restart in one behaviour; one device is
enough there because the theorems cover any number. Two
addresses give a configured board beside an unconfigured one, above or below it, two
configured ones, and two generated ids of one type; every property compares at
most two devices. Two generations (`MaxGens`) are an old one and its replacement;
`MaxRequests` lets both handlers be in a request while a third follows, and
`MaxTicks` lets the keepalive feed before, during and after a request, and reach its
cap. The
keepalive clock passes the cap plus the longest timeout. `Margin` (a definition of
`Keepalive`, which `MCKeepalive` assumes of the run's values) says how long a timeout
must be: a quarter of it for every feed that may be lost and one more, and a round of
operations on all devices for each of those and two more. Without it `FedUntilCap` is
not true of the code, as a serial thread cannot feed devices whose timeouts it cannot
keep up with.

**Deadlock** is checked except in Discovery (start-up ends with a published
state), Keepalive (the bounded clock ends) and RuntimeState (the process exits). In
the last a deadlock of the three mutexes would violate `RequestIsAnswered` or
`LifecycleEnds`.

**Fairness.** `SetConfirm`: weak fairness of the call's own steps; each is a
function call that returns. `Discovery`: the same for start-up; the deadline is
not fair. `RuntimeState`: weak fairness of each thread's own steps (the run loop in
a lifecycle step, each handler in a request, each keepalive thread); no lock is
fair, so that a thread that waits for one is only promised it once it stays free,
and what makes that enough is that the keepalive stops at its cap and the bounded
requests run out. `ProviderRuntime`: weak fairness of start-up and recovery steps, which
the handler thread runs to the end once begun, and strong fairness of `Read` and
`device_health` for each device, because the runtime polls every device and its
health again and again, and the handler thread returns to serve it between other
requests. Nothing outside is fair: no lost frame, trip, reboot or restart need
happen. Faults are finite in number (`MaxFaults`), so the liveness properties say
what happens once the bus is left in peace.

## 4. What is proved

Every safety property that a passing run checks (each invariant and each action
property without fairness) is also a theorem, for every value of the constants that
the module's named assumption allows. The proofs of a module follow one scheme: an
inductive invariant `Inv`, a conjunction of named parts defined in the module itself;
a lemma that `Init` implies it; a lemma per action, and where actions share an
ending (an attempt that ends, a probe that returns, a record that is placed) a lemma
for that ending; `Invariance`, `Spec => []Inv`; and a short theorem per property.
Every `Inv` was checked with TLC on the run's instance before it was proved.

**CrumbsSession** (any callers, addresses, opcodes, retry count and number of
operations, from `SessionAssumption`: the distinguished values are not members of the
sets, the bounds are naturals): `TypeCorrect`, `ReplyCorrect`, `CountersCorrect`,
`RecoveryCorrect` (`RecoveryPerOutage`), `OutageCorrect` (`OutageNotForgotten`) and
`StallBound`. The properties are not inductive alone: `LockInv` (exactly the holder
of the mutex is inside an operation) gives that no other thread changes `staged`
between a query's two transfers, and `OpInv` ties the phase of an operation to its
kind and, once its SET_REPLY has landed, the staged reply to the question.

**The refinement** (`CrumbsSessionRefinement`): `Spec => ImplementsAtomicSession`,
every behaviour of the session is one of `AtomicSession` under the mapping `Pending`,
`Answer`. `LockInv` and `OpInv` make the step that ends an operation an atomic
`Succeed` or `Fail`; every other step of an operation (a transfer, a failed attempt
that is tried again) is a stutter.

**SetConfirm** (any opcodes, any retry count, any modulus above the frames of one
call, any number of reboots): `TypeCorrect`, `OkCorrect`, `DenialCorrect`, and the
action property `ResendCorrect`. `AdvanceInv` carries the argument: a device that kept
its power is ahead of the baseline by exactly what it counted, and `BoundInv` keeps
that below the modulus, so an unchanged counter means that nothing was counted.
`AppliedInv` covers reboots: a record that says APPLIED is the one the baseline read
found, or of this boot, and then the frame was handled and, where the firmware would
have refused it, acted on. `OkCorrect` (`OkMeansConfirmed`) is as strong as what the
source promises of each firmware: acted on for `Acknowledged`, delivered for
`DeliveryOnly`, nothing for `Unconfirmed`.

**ProviderRuntime** (any devices, configurations and number of faults): `TypeCorrect`,
`SafeCorrect` (`SafeOrFault`) and two action properties, `RearmCorrect`
(`HealthReleasesNoTrip`) and `LatchCorrect` (`LatchHolds`). `DriveInv` is the
strengthening that matters: while the steps of a drive have all been confirmed,
`Driven(d, n)` says what those before step n achieved (no setpoint, then open loop),
unless a trip or power cut did more. `TripInv` (a tripped device has neither setpoint
nor duty) makes trips harmless to it, and `LeaveInv` covers the policy that drives
nothing. For `RearmCorrect`, `RearmInv` says that a device found disarmed and not
tripped cannot trip before it is armed.

**RuntimeState** (any handlers, devices, generations, requests and ticks):
`TypeCorrect`, `DanglesCorrect` (`NothingDangles`) and `OneGenerationCorrect`.
`OwnerInv` says that every object has exactly one owner (the globals, the
initialisation or the destruction under way) and that a keepalive is destroyed before
the session and transport its thread uses. `ThreadInv` and `RequestInv` are what the
two kinds of users rely on: a running thread's keepalive has not been destroyed, and
no lifecycle step runs while a request is served.

**Discovery with ProviderConfig** (any addresses, boards and files of any length, from
`DiscoveryAssumption`: the addresses of the model are bus addresses and include those
the files name, and a missing key is not a Boolean): `TypeCorrect`,
`EncodersCorrect`, `AccountCorrect` (`ServedXorMissing`), `CauseCorrect`
(`MissingForCause`) and `FoundCorrect` (`ServedAsFound`). `ConfigInv` is what a valid
file gives, and needs the schema's uniqueness rules and the drop of the RLHT encoders;
`OrderInv` says that an address is listed, skipped, being probed or probed and never
two of these; `ProbeInv` that a record is what the bus did; `BuildInv` that what has
been placed is served or excluded for what its record says; `PublishInv` ties the
report to it.

**Keepalive** (any finite set of devices, any timeouts, cap, operation time and number of losses):
`TypeCorrect`, `CapCorrect` (`TripsAfterCap`), `ContactCorrect`
(`NoFeedOnceContacted`) and, under the hypothesis `Margin`, `FedCorrect`
(`FedUntilCap`). `RoundInv` bounds a loop over the devices, `DueInv` says that no tick
is later than a round after a device's due time, and `LateInv` how far a device's due
time is from its last frame after n lost feeds.

**DeviceAdapter with Signals** (any integers as arguments, any profile):
`TypeCorrect`, `AskedCorrect` (`AppliedIsAsked`), `DeclaredCorrect`
(`DeclaredIsAccepted`), `LoopCorrect`, `BrakeCorrect`, `ReadCorrect` and
`ValueCorrect`. They rest on lemmas about the encodings: the 8-bit, unsigned and
signed 16-bit encoders are undone by the device's decoding for exactly the values
within their bounds, and `llround` is the nearest tenth within the wire's range.
`CallInv` says that a device applies nothing but the frame of the call, whole or, for
a thermocouple selection, on one channel. `BrakeCorrect` is about brakes engaged when
the call began and a state that could be read: what engages between the check and the
send, and what is sent because the state could not be read, the code leaves open.

What the proofs found out about the models: `Margin` was too weak for more devices
and losses than the run has, since each lost feed costs an interval and a round, and
the arming, the tick under way and the tick that feeds cost three rounds more; what
`Discovery.TypeOK` says of the deadline lacked its parentheses; and where several
guards of a `CASE` could hold at once the order of the code's tests is now an `IF`
chain.

Only model-checked: the liveness properties (`CallReturns`, `StaysArmed`,
`OutageIsHandled`, `EventuallyPublished`, `RequestIsAnswered`, `LifecycleEnds`), as
liveness under fairness is outside what the prover does, and the violations of
section 5, which are counterexamples.

## 5. What disagrees with the source's own text

1. `OnlyOperatorReleases` (it holds, as `LatchHolds`, where the trip latches):
   `watchdog.hpp:16` says arming never clears a trip; on
   firmware without the latch the start-up and recovery arming do (the change log
   says so, the header does not).
2. `ConfiguredIdRoutes`: an unconfigured board may be given a configured device's
   id and receive its requests; in the run's trace the configured board did not
   answer the scan and its id is both missing and served.
3. `WrittenOnce`: a device that does not acknowledge may take one call's frame
   twice, as the session retries the write. A confirmed frame can be applied twice
   in the same way, by the writes of one send; the confirmation's own loop adds
   none (`ResendOnlyIfUncounted`).
4. `EachStepIsSafe`: the RLHT open_loop step can turn an output on that the step
   before turned off, when a duty is left from before. The result is still
   reported if the next step is lost.
5. `DeclaredTargetIsReadable`: the lowest declared DCMT target is the firmware's
   sentinel for a missing value; after it the device cannot be read.

## 6. Plan

Done: the session, confirmation, runtime, discovery, keepalive and adapter modules
in that order (the safety path from the bus up), then publication and teardown
(`RuntimeState`), the configuration in front of discovery, the signals behind a
read, and the atomic session with its refinement; the proofs of all safety
properties.

Next, in order:

1. An abstract specification of a setter call (applied, not applied, unknown) that
   `SetConfirm` implements and `ProviderRuntime`'s `CallDevice` uses, with the
   refinement proved.
2. The capability fallback of a probe together with arming: a board whose
   capabilities could not be read is not armed although configured
   (docs/troubleshooting.md says so), until the provider restarts.

## 7. What is not modelled

* YAML, and what a schema rule means: libraries, modelled from how the schema uses
  them. The bus timing fields, names and labels of a file change no control. A
  `retry_count` at the schema's limit overflows `retry_count + 1`; `CrumbsSession`
  takes any natural number instead.
* The host check: reads `/dev` and `/sys`; only its verdict matters to start-up.
* Command line, logging, labels, descriptions, units.
* The canned bus's sensor data: a test double.
* Frame check sums and the CRUMBS library itself: a corrupted frame is a failed
  transfer.
* The e-stop: what it makes a board refuse or ignore is among the refused and ignored
  frames of `SetConfirm` and `DeviceAdapter`; `ProviderRuntime` has no e-stop of its own.
* The loop selector byte of the two PID frames, which is folded into the function.
* Several bus operations of one request: `RuntimeState.Use` is one use of the session
  for all of them, and a handler's early returns after `note_contact` are not told
  apart from it. An exception after discovery (`publish_not_ready`) is in
  `RuntimeState`, not in `Discovery`.
* The duration of the bus scan: `Discovery` has no clock.
* A lifecycle step during a request. The SDK does not start one, and
  `NothingDangles` depends on it: `session()` gives out a pointer that no lock
  protects. (`runtime_state.hpp` calls it valid until `reset()` or a successful
  `initialize()`; a failed `initialize()` destroys the session too.) While a new
  generation starts, the old keepalive goes on feeding through the old session
  until the publication, as in the model.
