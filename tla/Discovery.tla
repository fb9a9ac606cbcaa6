------------------------------ MODULE Discovery ------------------------------
(***************************************************************************)
(* How the provider comes to its inventory: main's load of the             *)
(* configuration file (ProviderConfig), initialize and                     *)
(* initialize_until up to the publication of the snapshot                  *)
(* (src/src/core/runtime_state.cpp), run_discovery and probe_device        *)
(* (src/src/core/startup.cpp), the compatibility gate                      *)
(* (src/src/devices/common/bread_compatibility.cpp) and                    *)
(* build_inventory_from_probes (src/src/devices/common/inventory.cpp).     *)
(*                                                                         *)
(* An address holds a board or nothing.  What the probe learns of a board  *)
(* is its type, whether its version passes the gate, and whether its       *)
(* capability flags advertise the closed loops.  Device ids are pairs, so  *)
(* that a configured id can be one the provider would generate: "rlht0" is *)
(* <<"Rlht", 0>>.  The loops of the code are steps here: one query, one    *)
(* probe record at a time.  Boards, scan results and the clock are         *)
(* external.                                                               *)
(***************************************************************************)
EXTENDS ProviderConfig

CONSTANTS Addresses,  \* bus addresses
          Files,      \* the configuration files: FileType records
          Boards,     \* what may sit at an address: BoardType records
          NoBoard     \* nothing sits there

Types == {"Rlht", "Dcmt"}

\* version: what the version payload makes of the gate.
BoardType == [type : Types \cup {"Other"},
              version : {"ok", "short", "crumbs", "major"}, loops : BOOLEAN]

\* The bus addresses a file names, in its rows and in its list.
Named(f) ==
    {f.devices[i].address : i \in DOMAIN f.devices}
    \cup (IF f.addresses = Absent THEN {} ELSE Range(f.addresses))

ASSUME DiscoveryAssumption ==
    /\ Addresses \subseteq I2cAddress /\ Addresses # {}
    /\ \A f \in Files : Named(f) \cap I2cAddress \subseteq Addresses
    /\ Absent \notin BOOLEAN
    /\ Files \subseteq FileType /\ Files # {}
    /\ Boards \subseteq BoardType /\ NoBoard \notin BoardType

VARIABLES
    file,        \* the configuration file
    config,      \* the ProviderConfig loaded from it
    budget,      \* there is a deadline
    board,       \* external: what sits at each address
    pc,          \* where start-up is
    late,        \* external: the deadline has passed
    todo,        \* addresses still to probe
    addr, tries, \* the address being probed, or None; query_reply's attempt
    probes,      \* ProbeRecords made
    unprobed,    \* addresses left out for lack of time
    left,        \* sorted_probes still to place
    count,       \* rlht_index, dcmt_index
    devices,     \* supported_devices
    excluded,    \* unsupported_probes
    missing,     \* missing_expected_ids
    detail,      \* missing_expected_details by id, "" where there is none
    hurt,        \* history: addresses at which a version query failed
    seen         \* history: stale version replies read at each address

given   == <<file, config, budget, board>>
probing == <<todo, addr, tries, probes, unprobed, hurt, seen>>
build   == <<left, count, devices, excluded>>
report  == <<missing, detail>>
vars    == <<given, pc, late, probing, build, report>>

\* No address is being probed: 0 is the general call, never a device's.
None == 0

\* ProviderConfig's own defaults, before anything is loaded.
NoConfig == [mock |-> FALSE, mode |-> "manual", addresses |-> {}, devices |-> {}]

specs == config.devices
mode == IF config.mock THEN "mock" ELSE config.mode

Init ==
    /\ file \in Files /\ config = NoConfig /\ budget \in BOOLEAN
    /\ board \in [Addresses -> Boards \cup {NoBoard}]
    /\ pc = "load" /\ late = FALSE
    /\ todo = {} /\ addr = None /\ tries = 1
    /\ probes = {} /\ unprobed = {}
    /\ hurt = {} /\ seen = [a \in Addresses |-> 0]
    /\ left = {} /\ count = [t \in Types |-> 0]
    /\ devices = {} /\ excluded = {}
    /\ missing = {} /\ detail = [i \in {} |-> ""]

-----------------------------------------------------------------------------
(* Loading the file, opening the bus and listing the addresses. *)

\* main: a file that does not load ends the process.
load_config ==
    /\ pc = "load"
    /\ LET f == drop_rlht_encoders(file) IN
       \/ validate(f) /\ config' = ProviderConfigOf(f) /\ pc' = "open"
       \/ ~validate(f) /\ pc' = "rejected" /\ UNCHANGED config
    /\ UNCHANGED <<file, budget, board, late, probing, build, report>>

\* publish_not_ready: no devices, every configured one missing.
publish_not_ready ==
    /\ pc' = "not ready"
    /\ devices' = {}
    /\ missing' = {s.id : s \in specs}
    /\ detail' = [i \in missing' |-> "not ready"]
    /\ UNCHANGED <<given, late, probing, left, count, excluded>>

\* The host check and Session::open; a mock bus is opened after the inventory
\* is built, and then either opens or makes initialize throw.
OpenBus ==
    /\ pc = "open" /\ mode # "mock"
    /\ \/ publish_not_ready
       \/ /\ pc' = "list"
          /\ UNCHANGED <<given, late, probing, build, report>>

\* The addresses to probe: in scan mode those that answered the scan, of the
\* boards there are; in manual mode the configured list.  A failed scan throws.
ListAddresses ==
    /\ pc = "list"
    /\ \/ /\ pc' = "probe"
          /\ \/ /\ mode = "scan"
                /\ todo' \in SUBSET {a \in Addresses : board[a] # NoBoard}
             \/ mode = "manual" /\ todo' = config.addresses
          /\ UNCHANGED <<given, late, addr, tries, probes, unprobed, hurt, seen,
                         build, report>>
       \/ mode = "scan" /\ publish_not_ready

\* build_seed_probes: a supported probe for every configured device, with the
\* seeded profile, whose DCMT flags have the closed loops.
build_seed_probes ==
    /\ pc = "open" /\ mode = "mock"
    /\ probes' = {[addr |-> s.address, status |-> "Supported", type |-> s.type,
                   loops |-> s.type = "Dcmt"] : s \in specs}
    /\ left' = probes'
    /\ pc' = "build"
    /\ UNCHANGED <<given, late, todo, addr, tries, unprobed, hurt, seen, count,
                   devices, excluded, report>>

\* external: the WaitReady budget runs out; run_discovery looks at it between
\* probes and nobody does afterwards.
Deadline ==
    /\ budget /\ ~late
    /\ pc \in {"open", "list", "probe", "version", "caps"}
    /\ late' = TRUE
    /\ UNCHANGED <<given, pc, probing, build, report>>

-----------------------------------------------------------------------------
(* Probing, one address after the other. *)

\* Mutant: an address there is no time for stays on the list.
Skip_Keeps(a) == late /\ UNCHANGED <<todo, unprobed, pc, addr, tries>>

\* Out of time: the address is left out.
Skip(a) ==
    /\ late
    /\ todo' = todo \ {a} /\ unprobed' = unprobed \cup {a}
    /\ UNCHANGED <<pc, addr, tries>>

\* The next address of the list: left out once out_of_time, else probed.
NextAddress ==
    /\ pc = "probe"
    /\ \E a \in todo :
          \/ Skip(a)
          \/ /\ ~late /\ pc' = "version" /\ addr' = a /\ tries' = 1
             /\ todo' = todo \ {a} /\ UNCHANGED unprobed
    /\ UNCHANGED <<given, late, probes, hurt, seen, build, report>>

\* probe_device returns, and its locals are gone.
Probed(status, type, loops) ==
    /\ addr' = None /\ tries' = 1
    /\ probes' = probes \cup {[addr |-> addr, status |-> status, type |-> type,
                               loops |-> loops]}
    /\ pc' = "probe"

kStaleReplyAttempts == 3

\* Mutant: no second attempt at a stale reply.
LastTry_First == TRUE

\* Mutant: one attempt too many.
LastTry_OneMore == tries > kStaleReplyAttempts

LastTry == tries = kStaleReplyAttempts

\* A stale reply with attempts left: query again.
Restage == ~LastTry /\ tries' = tries + 1

\* evaluate_version_compatibility, on a version that could be parsed.
evaluate_version_compatibility(b) ==
    CASE b.version = "crumbs" -> "IncompatibleCrumbsVersion"
      [] b.version = "major"  -> "IncompatibleModuleMajor"
      [] OTHER                -> "Supported"

\* What probe_device makes of a version reply: the family first, then the
\* length of the payload, then the compatibility.
VersionGate(b) ==
    CASE b.type \notin Types    -> "UnsupportedType"
      [] b.type \in Types /\ b.version = "short" -> "VersionReadFailed"
      [] OTHER                  -> evaluate_version_compatibility(b)

\* The version query and the gate.  Nothing answers at an empty address.
QueryVersion ==
    /\ pc = "version"
    /\ \/ /\ Probed("VersionReadFailed", "Other", FALSE)
          /\ hurt' = hurt \cup {addr} /\ UNCHANGED seen
       \/ /\ board[addr] # NoBoard
          /\ seen' = [seen EXCEPT ![addr] = @ + 1] /\ UNCHANGED hurt
          /\ \/ Restage /\ UNCHANGED <<pc, addr, probes>>
             \/ LastTry /\ Probed("VersionReadFailed", "Other", FALSE)
       \/ /\ board[addr] # NoBoard /\ UNCHANGED <<hurt, seen>>
          /\ LET b == board[addr]
                 gate == VersionGate(b) IN
             \/ gate # "Supported" /\ Probed(gate, b.type, FALSE)
             \/ /\ gate = "Supported" /\ pc' = "caps" /\ tries' = 1
                /\ UNCHANGED <<addr, probes>>
    /\ UNCHANGED <<given, late, todo, unprobed, build, report>>

\* The caps query: failed, stale to the end or unreadable means the baseline
\* profile, which has no closed loops.
QueryCaps ==
    /\ pc = "caps"
    /\ \/ Restage /\ UNCHANGED <<pc, addr, probes>>
       \/ \E loops \in {board[addr].loops, FALSE} :
             Probed("Supported", board[addr].type, loops)
    /\ UNCHANGED <<given, late, todo, unprobed, hurt, seen, build, report>>

StartBuild ==
    /\ pc = "probe" /\ todo = {}
    /\ pc' = "build" /\ left' = probes
    /\ UNCHANGED <<given, late, probing, count, devices, excluded, report>>

-----------------------------------------------------------------------------
(* build_inventory_from_probes: the records by ascending address. *)

find_config_match_by_address(p) == {s \in specs : s.address = p.addr}

generated_id(t) == <<t, count[t]>>

\* What of the advertised closed loops a matched device offers.
OfferedLoops(p, s) == p.loops /\ (p.type = "Dcmt" => s.encoders)

build_device(p, id, expected, wd, loops) ==
    [addr |-> p.addr, type |-> p.type, id |-> id, expected |-> expected,
     wd |-> wd, loops |-> loops]

Exclude(p) ==
    /\ excluded' = excluded \cup {p}
    /\ UNCHANGED <<count, devices>>

Serve(p, d) ==
    /\ devices' = devices \cup {d}
    /\ count' = [count EXCEPT ![p.type] = @ + 1]
    /\ UNCHANGED excluded

\* One record: excluded as unsupported or of the wrong type, served under its
\* configured id, or served under a generated one.
Place ==
    /\ pc = "build"
    /\ \E p \in left :
          /\ \A q \in left : p.addr <= q.addr
          /\ left' = left \ {p}
          /\ LET match == find_config_match_by_address(p) IN
             \/ p.status # "Supported" /\ Exclude(p)
             \/ /\ p.status = "Supported"
                /\ \E s \in match :
                      \/ /\ s.type # p.type
                         /\ Exclude([p EXCEPT !.status = "TypeMismatch"])
                      \/ /\ s.type = p.type
                         /\ Serve(p, build_device(p, s.id, TRUE,
                                                  s.command_watchdog_ms,
                                                  OfferedLoops(p, s)))
             \/ /\ p.status = "Supported" /\ match = {}
                /\ Serve(p, build_device(p, generated_id(p.type), FALSE, 0,
                                         p.loops))
    /\ UNCHANGED <<given, pc, late, probing, report>>

Matched(s) == \E d \in devices : d.expected /\ d.addr = s.address

\* The reason published for a missing s: the budget overrides a failed probe.
MissingDetail(s) ==
    LET failed == {p \in excluded : p.addr = s.address} IN
    IF s.address \in unprobed THEN "not probed"
    ELSE IF failed # {} THEN (CHOOSE p \in failed : TRUE).status ELSE ""

Unmatched == IF mode = "mock" THEN {} ELSE {s \in specs : ~Matched(s)}

\* The missing devices and why, then the publication: outputs policy and arming
\* are ProviderRuntime's.  The mock path keeps the devices only, and opening its
\* bus may throw.
PublishReady ==
    /\ pc = "build" /\ left = {}
    /\ \/ /\ pc' = "ready"
          /\ missing' = {s.id : s \in Unmatched}
          /\ detail' = [i \in missing' |->
                          MissingDetail(CHOOSE s \in Unmatched : s.id = i)]
          /\ UNCHANGED <<given, late, probing, build>>
       \/ mode = "mock" /\ publish_not_ready

Step == \/ load_config \/ OpenBus \/ ListAddresses \/ build_seed_probes
        \/ NextAddress \/ QueryVersion \/ QueryCaps
        \/ StartBuild \/ Place \/ PublishReady

Next == Step \/ Deadline

Spec == Init /\ [][Next]_vars

\* initialize runs on the main thread and no bus operation blocks for ever.
FairSpec == Spec /\ WF_vars(Step)

\* readiness: what WaitReady and the health report are made of.  A missing device
\* without a recorded reason was not found.
readiness ==
    [ready      |-> pc = "ready",
     successful |-> devices,
     failed     |-> [i \in missing |-> IF detail[i] = "" THEN "not found" ELSE detail[i]],
     degraded   |-> pc = "ready" /\ missing # {}]

\* find_device: the first device with that id, in the order of the inventory.
find_device(id) ==
    {d \in devices : d.id = id /\ \A e \in devices : e.id = id => d.addr <= e.addr}

-----------------------------------------------------------------------------
(* Properties *)

Statuses == {"Supported", "UnsupportedType", "VersionReadFailed", "TypeMismatch",
             "IncompatibleCrumbsVersion", "IncompatibleModuleMajor"}
ProbeType == [addr : Addresses, status : Statuses, type : Types \cup {"Other"},
              loops : BOOLEAN]
DeviceRecord == [addr : Addresses, type : Types, id : (Names \cup Types) \X Nat,
                 expected : BOOLEAN, wd : 0..max_watchdog, loops : BOOLEAN]
SpecType == [id : Names \X Nat, address : I2cAddress, type : Types,
             command_watchdog_ms : 0..max_watchdog, encoders : BOOLEAN]
ConfigType == [mock : BOOLEAN, mode : {"scan", "manual"},
               addresses : SUBSET I2cAddress, devices : SUBSET SpecType]

TypeOK ==
    /\ file \in FileType /\ config \in ConfigType /\ budget \in BOOLEAN
    /\ board \in [Addresses -> Boards \cup {NoBoard}]
    /\ pc \in {"load", "rejected", "open", "list", "probe", "version", "caps",
               "build", "ready", "not ready"}
    /\ late \in BOOLEAN /\ (late => budget)
    /\ todo \subseteq Addresses /\ addr \in Addresses \cup {None}
    /\ tries \in 1..kStaleReplyAttempts
    /\ probes \subseteq ProbeType /\ left \subseteq probes
    /\ unprobed \subseteq Addresses /\ hurt \subseteq Addresses
    /\ seen \in [Addresses -> 0..kStaleReplyAttempts]
    /\ count \in [Types -> Nat]
    /\ devices \subseteq DeviceRecord /\ excluded \subseteq ProbeType
    /\ missing \subseteq {s.id : s \in specs}
    /\ detail \in [missing -> Statuses \cup {"", "not probed", "not ready"}]

\* The timeout arm_at_startup will put in the u16 field of SET_WATCHDOG.
timeout_ms(d) == d.wd % 65536

\* The rows of the file.
Rows == {file.devices[i] : i \in DOMAIN file.devices}

ServedAs(r, d) ==
    /\ d.expected /\ d.id = r.id /\ d.addr = r.address
    /\ d.type = parse_device_type[r.type]
    /\ timeout_ms(d) = ValueOr(r.command_watchdog_ms, 0)

\* Once start-up has published, every row of the configuration file is
\* accounted for exactly once: served at its own address with its own type and
\* with the watchdog timeout it asks for, to the last bit of the wire field, or
\* reported as failed.  No failed scan, spent budget, excluded probe or mock bus
\* loses one or reports one as both, and a report that is ready and not degraded
\* means that all of them are served.
ServedXorMissing ==
    LET Served(r) == \E d \in readiness.successful : ServedAs(r, d) IN
    pc \in {"ready", "not ready"} =>
        /\ \A r \in Rows : Served(r) # (r.id \in DOMAIN readiness.failed)
        /\ readiness.ready /\ ~readiness.degraded => \A r \in Rows : Served(r)

\* Why s is missing, from what the bus really did.
Cause(s) ==
    IF s.address \in unprobed THEN "not probed"
    ELSE IF s.address \notin {p.addr : p \in probes} THEN "not found"
    ELSE IF s.address \in hurt \/ seen[s.address] = kStaleReplyAttempts
         THEN "VersionReadFailed"
    ELSE IF VersionGate(board[s.address]) # "Supported"
         THEN VersionGate(board[s.address]) ELSE "TypeMismatch"

\* A configured device is missing only for a cause, and the health report says
\* which (#104): its address was not probed, was not listed, its version query
\* failed or was stale three times running, its board failed the gate, or a
\* board of the other type sits there.  A stale staged reply alone excludes
\* nothing (#103).
MissingForCause ==
    pc = "ready" =>
        \A s \in specs : s.id \in missing =>
            /\ readiness.failed[s.id] = Cause(s)
            /\ detail[s.id] = "TypeMismatch" => board[s.address].type # s.type

\* What is served from a bus is really there: a board of that type that passes
\* the gate.  A setting of the file reaches only the device it was written for:
\* an unconfigured device arms no watchdog, and a DCMT whose row says that it
\* has no encoders offers no closed loop, whatever its firmware advertises.
\* Boards without a row are told apart: no two of them share a generated id.
ServedAsFound ==
    \A d \in devices : mode # "mock" =>
        LET b == board[d.addr]
            here == {r \in Rows : r.address = d.addr} IN
        /\ b # NoBoard /\ b.type = d.type /\ VersionGate(b) = "Supported"
        /\ d.wd > 0 => \E r \in here : r.command_watchdog_ms = d.wd
        /\ d.loops => b.loops /\ \A r \in here : d.type = "Dcmt" => r.encoders # FALSE
        /\ \A e \in devices : ~d.expected /\ ~e.expected /\ d.id = e.id => d = e

\* What a row says of encoders is never why a file is refused: the files that
\* Workbench wrote, with encoders on their RLHT rows, still load (#184).
EncodersNeverRefused ==
    pc = "rejected" =>
        ~validate([file EXCEPT !.devices =
                      [i \in DOMAIN @ |-> [@[i] EXCEPT !.encoders = Absent]]])

\* Start-up ends: the file is refused, or the provider publishes a snapshot,
\* ready or not, whatever the devices reply.
EventuallyPublished == <>(pc \in {"rejected", "ready", "not ready"})

\* An id of the configuration, "unique across devices", names the configured
\* device: what the handlers find under it sits at the configured address.
ConfiguredIdRoutes ==
    pc = "ready" =>
        \A s \in specs : \A d \in find_device(s.id) : d.addr = s.address

-----------------------------------------------------------------------------
(* The inductive invariant, in parts. *)

Booting == {"load", "rejected"}
Bus     == {"list", "probe", "version", "caps"}

\* s is what the file asks for with row r.
Asks(r, s) ==
    /\ s.id = r.id /\ s.address = r.address
    /\ s.type = parse_device_type[r.type]
    /\ s.command_watchdog_ms = ValueOr(r.command_watchdog_ms, 0)
    /\ s.type = "Dcmt" /\ s.encoders => r.encoders # FALSE

\* The configuration is that of the file: its rows, each under an id and at an
\* address of its own.
ConfigInv ==
    /\ file \in Files
    /\ pc \notin Booting =>
          /\ \A r \in Rows : \E s \in specs : Asks(r, s)
          /\ \A s \in specs : \E r \in Rows : Asks(r, s)
          /\ \A s, t \in specs : s.id = t.id \/ s.address = t.address => s = t
          /\ \A s \in specs : s.address \in Addresses
          /\ config.addresses \subseteq Addresses

\* An address is listed, skipped, being probed or probed, never two of them.
OrderInv ==
    /\ pc \in Bus => mode # "mock"
    /\ pc \in {"version", "caps"} <=> addr # None
    /\ pc \in Booting \cup {"open", "list"} => probes = {} /\ unprobed = {} /\ todo = {}
    /\ todo \cap unprobed = {} /\ addr \notin todo \cup unprobed
    /\ \A p \in probes : p.addr \notin todo \cup unprobed \cup {addr}
    /\ \A p, q \in probes : p.addr = q.addr => p = q

\* The record of a probe is what the bus did: the query failed, was stale to the
\* end, or the board that sits there answered it.
Truthful(p) ==
    IF p.addr \in hurt \/ seen[p.addr] = kStaleReplyAttempts
    THEN p.status = "VersionReadFailed"
    ELSE /\ board[p.addr] # NoBoard
         /\ p.type = board[p.addr].type /\ p.status = VersionGate(board[p.addr])
         /\ p.loops => board[p.addr].loops

ProbeInv ==
    /\ \A a \in hurt : \E p \in probes : p.addr = a
    /\ \A a \in Addresses : seen[a] # 0 => a = addr \/ \E p \in probes : p.addr = a
    /\ pc = "version" => seen[addr] = tries - 1
    /\ pc = "caps" => /\ seen[addr] # kStaleReplyAttempts /\ board[addr] # NoBoard
                      /\ VersionGate(board[addr]) = "Supported"
    /\ \A p \in probes : /\ p.status # "TypeMismatch"
                         /\ p.status = "Supported" => p.type \in Types
    /\ mode # "mock" => \A p \in probes : Truthful(p)
    /\ mode = "mock" =>
          /\ unprobed = {}
          /\ pc \in {"build", "ready"} =>
                \A s \in specs : \E p \in probes :
                    p.addr = s.address /\ p.status = "Supported" /\ p.type = s.type

\* d is served from record p: as the device configured there, or under a
\* generated id where none is.
FromProbe(d, p) ==
    /\ p.addr = d.addr /\ p.status = "Supported" /\ p.type = d.type
    /\ d.loops => p.loops
FromSpec(d, s) ==
    /\ s.address = d.addr /\ s.type = d.type /\ s.id = d.id
    /\ s.command_watchdog_ms = d.wd
    /\ d.loops /\ d.type = "Dcmt" => s.encoders
Generated(d) ==
    /\ \A s \in specs : s.address # d.addr
    /\ d.wd = 0
    /\ \E n \in 0..count[d.type] - 1 : d.id = <<d.type, n>>

\* x is in the list of the excluded because of record p.
FromExcluded(x, p) ==
    /\ x.addr = p.addr
    /\ IF p.status = "Supported"
       THEN /\ x.status = "TypeMismatch"
            /\ \E s \in specs : s.address = p.addr /\ s.type # p.type
       ELSE x.status = p.status

\* What has been placed is served or excluded, for what its record says.
BuildInv ==
    /\ pc \in Booting \cup Bus \cup {"open"} => left = {} /\ devices = {} /\ excluded = {}
    /\ \A d \in devices :
          /\ \E p \in probes \ left : FromProbe(d, p)
          /\ IF d.expected THEN \E s \in specs : FromSpec(d, s) ELSE Generated(d)
    /\ \A d, e \in devices : ~d.expected /\ ~e.expected /\ d.id = e.id => d = e
    /\ \A x \in excluded : \E p \in probes \ left : FromExcluded(x, p)
    /\ pc \in {"build", "ready"} =>
          \A p \in probes \ left : \A s \in find_config_match_by_address(p) :
              IF p.status = "Supported" /\ p.type = s.type
              THEN Matched(s) ELSE \E x \in excluded : x.addr = p.addr

\* What has been published.
PublishInv ==
    /\ pc = "ready" => /\ left = {} /\ missing = {s.id : s \in Unmatched}
                       /\ \A s \in Unmatched : detail[s.id] = MissingDetail(s)
    /\ pc = "not ready" => devices = {} /\ missing = {s.id : s \in specs}
    /\ pc \notin {"ready", "not ready"} => missing = {}

Inv == TypeOK /\ ConfigInv /\ OrderInv /\ ProbeInv /\ BuildInv /\ PublishInv
       /\ EncodersNeverRefused
=============================================================================
