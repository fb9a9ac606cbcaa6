-------------------------- MODULE DiscoveryProofs --------------------------
(***************************************************************************)
(* Theorems about Discovery, for every set of addresses, files and boards. *)
(***************************************************************************)
EXTENDS Discovery, TLAPS

-----------------------------------------------------------------------------
(* load_config: what a valid file asks for. *)

\* drop_rlht_encoders touches the encoders of RLHT rows and nothing else.
LEMMA DropFacts ==
  ASSUME NEW f \in FileType
  PROVE  LET g == drop_rlht_encoders(f) IN
         /\ g.bus_path = f.bus_path /\ g.mode = f.mode /\ g.addresses = f.addresses
         /\ DOMAIN g.devices = DOMAIN f.devices
         /\ \A i \in DOMAIN f.devices :
               /\ f.devices[i] \in RowType /\ g.devices[i] \in RowType
               /\ g.devices[i].id = f.devices[i].id
               /\ g.devices[i].address = f.devices[i].address
               /\ g.devices[i].type = f.devices[i].type
               /\ g.devices[i].command_watchdog_ms = f.devices[i].command_watchdog_ms
               /\ g.devices[i].encoders =
                     IF f.devices[i].type = "rlht" THEN Absent ELSE f.devices[i].encoders
<1> DEFINE D == f.devices
           E == [i \in DOMAIN D |-> IF D[i].type = "rlht"
                                    THEN [D[i] EXCEPT !.encoders = Absent] ELSE D[i]]
           g == drop_rlht_encoders(f)
<1>1. D \in Seq(RowType) /\ \A i \in DOMAIN D : D[i] \in RowType
  BY DEF FileType
<1>2. g = [f EXCEPT !.devices = E]
  BY DEF drop_rlht_encoders
<1>3. /\ g.bus_path = f.bus_path /\ g.mode = f.mode /\ g.addresses = f.addresses
      /\ g.devices = E
  <2> HIDE DEF E
  <2> QED BY <1>2 DEF FileType
<1>4. ASSUME NEW i \in DOMAIN D
      PROVE  /\ E[i] \in RowType
             /\ E[i].id = D[i].id
             /\ E[i].address = D[i].address
             /\ E[i].type = D[i].type
             /\ E[i].command_watchdog_ms = D[i].command_watchdog_ms
             /\ E[i].encoders = IF D[i].type = "rlht" THEN Absent ELSE D[i].encoders
  BY <1>1 DEF RowType
<1>5. DOMAIN E = DOMAIN D
  OBVIOUS
<1> HIDE DEF E, g
<1> QED BY <1>1, <1>3, <1>4, <1>5 DEF g

LEMMA ParseType ==
  \A t : t \in DOMAIN parse_device_type =>
            /\ t = "rlht" \/ t = "dcmt"
            /\ parse_device_type[t] \in Types
            /\ parse_device_type[t] = "Dcmt" <=> t = "dcmt"
BY DEF parse_device_type, Types

\* The DeviceSpec of a valid row is what the row asks for.
LEMMA SpecOfRow ==
  ASSUME NEW r \in RowType, NEW q \in RowType, ValidRow(q),
         q.id = r.id, q.address = r.address, q.type = r.type,
         q.command_watchdog_ms = r.command_watchdog_ms,
         q.encoders = IF r.type = "rlht" THEN Absent ELSE r.encoders
  PROVE  /\ Asks(r, DeviceSpec(q)) /\ DeviceSpec(q) \in SpecType
         /\ DeviceSpec(q).id = q.id /\ DeviceSpec(q).address = q.address
         /\ q.address \in I2cAddress
<1> DEFINE s == DeviceSpec(q)
<1>1. /\ s.id = q.id /\ s.address = q.address /\ s.type = parse_device_type[q.type]
      /\ s.command_watchdog_ms = ValueOr(q.command_watchdog_ms, 0)
      /\ s.encoders = ValueOr(q.encoders, TRUE)
      /\ s = [id |-> s.id, address |-> s.address, type |-> s.type,
              command_watchdog_ms |-> s.command_watchdog_ms, encoders |-> s.encoders]
  BY DEF DeviceSpec
<1>2. /\ q.type \in DOMAIN parse_device_type /\ q.address \in I2cAddress
      /\ q.command_watchdog_ms # Absent => q.command_watchdog_ms \in 0..max_watchdog
  BY DEF ValidRow
<1>3. s.type \in Types /\ (s.type = "Dcmt" => q.type = "dcmt")
  BY <1>1, <1>2, ParseType
<1>4. /\ q.encoders \in BOOLEAN \cup {Absent} /\ q.id \in Names \X Nat
      /\ Absent \notin BOOLEAN
  BY DiscoveryAssumption DEF RowType, DiscoveryAssumption
<1>5. ValueOr(q.command_watchdog_ms, 0) \in 0..max_watchdog
  <2>1. 0 \in 0..max_watchdog
    BY SMT DEF max_watchdog
  <2> QED BY <1>2, <2>1, Zenon DEF ValueOr
<1>6. /\ ValueOr(q.encoders, TRUE) \in BOOLEAN
      /\ q.encoders = FALSE => ValueOr(q.encoders, TRUE) = FALSE
  BY <1>4, Zenon DEF ValueOr
<1>7. s.type = "Dcmt" /\ s.encoders => r.encoders # FALSE
  <2>1. q.type = "dcmt" => q.encoders = r.encoders
    OBVIOUS
  <2>2. s.encoders = ValueOr(q.encoders, TRUE)
    BY <1>1
  <2>3. s.type = "Dcmt" => q.type = "dcmt"
    BY <1>3
  <2>4. s.type = "Dcmt" /\ r.encoders = FALSE => s.encoders = FALSE
    BY <1>6, <2>1, <2>2, <2>3, Zenon
  <2> HIDE DEF s
  <2> QED BY <2>4
<1>8. Asks(r, s)
  BY <1>1, <1>7, Zenon DEF Asks
<1>9. s \in SpecType
  <2>1. /\ s.id \in Names \X Nat /\ s.address \in I2cAddress /\ s.type \in Types
        /\ s.command_watchdog_ms \in 0..max_watchdog /\ s.encoders \in BOOLEAN
    <3> HIDE DEF s
    <3>1. s.type \in Types /\ s.id = q.id /\ s.address = q.address
      BY <1>1, <1>3
    <3>2. /\ s.command_watchdog_ms = ValueOr(q.command_watchdog_ms, 0)
          /\ s.encoders = ValueOr(q.encoders, TRUE)
      BY <1>1
    <3> QED BY <1>2, <1>4, <1>5, <1>6, <3>1, <3>2, Zenon
  <2> HIDE DEF s
  <2> QED BY <1>1, <2>1, Zenon DEF SpecType
<1> QED BY <1>1, <1>2, <1>8, <1>9, Zenon

\* The configuration of a valid file: its rows, each under an id and at an
\* address of its own, all of them addresses of the bus.
LEMMA ConfigOfFile ==
  ASSUME NEW f \in Files, validate(drop_rlht_encoders(f))
  PROVE  LET c == ProviderConfigOf(drop_rlht_encoders(f))
             R == {f.devices[i] : i \in DOMAIN f.devices} IN
         /\ c \in ConfigType
         /\ \A r \in R : \E s \in c.devices : Asks(r, s)
         /\ \A s \in c.devices : \E r \in R : Asks(r, s)
         /\ \A s, t \in c.devices : s.id = t.id \/ s.address = t.address => s = t
         /\ \A s \in c.devices : s.address \in Addresses
         /\ c.addresses \subseteq Addresses
<1> DEFINE g == drop_rlht_encoders(f)
           c == ProviderConfigOf(g)
           I == DOMAIN f.devices
           R == {f.devices[i] : i \in I}
<1>1. f \in FileType /\ Named(f) \cap I2cAddress \subseteq Addresses
  BY DiscoveryAssumption DEF DiscoveryAssumption
<1>2. /\ g.bus_path = f.bus_path /\ g.mode = f.mode /\ g.addresses = f.addresses
      /\ DOMAIN g.devices = I
      /\ \A i \in I :
            /\ f.devices[i] \in RowType /\ g.devices[i] \in RowType
            /\ g.devices[i].id = f.devices[i].id
            /\ g.devices[i].address = f.devices[i].address
            /\ g.devices[i].type = f.devices[i].type
            /\ g.devices[i].command_watchdog_ms = f.devices[i].command_watchdog_ms
            /\ g.devices[i].encoders =
                  IF f.devices[i].type = "rlht" THEN Absent ELSE f.devices[i].encoders
  BY <1>1, DropFacts
<1>3. ValidDiscovery(g) /\ (\A i \in I : ValidRow(g.devices[i])) /\ UniqueRows(g.devices)
  BY <1>2 DEF validate
<1> HIDE DEF g
<1>4. /\ c.mock = (g.bus_path = "mock") /\ c.mode = g.mode
      /\ c.addresses = (IF g.addresses = Absent THEN {} ELSE Range(g.addresses))
      /\ c.devices = {DeviceSpec(g.devices[i]) : i \in I}
      /\ c = [mock |-> c.mock, mode |-> c.mode, addresses |-> c.addresses,
              devices |-> c.devices]
  BY <1>2 DEF ProviderConfigOf
<1> HIDE DEF c
<1>5. \A i \in I :
         LET s == DeviceSpec(g.devices[i]) IN
         /\ Asks(f.devices[i], s) /\ s \in SpecType
         /\ s.id = g.devices[i].id /\ s.address = g.devices[i].address
         /\ s.address \in I2cAddress
  BY <1>2, <1>3, SpecOfRow
<1>6. \A i, j \in I : \/ g.devices[i].id = g.devices[j].id
                      \/ g.devices[i].address = g.devices[j].address
                      => i = j
  BY <1>2, <1>3 DEF UniqueRows, IsInjective
<1>7. \A s \in c.devices : \E i \in I : s = DeviceSpec(g.devices[i])
  BY <1>4
<1>8. \A i \in I : DeviceSpec(g.devices[i]) \in c.devices /\ f.devices[i] \in R
  BY <1>4
<1>9. c \in ConfigType
  <2>1. c.devices \subseteq SpecType
    BY <1>5, <1>7, Zenon
  <2>2. c.addresses \subseteq I2cAddress
    BY <1>3, <1>4 DEF ValidDiscovery, Range
  <2>3. c.mode \in {"scan", "manual"} /\ c.mock \in BOOLEAN
    BY <1>3, <1>4 DEF ValidDiscovery
  <2> QED BY <1>4, <2>1, <2>2, <2>3 DEF ConfigType
<1>10. /\ \A r \in R : \E s \in c.devices : Asks(r, s)
       /\ \A s \in c.devices : \E r \in R : Asks(r, s)
  BY <1>5, <1>7, <1>8, Zenon
<1>11. \A s, t \in c.devices : s.id = t.id \/ s.address = t.address => s = t
  BY <1>5, <1>6, <1>7
<1>12. \A s \in c.devices : s.address \in Addresses
  <2>1. \A i \in I : f.devices[i].address \in Named(f)
    BY DEF Named
  <2> QED BY <1>1, <1>2, <1>5, <1>7, <2>1
<1>13. c.addresses \subseteq Addresses
  <2>1. c.addresses \subseteq Named(f)
    BY <1>2, <1>4 DEF Named
  <2> QED BY <1>1, <1>9, <2>1 DEF ConfigType
<1> QED BY <1>9, <1>10, <1>11, <1>12, <1>13, Zenon DEF c, g

\* A file that is refused would be refused without any encoders key.
LEMMA RefusedWithout ==
  ASSUME NEW f \in Files, ~validate(drop_rlht_encoders(f))
  PROVE  ~validate([f EXCEPT !.devices =
                       [i \in DOMAIN @ |-> [@[i] EXCEPT !.encoders = Absent]]])
<1> DEFINE g == drop_rlht_encoders(f)
           I == DOMAIN f.devices
           E == [i \in I |-> [f.devices[i] EXCEPT !.encoders = Absent]]
           h == [f EXCEPT !.devices = E]
<1>1. SUFFICES ASSUME validate(h) PROVE validate(g)
  OBVIOUS
<1>2. f \in FileType
  BY DiscoveryAssumption DEF DiscoveryAssumption
<1>3. /\ g.bus_path = f.bus_path /\ g.mode = f.mode /\ g.addresses = f.addresses
      /\ DOMAIN g.devices = I
      /\ \A i \in I :
            /\ f.devices[i] \in RowType /\ g.devices[i] \in RowType
            /\ g.devices[i].id = f.devices[i].id
            /\ g.devices[i].address = f.devices[i].address
            /\ g.devices[i].type = f.devices[i].type
            /\ g.devices[i].command_watchdog_ms = f.devices[i].command_watchdog_ms
            /\ g.devices[i].encoders =
                  IF f.devices[i].type = "rlht" THEN Absent ELSE f.devices[i].encoders
  BY <1>2, DropFacts
<1>4. /\ h.mode = f.mode /\ h.addresses = f.addresses /\ h.devices = E
  <2> HIDE DEF E
  <2> QED BY <1>2 DEF FileType
<1>5. ASSUME NEW i \in I
      PROVE  /\ E[i].id = f.devices[i].id
             /\ E[i].address = f.devices[i].address
             /\ E[i].type = f.devices[i].type
             /\ E[i].command_watchdog_ms = f.devices[i].command_watchdog_ms
  BY <1>3 DEF RowType
<1>6. DOMAIN E = I
  OBVIOUS
<1> HIDE DEF g, E, h
<1>7. ValidDiscovery(g)
  BY <1>1, <1>3, <1>4 DEF validate, ValidDiscovery
<1>8. \A i \in I : ValidRow(g.devices[i])
  BY <1>1, <1>3, <1>4, <1>5, <1>6 DEF validate, ValidRow
<1>9. UniqueRows(g.devices)
  <2>1. UniqueRows(E)
    BY <1>1, <1>4 DEF validate
  <2>2. \A i \in I : E[i].id = g.devices[i].id /\ E[i].address = g.devices[i].address
    BY <1>3, <1>5
  <2>3. \A i, j \in I : /\ g.devices[i].id = g.devices[j].id => i = j
                        /\ g.devices[i].address = g.devices[j].address => i = j
    BY <1>6, <2>1, <2>2 DEF UniqueRows, IsInjective
  <2> QED BY <1>3, <2>3 DEF UniqueRows, IsInjective
<1> QED BY <1>3, <1>7, <1>8, <1>9 DEF validate

-----------------------------------------------------------------------------
(* Facts the proofs of several actions use. *)

LEMMA NoneFree == None \notin Addresses
BY DiscoveryAssumption DEF DiscoveryAssumption, I2cAddress, None

\* What the gate makes of a board is one of its statuses, and only a board of
\* the two families is supported.
LEMMA GateFacts ==
  ASSUME NEW b \in BoardType
  PROVE  /\ VersionGate(b) \in Statuses /\ VersionGate(b) # "TypeMismatch"
         /\ b.type \in Types \cup {"Other"} /\ b.loops \in BOOLEAN
         /\ VersionGate(b) = "Supported" => b.type \in Types
<1>1. b.type \in Types \cup {"Other"} /\ b.version \in {"ok", "short", "crumbs", "major"}
  BY DEF BoardType
<1>2. b.loops \in BOOLEAN
  BY Zenon DEF BoardType
<1>3. /\ VersionGate(b) \in Statuses /\ VersionGate(b) # "TypeMismatch"
      /\ VersionGate(b) = "Supported" => b.type \in Types
  BY <1>1 DEF VersionGate, evaluate_version_compatibility, Statuses, Types
<1> QED BY <1>1, <1>2, <1>3

LEMMA BoardFacts ==
  ASSUME TypeOK, NEW a \in Addresses, board[a] # NoBoard
  PROVE  board[a] \in BoardType
BY DiscoveryAssumption DEF TypeOK, DiscoveryAssumption

\* What load_config made of the file stays as it is.
LEMMA ConfigKept ==
  ASSUME ConfigInv, pc \notin Booting, UNCHANGED <<file, config>>
  PROVE  ConfigInv'
BY Zenon DEF ConfigInv, specs, Rows

\* The operators of the specifications do not change with the state.
LEMMA GivenKept ==
  ASSUME UNCHANGED given
  PROVE  /\ file' = file /\ config' = config /\ budget' = budget /\ board' = board
         /\ specs' = specs /\ mode' = mode
BY Zenon DEF given, specs, mode

\* TypeOK by groups of variables.
GivenOK   == /\ file \in FileType /\ config \in ConfigType /\ budget \in BOOLEAN
             /\ board \in [Addresses -> Boards \cup {NoBoard}]
ClockOK   == late \in BOOLEAN /\ (late => budget)
PcOK      == pc \in {"load", "rejected", "open", "list", "probe", "version", "caps",
                     "build", "ready", "not ready"}
ProbingOK == /\ todo \subseteq Addresses /\ addr \in Addresses \cup {None}
             /\ tries \in 1..kStaleReplyAttempts /\ probes \subseteq ProbeType
             /\ unprobed \subseteq Addresses /\ hurt \subseteq Addresses
             /\ seen \in [Addresses -> 0..kStaleReplyAttempts]
BuildOK   == /\ left \subseteq probes /\ count \in [Types -> Nat]
             /\ devices \subseteq DeviceRecord /\ excluded \subseteq ProbeType
ReportOK  == /\ missing \subseteq {s.id : s \in specs}
             /\ detail \in [missing -> Statuses \cup {"", "not probed", "not ready"}]

LEMMA TypeParts ==
  TypeOK <=> GivenOK /\ ClockOK /\ PcOK /\ ProbingOK /\ BuildOK /\ ReportOK
BY Zenon DEF TypeOK, GivenOK, ClockOK, PcOK, ProbingOK, BuildOK, ReportOK

LEMMA PartsType ==
  GivenOK' /\ ClockOK' /\ PcOK' /\ ProbingOK' /\ BuildOK' /\ ReportOK' => TypeOK'
BY Zenon DEF TypeOK, GivenOK, ClockOK, PcOK, ProbingOK, BuildOK, ReportOK

LEMMA GivenTyped == ASSUME GivenOK, UNCHANGED given PROVE GivenOK'
BY Zenon DEF GivenOK, given

LEMMA ClockTyped == ASSUME ClockOK, late' = late, budget' = budget PROVE ClockOK'
BY Zenon DEF ClockOK

LEMMA ProbingTyped == ASSUME ProbingOK, UNCHANGED probing PROVE ProbingOK'
BY Zenon DEF ProbingOK, probing

LEMMA BuildTyped == ASSUME BuildOK, UNCHANGED build, probes' = probes PROVE BuildOK'
BY Zenon DEF BuildOK, build

LEMMA ReportTyped == ASSUME ReportOK, UNCHANGED report, specs' = specs PROVE ReportOK'
BY Zenon DEF ReportOK, report

LEMMA InitInv == Init => Inv
<1> SUFFICES ASSUME Init PROVE Inv
  OBVIOUS
<1>1. /\ file \in Files /\ file \in FileType /\ addr = None /\ pc = "load" /\ mode = "manual" /\ specs = {}
  BY DiscoveryAssumption DEF Init, DiscoveryAssumption, mode, specs, NoConfig
<1>2. config \in ConfigType
  BY DEF Init, NoConfig, ConfigType
<1>3. TypeOK
  <2>1. tries \in 1..kStaleReplyAttempts /\ seen \in [Addresses -> 0..kStaleReplyAttempts]
        /\ count \in [Types -> Nat]
    BY DEF Init, kStaleReplyAttempts
  <2>2. budget \in BOOLEAN /\ late \in BOOLEAN /\ (late => budget)
    BY Zenon DEF Init
  <2>3. detail \in [missing -> Statuses \cup {"", "not probed", "not ready"}]
    BY DEF Init
  <2> QED BY <1>1, <1>2, <2>1, <2>2, <2>3 DEF Init, TypeOK
<1>4. ConfigInv /\ EncodersNeverRefused /\ PublishInv
  BY <1>1 DEF Init, ConfigInv, EncodersNeverRefused, PublishInv, Booting
<1>5. OrderInv
  BY <1>1 DEF Init, OrderInv, Bus
<1>6. ProbeInv
  BY <1>1 DEF Init, ProbeInv
<1>7. BuildInv
  BY <1>1 DEF Init, BuildInv
<1> QED BY <1>3, <1>4, <1>5, <1>6, <1>7 DEF Inv

\* Before the inventory is built there is nothing in it.
Early == Booting \cup Bus \cup {"open"}

LEMMA BuildKept ==
  ASSUME BuildInv, pc \in Early, pc' \notin {"build", "ready"}, UNCHANGED build
  PROVE  BuildInv'
<1>1. left' = {} /\ devices' = {} /\ excluded' = {}
  BY DEF BuildInv, Early, build
<1> QED BY <1>1 DEF BuildInv

LEMMA PublishKept ==
  ASSUME PublishInv, pc \notin {"ready", "not ready"}, pc' \notin {"ready", "not ready"},
         missing' = missing
  PROVE  PublishInv'
BY DEF PublishInv

-----------------------------------------------------------------------------
(* One lemma per action. *)

LEMMA LoadStep == Inv /\ load_config => Inv'
<1> SUFFICES ASSUME Inv, load_config PROVE Inv'
  OBVIOUS
<1> DEFINE f == drop_rlht_encoders(file)
<1>0. /\ TypeOK /\ ConfigInv /\ OrderInv /\ ProbeInv /\ BuildInv /\ PublishInv
      /\ file \in Files /\ pc = "load" /\ missing = {}
  BY DEF Inv, ConfigInv, PublishInv, load_config
<1>1. /\ UNCHANGED <<file, budget, board, late>> /\ UNCHANGED probing
      /\ UNCHANGED build /\ UNCHANGED report
      /\ \/ validate(f) /\ config' = ProviderConfigOf(f) /\ pc' = "open"
         \/ ~validate(f) /\ pc' = "rejected" /\ UNCHANGED config
  BY Zenon DEF load_config
<1>2. /\ config' \in ConfigType
      /\ pc' \in {"open", "rejected"}
  <2>1. config \in ConfigType
    BY <1>0 DEF TypeOK
  <2> QED BY <1>0, <1>1, <2>1, ConfigOfFile
<1>3. TypeOK'
  <2>0. GivenOK /\ ClockOK /\ ProbingOK /\ BuildOK /\ ReportOK
    BY <1>0, TypeParts
  <2>1. GivenOK'
    BY <1>1, <1>2, <2>0, Zenon DEF GivenOK
  <2>2. PcOK'
    BY <1>2 DEF PcOK
  <2>3. ReportOK'
    <3>1. missing' = {} /\ detail' = detail
      BY <1>0, <1>1 DEF report
    <3> QED BY <1>0, <2>0, <3>1 DEF ReportOK
  <2>4. ClockOK' /\ ProbingOK' /\ BuildOK'
    BY <1>1, <2>0, ClockTyped, ProbingTyped, BuildTyped DEF probing
  <2> QED BY <2>1, <2>2, <2>3, <2>4, PartsType
<1>4. ConfigInv'
  <2>1. CASE validate(f) /\ config' = ProviderConfigOf(f)
    <3>1. specs' = config'.devices /\ Rows' = Rows
      BY <1>1 DEF specs, Rows
    <3>2. file' \in Files
      BY <1>0, <1>1
    <3> QED BY <1>0, <2>1, <3>1, <3>2, ConfigOfFile, Zenon DEF ConfigInv, Rows
  <2>2. CASE pc' = "rejected"
    BY <1>0, <1>1, <2>2 DEF ConfigInv, Booting
  <2> QED BY <1>1, <2>1, <2>2
<1>5. /\ probes' = {} /\ unprobed' = {} /\ todo' = {} /\ addr' = None /\ hurt' = {}
  BY <1>0, <1>1 DEF OrderInv, ProbeInv, Booting, probing
<1>6. OrderInv'
  BY <1>2, <1>5 DEF OrderInv, Bus
<1>7. ProbeInv'
  <2>1. \A a \in Addresses : seen'[a] = 0
    BY <1>0, <1>1, <1>5, NoneFree DEF ProbeInv, probing
  <2> QED BY <1>2, <1>5, <2>1 DEF ProbeInv
<1>8. BuildInv' /\ PublishInv'
  BY <1>0, <1>1, <1>2, BuildKept, PublishKept DEF Early, Booting, report
<1>9. EncodersNeverRefused'
  <2>1. CASE ~validate(f) /\ pc' = "rejected"
    BY <1>0, <1>1, <2>1, RefusedWithout DEF EncodersNeverRefused
  <2>2. CASE pc' = "open"
    BY <2>2 DEF EncodersNeverRefused
  <2> QED BY <1>1, <2>1, <2>2
<1> QED BY <1>3, <1>4, <1>6, <1>7, <1>8, <1>9 DEF Inv

\* publish_not_ready, from each place the code calls it at.
LEMMA NotReadyStep ==
  ASSUME Inv, publish_not_ready, pc \in {"open", "list", "build"}
  PROVE  Inv'
<1>0. /\ TypeOK /\ ConfigInv /\ OrderInv /\ ProbeInv /\ BuildInv /\ PublishInv
  BY DEF Inv
<1>1. /\ UNCHANGED given /\ late' = late /\ UNCHANGED probing /\ pc' = "not ready"
      /\ UNCHANGED <<left, count, excluded>> /\ devices' = {}
      /\ missing' = {s.id : s \in specs} /\ detail' = [i \in missing' |-> "not ready"]
  BY Zenon DEF publish_not_ready
<1>2. specs' = specs /\ mode' = mode /\ budget' = budget /\ file' = file /\ config' = config
      /\ board' = board
  BY <1>1, GivenKept
<1>3. /\ todo' = todo /\ addr' = addr /\ tries' = tries /\ probes' = probes
      /\ unprobed' = unprobed /\ hurt' = hurt /\ seen' = seen
  BY <1>1 DEF probing
<1>4. TypeOK'
  <2>0. GivenOK /\ ClockOK /\ ProbingOK /\ BuildOK
    BY <1>0, TypeParts
  <2>1. ReportOK'
    BY <1>1, <1>2 DEF ReportOK
  <2>2. PcOK' /\ BuildOK'
    BY <1>1, <1>3, <2>0 DEF PcOK, BuildOK
  <2> QED BY <1>1, <1>2, <2>0, <2>1, <2>2, GivenTyped, ClockTyped, ProbingTyped, PartsType
<1>5. ConfigInv'
  BY <1>0, <1>2, ConfigKept DEF Booting
<1>6. OrderInv'
  BY <1>0, <1>1, <1>3 DEF OrderInv, Bus, Booting
<1>7. ProbeInv'
  BY <1>0, <1>1, <1>2, <1>3 DEF ProbeInv, Truthful
<1>8. BuildInv'
  <2>1. \A x, q : FromExcluded(x, q)' = FromExcluded(x, q)
    BY <1>2, Zenon DEF FromExcluded
  <2>2. \A x \in excluded' : \E q \in probes' \ left' : FromExcluded(x, q)'
    BY <1>0, <1>1, <1>3, <2>1, Zenon DEF BuildInv
  <2> QED BY <1>1, <2>2 DEF BuildInv, Booting, Bus
<1>9. PublishInv' /\ EncodersNeverRefused'
  BY <1>1, <1>2 DEF PublishInv, EncodersNeverRefused
<1> QED BY <1>4, <1>5, <1>6, <1>7, <1>8, <1>9 DEF Inv

LEMMA OpenStep == Inv /\ OpenBus => Inv'
<1> SUFFICES ASSUME Inv, OpenBus PROVE Inv'
  OBVIOUS
<1>0. /\ TypeOK /\ ConfigInv /\ OrderInv /\ ProbeInv /\ BuildInv /\ PublishInv
      /\ pc = "open" /\ mode # "mock"
  BY DEF Inv, OpenBus
<1>1. CASE publish_not_ready
  BY <1>0, <1>1, NotReadyStep
<1>2. CASE pc' = "list" /\ UNCHANGED <<given, late, probing, build, report>>
  <2>1. /\ UNCHANGED given /\ late' = late /\ UNCHANGED probing /\ UNCHANGED build
        /\ UNCHANGED report /\ pc' = "list"
    BY <1>2, Zenon
  <2>2. specs' = specs /\ mode' = mode /\ budget' = budget /\ file' = file
        /\ config' = config /\ board' = board
    BY <2>1, GivenKept
  <2>3. /\ todo' = todo /\ addr' = addr /\ tries' = tries /\ probes' = probes
        /\ unprobed' = unprobed /\ hurt' = hurt /\ seen' = seen
    BY <2>1 DEF probing
  <2>4. TypeOK'
    <3>0. GivenOK /\ ClockOK /\ ProbingOK /\ BuildOK /\ ReportOK
      BY <1>0, TypeParts
    <3>1. PcOK'
      BY <2>1 DEF PcOK
    <3> QED BY <2>1, <2>2, <2>3, <3>0, <3>1, GivenTyped, ClockTyped, ProbingTyped,
               BuildTyped, ReportTyped, PartsType
  <2>5. ConfigInv'
    BY <1>0, <2>2, ConfigKept DEF Booting
  <2>6. OrderInv'
    BY <1>0, <2>1, <2>2, <2>3 DEF OrderInv, Bus, Booting
  <2>7. ProbeInv'
    BY <1>0, <2>1, <2>2, <2>3 DEF ProbeInv, Truthful
  <2>8. BuildInv' /\ PublishInv'
    BY <1>0, <2>1, BuildKept, PublishKept DEF Early, report
  <2>9. EncodersNeverRefused'
    BY <2>1 DEF EncodersNeverRefused
  <2> QED BY <2>4, <2>5, <2>6, <2>7, <2>8, <2>9 DEF Inv
<1> QED BY <1>1, <1>2, Zenon DEF OpenBus

LEMMA ListStep == Inv /\ ListAddresses => Inv'
<1> SUFFICES ASSUME Inv, ListAddresses PROVE Inv'
  OBVIOUS
<1>0. /\ TypeOK /\ ConfigInv /\ OrderInv /\ ProbeInv /\ BuildInv /\ PublishInv
      /\ pc = "list"
  BY DEF Inv, ListAddresses
<1>1. CASE publish_not_ready
  BY <1>0, <1>1, NotReadyStep
<1>2. CASE /\ pc' = "probe"
           /\ \/ /\ mode = "scan"
                 /\ todo' \in SUBSET {a \in Addresses : board[a] # NoBoard}
              \/ mode = "manual" /\ todo' = config.addresses
           /\ UNCHANGED <<given, late, addr, tries, probes, unprobed, hurt, seen,
                          build, report>>
  <2>1. /\ UNCHANGED given /\ late' = late /\ UNCHANGED build /\ UNCHANGED report
        /\ pc' = "probe"
        /\ addr' = addr /\ tries' = tries /\ probes' = probes
        /\ unprobed' = unprobed /\ hurt' = hurt /\ seen' = seen
    BY <1>2, Zenon
  <2>2. specs' = specs /\ mode' = mode /\ budget' = budget /\ file' = file
        /\ config' = config /\ board' = board
    BY <2>1, GivenKept
  <2>3. todo' \subseteq Addresses
    BY <1>0, <1>2 DEF ConfigInv, Booting
  <2>4. TypeOK'
    <3>0. GivenOK /\ ClockOK /\ ProbingOK /\ BuildOK /\ ReportOK
      BY <1>0, TypeParts
    <3>1. PcOK' /\ ProbingOK'
      BY <2>1, <2>3, <3>0 DEF PcOK, ProbingOK
    <3> QED BY <2>1, <2>2, <2>3, <3>0, <3>1, GivenTyped, ClockTyped,
               BuildTyped, ReportTyped, PartsType
  <2>5. ConfigInv'
    BY <1>0, <2>2, ConfigKept DEF Booting
  <2>6. OrderInv'
    <3>1. addr = None /\ probes = {} /\ unprobed = {} /\ mode # "mock"
      BY <1>0 DEF OrderInv, Bus
    <3> QED BY <2>1, <2>2, <2>3, <3>1, NoneFree DEF OrderInv, Booting
  <2>7. ProbeInv'
    BY <1>0, <2>1, <2>2 DEF ProbeInv, Truthful
  <2>8. BuildInv' /\ PublishInv'
    BY <1>0, <2>1, BuildKept, PublishKept DEF Early, Bus, report
  <2>9. EncodersNeverRefused'
    BY <2>1 DEF EncodersNeverRefused
  <2> QED BY <2>4, <2>5, <2>6, <2>7, <2>8, <2>9 DEF Inv
<1> QED BY <1>1, <1>2, Zenon DEF ListAddresses

LEMMA DeadlineStep == Inv /\ Deadline => Inv'
<1> SUFFICES ASSUME Inv, Deadline PROVE Inv'
  OBVIOUS
<1>0. /\ TypeOK /\ ConfigInv /\ OrderInv /\ ProbeInv /\ BuildInv /\ PublishInv
      /\ pc \in {"open", "list", "probe", "version", "caps"}
  BY DEF Inv, Deadline
<1>1. /\ budget /\ late' = TRUE /\ UNCHANGED given /\ pc' = pc /\ UNCHANGED probing
      /\ UNCHANGED build /\ UNCHANGED report
  BY Zenon DEF Deadline
<1>2. specs' = specs /\ mode' = mode /\ budget' = budget /\ file' = file
      /\ config' = config /\ board' = board
  BY <1>1, GivenKept
<1>3. /\ todo' = todo /\ addr' = addr /\ tries' = tries /\ probes' = probes
      /\ unprobed' = unprobed /\ hurt' = hurt /\ seen' = seen
  BY <1>1 DEF probing
<1>4. TypeOK'
  <2>0. GivenOK /\ ClockOK /\ PcOK /\ ProbingOK /\ BuildOK /\ ReportOK
    BY <1>0, TypeParts
  <2>1. ClockOK'
    BY <1>1, <1>2, Zenon DEF ClockOK
  <2>2. PcOK'
    BY <1>1, <2>0 DEF PcOK
  <2> QED BY <1>1, <1>2, <1>3, <2>0, <2>1, <2>2, GivenTyped, ProbingTyped,
             BuildTyped, ReportTyped, PartsType
<1>5. ConfigInv'
  BY <1>0, <1>2, ConfigKept DEF Booting
<1>6. OrderInv'
  BY <1>0, <1>1, <1>2, <1>3 DEF OrderInv
<1>7. ProbeInv'
  BY <1>0, <1>1, <1>2, <1>3 DEF ProbeInv, Truthful
<1>8. BuildInv' /\ PublishInv'
  BY <1>0, <1>1, BuildKept, PublishKept DEF Early, Bus, report
<1>9. EncodersNeverRefused'
  BY <1>0, <1>1 DEF EncodersNeverRefused
<1> QED BY <1>4, <1>5, <1>6, <1>7, <1>8, <1>9 DEF Inv

LEMMA NextStep == Inv /\ NextAddress => Inv'
<1> SUFFICES ASSUME Inv, NextAddress PROVE Inv'
  OBVIOUS
<1>0. /\ TypeOK /\ ConfigInv /\ OrderInv /\ ProbeInv /\ BuildInv /\ PublishInv
      /\ pc = "probe"
  BY DEF Inv, NextAddress
<1>1. PICK a \in todo :
         \/ Skip(a)
         \/ /\ ~late /\ pc' = "version" /\ addr' = a /\ tries' = 1
            /\ todo' = todo \ {a} /\ UNCHANGED unprobed
  BY Zenon DEF NextAddress
<1>2. /\ UNCHANGED given /\ late' = late /\ UNCHANGED build /\ UNCHANGED report
      /\ probes' = probes /\ hurt' = hurt /\ seen' = seen
  BY Zenon DEF NextAddress
<1>3. specs' = specs /\ mode' = mode /\ budget' = budget /\ file' = file
      /\ config' = config /\ board' = board
  BY <1>2, GivenKept
<1>4. GivenOK /\ ClockOK /\ ProbingOK /\ BuildOK /\ ReportOK /\ a \in Addresses
      /\ a # None
  <2>1. GivenOK /\ ClockOK /\ ProbingOK /\ BuildOK /\ ReportOK
    BY <1>0, TypeParts
  <2> QED BY <1>1, <2>1, NoneFree DEF ProbingOK
<1>5. /\ todo' = todo \ {a}
      /\ \/ /\ unprobed' = unprobed \cup {a} /\ pc' = "probe" /\ addr' = addr
            /\ tries' = tries
         \/ /\ unprobed' = unprobed /\ pc' = "version" /\ addr' = a /\ tries' = 1
  BY <1>0, <1>1 DEF Skip
<1>6. addr = None /\ mode # "mock" /\ a \notin unprobed /\ a # addr
      /\ \A q \in probes : q.addr # a
  BY <1>0, <1>1, <1>4 DEF OrderInv, Bus
<1>7. TypeOK'
  <2>1. PcOK'
    BY <1>5 DEF PcOK
  <2>2. ProbingOK'
    BY <1>2, <1>4, <1>5 DEF ProbingOK, kStaleReplyAttempts
  <2> QED BY <1>2, <1>3, <1>4, <2>1, <2>2, GivenTyped, ClockTyped, BuildTyped,
             ReportTyped, PartsType
<1>8. ConfigInv'
  BY <1>0, <1>3, ConfigKept DEF Booting
<1>9. OrderInv'
  <2>1. /\ todo' \cap unprobed' = {} /\ addr' \notin todo' \cup unprobed'
        /\ \A q \in probes' : q.addr \notin todo' \cup unprobed' \cup {addr'}
    BY <1>0, <1>2, <1>5, <1>6 DEF OrderInv
  <2>2. /\ pc' \in {"version", "caps"} <=> addr' # None
    BY <1>4, <1>5, <1>6
  <2> QED BY <1>0, <1>2, <1>3, <1>5, <1>6, <2>1, <2>2 DEF OrderInv, Bus, Booting
<1>10. ProbeInv'
  <2>1. seen[a] = 0
    BY <1>0, <1>4, <1>6 DEF ProbeInv
  <2>2. pc' = "version" => seen'[addr'] = tries' - 1
    BY <1>2, <1>5, <2>1
  <2>3. \A q \in probes' : Truthful(q)'
    BY <1>0, <1>2, <1>3, <1>6 DEF ProbeInv, Truthful
  <2>4. \A b \in Addresses : seen'[b] # 0 => \E q \in probes' : q.addr = b
    BY <1>0, <1>2, <1>6, NoneFree DEF ProbeInv
  <2> QED BY <1>0, <1>2, <1>3, <1>5, <1>6, <2>2, <2>3, <2>4 DEF ProbeInv
<1>11. BuildInv' /\ PublishInv'
  BY <1>0, <1>2, <1>5, BuildKept, PublishKept DEF Early, Bus, report
<1>12. EncodersNeverRefused'
  BY <1>5 DEF EncodersNeverRefused
<1> QED BY <1>7, <1>8, <1>9, <1>10, <1>11, <1>12 DEF Inv

\* The end of probe_device, whatever it found, if its record is true.
LEMMA ProbedStep ==
  ASSUME Inv, pc \in {"version", "caps"}, NEW st, NEW ty, NEW lo, Probed(st, ty, lo),
         UNCHANGED given, late' = late, todo' = todo, unprobed' = unprobed,
         UNCHANGED build, UNCHANGED report,
         hurt' \in {hurt, hurt \cup {addr}},
         seen' \in [Addresses -> 0..kStaleReplyAttempts],
         \A a \in Addresses : a # addr => seen'[a] = seen[a],
         st \in Statuses, st # "TypeMismatch", ty \in Types \cup {"Other"},
         lo \in BOOLEAN, st = "Supported" => ty \in Types,
         IF addr \in hurt' \/ seen'[addr] = kStaleReplyAttempts
         THEN st = "VersionReadFailed"
         ELSE /\ board[addr] # NoBoard
              /\ ty = board[addr].type /\ st = VersionGate(board[addr])
              /\ lo => board[addr].loops
  PROVE  Inv'
<1>0. /\ TypeOK /\ ConfigInv /\ OrderInv /\ ProbeInv /\ BuildInv /\ PublishInv
  BY DEF Inv
<1>1. PICK p : p = [addr |-> addr, status |-> st, type |-> ty, loops |-> lo]
  OBVIOUS
<1>2. /\ addr' = None /\ tries' = 1 /\ probes' = probes \cup {p} /\ pc' = "probe"
  BY <1>1, Zenon DEF Probed
<1>3. specs' = specs /\ mode' = mode /\ budget' = budget /\ file' = file
      /\ config' = config /\ board' = board
  BY GivenKept
<1>4. GivenOK /\ ClockOK /\ ProbingOK /\ BuildOK /\ ReportOK
  BY <1>0, TypeParts
<1>5. /\ addr \in Addresses /\ mode # "mock"
      /\ addr \notin todo /\ addr \notin unprobed
      /\ \A q \in probes : q.addr # addr
  BY <1>0, <1>4 DEF OrderInv, ProbingOK, Bus
<1>6. p \in ProbeType
  BY <1>1, <1>5, Zenon DEF ProbeType
<1>7. p.addr = addr /\ p.status = st /\ p.type = ty /\ p.loops = lo
  BY <1>1
<1>8. TypeOK'
  <2>1. PcOK'
    BY <1>2 DEF PcOK
  <2>2. ProbingOK'
    BY <1>2, <1>4, <1>5, <1>6 DEF ProbingOK, kStaleReplyAttempts
  <2>3. BuildOK'
    BY <1>2, <1>4 DEF BuildOK, build
  <2> QED BY <1>3, <1>4, <2>1, <2>2, <2>3, GivenTyped, ClockTyped, ReportTyped, PartsType
<1>9. ConfigInv'
  BY <1>0, <1>3, ConfigKept DEF Booting
<1>10. OrderInv'
  <2>1. /\ todo' \cap unprobed' = {} /\ addr' \notin todo' \cup unprobed'
        /\ \A q \in probes' : q.addr \notin todo' \cup unprobed' \cup {addr'}
    BY <1>0, <1>2, <1>4, <1>5, <1>7, NoneFree DEF OrderInv, ProbingOK, ProbeType
  <2>2. \A q, r \in probes' : q.addr = r.addr => q = r
    BY <1>0, <1>2, <1>5, <1>7 DEF OrderInv
  <2> QED BY <1>2, <1>3, <1>5, <2>1, <2>2 DEF OrderInv, Bus, Booting
<1>11. ProbeInv'
  <2>1. \A a \in hurt' : \E q \in probes' : q.addr = a
    BY <1>0, <1>2, <1>7 DEF ProbeInv
  <2>2. \A a \in Addresses : seen'[a] # 0 => \E q \in probes' : q.addr = a
    BY <1>0, <1>2, <1>7 DEF ProbeInv
  <2>3. \A q \in probes' : /\ q.status # "TypeMismatch"
                           /\ q.status = "Supported" => q.type \in Types
    BY <1>0, <1>2, <1>7 DEF ProbeInv
  <2>4. \A q \in probes' : Truthful(q)'
    <3>1. Truthful(p)'
      BY <1>3, <1>7, Zenon DEF Truthful
    <3>2. ASSUME NEW q \in probes PROVE Truthful(q)'
      <4>1. q.addr \in Addresses /\ q.addr # addr /\ Truthful(q)
        BY <1>0, <1>4, <1>5 DEF ProbeInv, ProbingOK, ProbeType
      <4>2. seen'[q.addr] = seen[q.addr] /\ (q.addr \in hurt' <=> q.addr \in hurt)
        BY <4>1
      <4> QED BY <1>3, <4>1, <4>2, Zenon DEF Truthful
    <3> QED BY <1>2, <3>1, <3>2
  <2> QED BY <1>2, <1>3, <1>5, <2>1, <2>2, <2>3, <2>4 DEF ProbeInv
<1>12. BuildInv' /\ PublishInv'
  BY <1>0, <1>2, BuildKept, PublishKept DEF Early, Bus, report
<1>13. EncodersNeverRefused'
  BY <1>2 DEF EncodersNeverRefused
<1> QED BY <1>8, <1>9, <1>10, <1>11, <1>12, <1>13 DEF Inv

\* A step within probe_device: a query again, or the second query.
LEMMA AskStep ==
  ASSUME Inv, pc \in {"version", "caps"}, pc' \in {"version", "caps"},
         addr' = addr, probes' = probes, hurt' = hurt, todo' = todo,
         unprobed' = unprobed, tries' \in 1..kStaleReplyAttempts,
         UNCHANGED given, late' = late, UNCHANGED build, UNCHANGED report,
         seen' \in [Addresses -> 0..kStaleReplyAttempts],
         \A a \in Addresses : a # addr => seen'[a] = seen[a],
         pc' = "version" => seen'[addr] = tries' - 1,
         pc' = "caps" => /\ seen'[addr] # kStaleReplyAttempts /\ board[addr] # NoBoard
                         /\ VersionGate(board[addr]) = "Supported"
  PROVE  Inv'
<1>0. /\ TypeOK /\ ConfigInv /\ OrderInv /\ ProbeInv /\ BuildInv /\ PublishInv
  BY DEF Inv
<1>1. specs' = specs /\ mode' = mode /\ budget' = budget /\ file' = file
      /\ config' = config /\ board' = board
  BY GivenKept
<1>2. GivenOK /\ ClockOK /\ ProbingOK /\ BuildOK /\ ReportOK
  BY <1>0, TypeParts
<1>3. /\ addr \in Addresses /\ mode # "mock"
      /\ \A q \in probes : q.addr # addr /\ q.addr \in Addresses
  BY <1>0, <1>2 DEF OrderInv, ProbingOK, Bus, ProbeType
<1>4. TypeOK'
  <2>1. PcOK' /\ ProbingOK'
    BY <1>2 DEF PcOK, ProbingOK
  <2> QED BY <1>1, <1>2, <2>1, GivenTyped, ClockTyped, BuildTyped, ReportTyped, PartsType
<1>5. ConfigInv'
  BY <1>0, <1>1, ConfigKept DEF Booting
<1>6. OrderInv'
  BY <1>0, <1>1, <1>3 DEF OrderInv, Bus, Booting
<1>7. ProbeInv'
  <2>1. \A a \in Addresses : seen'[a] # 0 => a = addr' \/ \E q \in probes' : q.addr = a
    BY <1>0 DEF ProbeInv
  <2>2. \A q \in probes' : Truthful(q)'
    BY <1>0, <1>1, <1>3 DEF ProbeInv, Truthful
  <2>3. /\ pc' = "version" => seen'[addr'] = tries' - 1
        /\ pc' = "caps" => /\ seen'[addr'] # kStaleReplyAttempts
                           /\ board'[addr'] # NoBoard
                           /\ VersionGate(board'[addr']) = "Supported"
    BY <1>1
  <2> QED BY <1>0, <1>1, <1>3, <2>1, <2>2, <2>3 DEF ProbeInv
<1>8. BuildInv' /\ PublishInv'
  BY <1>0, BuildKept, PublishKept DEF Early, Bus, report
<1>9. EncodersNeverRefused'
  BY DEF EncodersNeverRefused
<1> QED BY <1>4, <1>5, <1>6, <1>7, <1>8, <1>9 DEF Inv

LEMMA VersionStep == Inv /\ QueryVersion => Inv'
<1> SUFFICES ASSUME Inv, QueryVersion PROVE Inv'
  OBVIOUS
<1>0. TypeOK /\ OrderInv /\ ProbeInv /\ pc = "version"
  BY DEF Inv, QueryVersion
<1>1. /\ UNCHANGED given /\ late' = late /\ todo' = todo /\ unprobed' = unprobed
      /\ UNCHANGED build /\ UNCHANGED report
  BY Zenon DEF QueryVersion
<1>2. /\ addr \in Addresses /\ seen \in [Addresses -> 0..kStaleReplyAttempts]
      /\ tries \in 1..kStaleReplyAttempts /\ seen[addr] = tries - 1
      /\ addr \notin hurt
  <2>1. addr \in Addresses
    BY <1>0 DEF OrderInv, TypeOK
  <2> QED BY <1>0, <2>1 DEF OrderInv, ProbeInv, TypeOK
<1>3. /\ "VersionReadFailed" \in Statuses /\ "VersionReadFailed" # "TypeMismatch"
      /\ "VersionReadFailed" # "Supported" /\ "Other" \in Types \cup {"Other"}
      /\ FALSE \in BOOLEAN
  BY DEF Statuses
<1>4. CASE /\ Probed("VersionReadFailed", "Other", FALSE)
           /\ hurt' = hurt \cup {addr} /\ UNCHANGED seen
  BY <1>0, <1>1, <1>2, <1>3, <1>4, ProbedStep
<1>5. CASE /\ board[addr] # NoBoard
           /\ seen' = [seen EXCEPT ![addr] = @ + 1] /\ UNCHANGED hurt
           /\ \/ Restage /\ UNCHANGED <<pc, addr, probes>>
              \/ LastTry /\ Probed("VersionReadFailed", "Other", FALSE)
  <2>1. /\ seen' \in [Addresses -> 0..kStaleReplyAttempts] /\ seen'[addr] = tries
        /\ \A a \in Addresses : a # addr => seen'[a] = seen[a]
    BY <1>2, <1>5 DEF kStaleReplyAttempts
  <2>2. CASE Restage /\ UNCHANGED <<pc, addr, probes>>
    <3>1. /\ pc' = "version" /\ addr' = addr /\ probes' = probes
          /\ tries' = tries + 1 /\ tries' \in 1..kStaleReplyAttempts
          /\ seen'[addr] = tries' - 1
      BY <1>0, <1>2, <2>1, <2>2 DEF Restage, LastTry, kStaleReplyAttempts
    <3> QED BY <1>0, <1>1, <1>5, <2>1, <3>1, AskStep
  <2>3. CASE LastTry /\ Probed("VersionReadFailed", "Other", FALSE)
    <3>1. seen'[addr] = kStaleReplyAttempts
      BY <2>1, <2>3 DEF LastTry
    <3> QED BY <1>0, <1>1, <1>2, <1>3, <1>5, <2>1, <2>3, <3>1, ProbedStep
  <2> QED BY <1>5, <2>2, <2>3
<1>6. CASE /\ board[addr] # NoBoard /\ UNCHANGED <<hurt, seen>>
           /\ LET b == board[addr]
                  gate == VersionGate(b) IN
              \/ gate # "Supported" /\ Probed(gate, b.type, FALSE)
              \/ /\ gate = "Supported" /\ pc' = "caps" /\ tries' = 1
                 /\ UNCHANGED <<addr, probes>>
  <2> DEFINE b == board[addr]
             gate == VersionGate(b)
  <2>1. /\ gate \in Statuses /\ gate # "TypeMismatch" /\ b.type \in Types \cup {"Other"}
    BY <1>0, <1>2, <1>6, BoardFacts, GateFacts
  <2>2. /\ hurt' = hurt /\ seen' = seen /\ b # NoBoard
        /\ seen'[addr] # kStaleReplyAttempts /\ addr \notin hurt'
    BY <1>2, <1>6 DEF kStaleReplyAttempts
  <2>3. CASE gate # "Supported" /\ Probed(gate, b.type, FALSE)
    BY <1>0, <1>1, <1>2, <1>3, <2>1, <2>2, <2>3, ProbedStep
  <2>4. CASE gate = "Supported" /\ pc' = "caps" /\ tries' = 1 /\ UNCHANGED <<addr, probes>>
    <3>1. tries' \in 1..kStaleReplyAttempts
      BY <2>4 DEF kStaleReplyAttempts
    <3> QED BY <1>0, <1>1, <1>2, <2>2, <2>4, <3>1, AskStep
  <2> QED BY <1>6, <2>3, <2>4
<1> QED BY <1>4, <1>5, <1>6, Zenon DEF QueryVersion

LEMMA CapsStep == Inv /\ QueryCaps => Inv'
<1> SUFFICES ASSUME Inv, QueryCaps PROVE Inv'
  OBVIOUS
<1>0. TypeOK /\ OrderInv /\ ProbeInv /\ pc = "caps"
  BY DEF Inv, QueryCaps
<1>1. /\ UNCHANGED given /\ late' = late /\ todo' = todo /\ unprobed' = unprobed
      /\ UNCHANGED build /\ UNCHANGED report /\ hurt' = hurt /\ seen' = seen
  BY Zenon DEF QueryCaps
<1>2. /\ addr \in Addresses /\ seen \in [Addresses -> 0..kStaleReplyAttempts]
      /\ tries \in 1..kStaleReplyAttempts /\ seen[addr] # kStaleReplyAttempts
      /\ addr \notin hurt /\ board[addr] # NoBoard
      /\ VersionGate(board[addr]) = "Supported"
  <2>1. addr \in Addresses
    BY <1>0 DEF OrderInv, TypeOK
  <2> QED BY <1>0, <2>1 DEF OrderInv, ProbeInv, TypeOK
<1>3. CASE Restage /\ UNCHANGED <<pc, addr, probes>>
  <2>1. /\ tries' \in 1..kStaleReplyAttempts /\ pc' = "caps" /\ addr' = addr
        /\ probes' = probes
    BY <1>0, <1>2, <1>3 DEF Restage, LastTry, kStaleReplyAttempts
  <2> QED BY <1>0, <1>1, <1>2, <2>1, AskStep
<1>4. ASSUME NEW lo \in {board[addr].loops, FALSE},
             Probed("Supported", board[addr].type, lo)
      PROVE  Inv'
  <2>1. board[addr].type \in Types /\ "Supported" \in Statuses
    BY <1>0, <1>2, BoardFacts, GateFacts DEF Statuses
  <2>2. lo \in BOOLEAN /\ (lo => board[addr].loops)
    BY <1>0, <1>2, BoardFacts, GateFacts, Zenon
  <2> QED BY <1>0, <1>1, <1>2, <1>4, <2>1, <2>2, ProbedStep
<1> QED BY <1>3, <1>4, Zenon DEF QueryCaps

LEMMA SeedStep == Inv /\ build_seed_probes => Inv'
<1> SUFFICES ASSUME Inv, build_seed_probes PROVE Inv'
  OBVIOUS
<1> DEFINE seed(s) == [addr |-> s.address, status |-> "Supported", type |-> s.type,
                       loops |-> s.type = "Dcmt"]
<1>0. /\ TypeOK /\ ConfigInv /\ OrderInv /\ ProbeInv /\ BuildInv /\ PublishInv
      /\ pc = "open" /\ mode = "mock"
  BY DEF Inv, build_seed_probes
<1>1. /\ UNCHANGED given /\ late' = late /\ UNCHANGED report /\ pc' = "build"
      /\ todo' = todo /\ addr' = addr /\ tries' = tries /\ unprobed' = unprobed
      /\ hurt' = hurt /\ seen' = seen
      /\ count' = count /\ devices' = devices /\ excluded' = excluded
      /\ probes' = {seed(s) : s \in specs} /\ left' = probes'
  BY Zenon DEF build_seed_probes
<1>2. specs' = specs /\ mode' = mode /\ budget' = budget /\ file' = file
      /\ config' = config /\ board' = board
  BY <1>1, GivenKept
<1>3. GivenOK /\ ClockOK /\ ProbingOK /\ BuildOK /\ ReportOK
  BY <1>0, TypeParts
<1>4. /\ todo = {} /\ unprobed = {} /\ addr = None /\ hurt = {}
      /\ devices = {} /\ excluded = {}
      /\ \A a \in Addresses : seen[a] = 0
  BY <1>0, NoneFree DEF OrderInv, ProbeInv, BuildInv
<1>5. /\ specs \subseteq SpecType
      /\ \A s \in specs : s.address \in Addresses /\ s.type \in Types
      /\ \A s, t \in specs : s.address = t.address => s = t
  <2>1. specs \subseteq SpecType
    BY <1>3 DEF GivenOK, specs, ConfigType
  <2> QED BY <1>0, <2>1 DEF ConfigInv, Booting, SpecType
<1>6. \A s : /\ seed(s).addr = s.address /\ seed(s).status = "Supported"
             /\ seed(s).type = s.type
  OBVIOUS
<1>7. \A s \in specs : seed(s) \in ProbeType
  <2>1. "Supported" \in Statuses
    BY DEF Statuses
  <2> QED BY <1>5, <2>1, Zenon DEF ProbeType
<1> HIDE DEF seed
<1>8. /\ \A q \in probes' : \E s \in specs : q = seed(s)
      /\ \A s \in specs : seed(s) \in probes'
  BY <1>1
<1>9. TypeOK'
  <2>1. probes' \subseteq ProbeType
    BY <1>7, <1>8, Zenon
  <2>2. PcOK' /\ ProbingOK' /\ BuildOK'
    BY <1>1, <1>3, <2>1 DEF PcOK, ProbingOK, BuildOK
  <2> QED BY <1>1, <1>2, <1>3, <2>2, GivenTyped, ClockTyped, ReportTyped, PartsType
<1>10. ConfigInv'
  BY <1>0, <1>2, ConfigKept DEF Booting
<1>11. OrderInv'
  <2>1. \A q, r \in probes' : q.addr = r.addr => q = r
    BY <1>5, <1>6, <1>8
  <2>2. \A q \in probes' : q.addr \in Addresses
    BY <1>5, <1>6, <1>8
  <2> QED BY <1>1, <1>4, <2>1, <2>2, NoneFree DEF OrderInv, Bus, Booting
<1>12. ProbeInv'
  <2>1. \A q \in probes' : q.status = "Supported" /\ q.type \in Types
    BY <1>5, <1>6, <1>8
  <2>2. \A s \in specs' : \E q \in probes' :
           q.addr = s.address /\ q.status = "Supported" /\ q.type = s.type
    BY <1>2, <1>6, <1>8
  <2> QED BY <1>0, <1>1, <1>2, <1>4, <2>1, <2>2 DEF ProbeInv
<1>13. BuildInv'
  BY <1>1, <1>4 DEF BuildInv, Booting, Bus
<1>14. PublishInv' /\ EncodersNeverRefused'
  BY <1>0, <1>1, PublishKept DEF report, EncodersNeverRefused
<1> QED BY <1>9, <1>10, <1>11, <1>12, <1>13, <1>14 DEF Inv

LEMMA BuildStep == Inv /\ StartBuild => Inv'
<1> SUFFICES ASSUME Inv, StartBuild PROVE Inv'
  OBVIOUS
<1>0. /\ TypeOK /\ ConfigInv /\ OrderInv /\ ProbeInv /\ BuildInv /\ PublishInv
      /\ pc = "probe"
  BY DEF Inv, StartBuild
<1>1. /\ UNCHANGED given /\ late' = late /\ UNCHANGED probing /\ UNCHANGED report
      /\ pc' = "build" /\ left' = probes
      /\ count' = count /\ devices' = devices /\ excluded' = excluded
  BY Zenon DEF StartBuild
<1>2. specs' = specs /\ mode' = mode /\ budget' = budget /\ file' = file
      /\ config' = config /\ board' = board
  BY <1>1, GivenKept
<1>3. /\ todo' = todo /\ addr' = addr /\ tries' = tries /\ probes' = probes
      /\ unprobed' = unprobed /\ hurt' = hurt /\ seen' = seen
  BY <1>1 DEF probing
<1>4. TypeOK'
  <2>0. GivenOK /\ ClockOK /\ ProbingOK /\ BuildOK /\ ReportOK
    BY <1>0, TypeParts
  <2>1. PcOK' /\ BuildOK'
    BY <1>1, <1>3, <2>0 DEF PcOK, BuildOK
  <2> QED BY <1>1, <1>2, <2>0, <2>1, GivenTyped, ClockTyped, ProbingTyped, ReportTyped,
             PartsType
<1>5. ConfigInv'
  BY <1>0, <1>2, ConfigKept DEF Booting
<1>6. OrderInv'
  BY <1>0, <1>1, <1>3 DEF OrderInv, Bus, Booting
<1>7. ProbeInv'
  <2>1. mode # "mock" /\ mode' # "mock"
    BY <1>0, <1>2 DEF OrderInv, Bus
  <2> QED BY <1>0, <1>1, <1>2, <1>3, <2>1 DEF ProbeInv, Truthful
<1>8. BuildInv'
  BY <1>0, <1>1, <1>3 DEF BuildInv, Booting, Bus
<1>9. PublishInv' /\ EncodersNeverRefused'
  BY <1>0, <1>1, PublishKept DEF report, EncodersNeverRefused
<1> QED BY <1>4, <1>5, <1>6, <1>7, <1>8, <1>9 DEF Inv

LEMMA DetailType ==
  ASSUME BuildOK, NEW s
  PROVE  MissingDetail(s) \in Statuses \cup {"", "not probed", "not ready"}
<1> DEFINE failed == {p \in excluded : p.addr = s.address}
<1>1. CASE s.address \in unprobed
  BY <1>1 DEF MissingDetail
<1>2. CASE s.address \notin unprobed /\ failed = {}
  BY <1>2 DEF MissingDetail
<1>3. CASE s.address \notin unprobed /\ failed # {}
  <2>1. (CHOOSE p \in failed : TRUE) \in failed
    BY <1>3
  <2>2. (CHOOSE p \in failed : TRUE) \in ProbeType
    BY <2>1 DEF BuildOK
  <2>3. (CHOOSE p \in failed : TRUE).status \in Statuses
    BY <2>2 DEF ProbeType
  <2> QED BY <1>3, <2>3, Zenon DEF MissingDetail
<1> QED BY <1>1, <1>2, <1>3

LEMMA PublishStep == Inv /\ PublishReady => Inv'
<1> SUFFICES ASSUME Inv, PublishReady PROVE Inv'
  OBVIOUS
<1>0. /\ TypeOK /\ ConfigInv /\ OrderInv /\ ProbeInv /\ BuildInv /\ PublishInv
      /\ pc = "build" /\ left = {}
  BY DEF Inv, PublishReady
<1>1. CASE publish_not_ready
  BY <1>0, <1>1, NotReadyStep
<1>2. CASE /\ pc' = "ready"
           /\ missing' = {s.id : s \in Unmatched}
           /\ detail' = [i \in missing' |->
                           MissingDetail(CHOOSE s \in Unmatched : s.id = i)]
           /\ UNCHANGED <<given, late, probing, build>>
  <2>1. /\ UNCHANGED given /\ late' = late /\ UNCHANGED probing /\ UNCHANGED build
        /\ pc' = "ready" /\ missing' = {s.id : s \in Unmatched}
        /\ detail' = [i \in missing' |->
                        MissingDetail(CHOOSE s \in Unmatched : s.id = i)]
    BY <1>2, Zenon
  <2>2. specs' = specs /\ mode' = mode /\ budget' = budget /\ file' = file
        /\ config' = config /\ board' = board
    BY <2>1, GivenKept
  <2>3. /\ todo' = todo /\ addr' = addr /\ tries' = tries /\ probes' = probes
        /\ unprobed' = unprobed /\ hurt' = hurt /\ seen' = seen
        /\ left' = left /\ count' = count /\ devices' = devices /\ excluded' = excluded
    BY <2>1 DEF probing, build
  <2>4. TypeOK'
    <3>0. GivenOK /\ ClockOK /\ ProbingOK /\ BuildOK
      BY <1>0, TypeParts
    <3>1. PcOK'
      BY <2>1 DEF PcOK
    <3>2. missing' \subseteq {s.id : s \in specs'}
      BY <2>1, <2>2 DEF Unmatched
    <3>3. detail' \in [missing' -> Statuses \cup {"", "not probed", "not ready"}]
      BY <2>1, <3>0, DetailType, Zenon
    <3>4. ReportOK'
      BY <3>2, <3>3 DEF ReportOK
    <3> QED BY <2>1, <2>2, <2>3, <3>0, <3>1, <3>4, GivenTyped, ClockTyped, ProbingTyped,
               BuildTyped, PartsType
  <2>5. ConfigInv'
    BY <1>0, <2>2, ConfigKept DEF Booting
  <2>6. OrderInv'
    BY <1>0, <2>1, <2>3 DEF OrderInv, Bus, Booting
  <2>7. ProbeInv'
    BY <1>0, <2>1, <2>2, <2>3 DEF ProbeInv, Truthful
  <2>8. BuildInv'
    <3>1. /\ \A d, q : FromProbe(d, q)' = FromProbe(d, q)
          /\ \A d, s : FromSpec(d, s)' = FromSpec(d, s)
          /\ \A d : Generated(d)' = Generated(d)
          /\ \A x, q : FromExcluded(x, q)' = FromExcluded(x, q)
          /\ \A q : find_config_match_by_address(q)' = find_config_match_by_address(q)
          /\ \A s : Matched(s)' = Matched(s)
      BY <2>2, <2>3, Zenon DEF FromProbe, FromSpec, Generated, FromExcluded,
         find_config_match_by_address, Matched
    <3>2. /\ pc \in {"build", "ready"} /\ pc' \notin Booting \cup Bus \cup {"open"}
      BY <1>0, <2>1 DEF Booting, Bus
    <3> QED BY <1>0, <2>2, <2>3, <3>1, <3>2, Zenon DEF BuildInv
  <2>9. PublishInv'
    <3>1. Unmatched' = Unmatched /\ \A s : MissingDetail(s)' = MissingDetail(s)
      <4>1. Unmatched' = Unmatched
        BY <2>2, <2>3 DEF Unmatched, Matched
      <4>2. \A s : MissingDetail(s)' = MissingDetail(s)
        BY <2>3 DEF MissingDetail
      <4> QED BY <4>1, <4>2
    <3>2. ASSUME NEW s \in Unmatched PROVE detail'[s.id] = MissingDetail(s)
      <4>1. s.id \in missing' /\ \A t \in Unmatched : t.id = s.id => t = s
        BY <1>0, <2>1 DEF Unmatched, ConfigInv, Booting
      <4>2. (CHOOSE t \in Unmatched : t.id = s.id) = s
        BY <4>1
      <4> QED BY <2>1, <4>1, <4>2
    <3> QED BY <1>0, <2>1, <2>3, <3>1, <3>2 DEF PublishInv
  <2>10. EncodersNeverRefused'
    BY <2>1 DEF EncodersNeverRefused
  <2> QED BY <2>4, <2>5, <2>6, <2>7, <2>8, <2>9, <2>10 DEF Inv
<1> QED BY <1>1, <1>2, Zenon DEF PublishReady

\* A step of the placing loop changes nothing but the inventory.
LEMMA InventoryStep ==
  ASSUME Inv, pc = "build", pc' = pc, UNCHANGED given, late' = late, UNCHANGED probing,
         UNCHANGED report, BuildOK', BuildInv'
  PROVE  Inv'
<1>0. /\ TypeOK /\ ConfigInv /\ OrderInv /\ ProbeInv /\ PublishInv
  BY DEF Inv
<1>1. specs' = specs /\ mode' = mode /\ budget' = budget /\ file' = file
      /\ config' = config /\ board' = board
  BY GivenKept
<1>2. /\ todo' = todo /\ addr' = addr /\ tries' = tries /\ probes' = probes
      /\ unprobed' = unprobed /\ hurt' = hurt /\ seen' = seen
  BY DEF probing
<1>3. TypeOK'
  <2>0. GivenOK /\ ClockOK /\ PcOK /\ ProbingOK /\ ReportOK
    BY <1>0, TypeParts
  <2>1. PcOK'
    BY <2>0 DEF PcOK
  <2> QED BY <1>1, <2>0, <2>1, GivenTyped, ClockTyped, ProbingTyped, ReportTyped, PartsType
<1>4. ConfigInv'
  BY <1>0, <1>1, ConfigKept DEF Booting
<1>5. OrderInv'
  BY <1>0, <1>1, <1>2 DEF OrderInv
<1>6. ProbeInv'
  BY <1>0, <1>1, <1>2 DEF ProbeInv, Truthful
<1>7. PublishInv' /\ EncodersNeverRefused'
  BY <1>0, PublishKept DEF report, EncodersNeverRefused
<1> QED BY <1>3, <1>4, <1>5, <1>6, <1>7 DEF Inv

LEMMA ExcludeStep ==
  ASSUME Inv, pc = "build", pc' = pc, UNCHANGED given, late' = late, UNCHANGED probing,
         UNCHANGED report, NEW p \in left, left' = left \ {p},
         NEW x \in ProbeType, excluded' = excluded \cup {x}, count' = count,
         devices' = devices, FromExcluded(x, p),
         \A s \in find_config_match_by_address(p) :
             ~(p.status = "Supported" /\ p.type = s.type)
  PROVE  Inv'
<1>0. TypeOK /\ BuildInv /\ BuildOK
  BY TypeParts DEF Inv
<1>1. specs' = specs /\ probes' = probes
  BY GivenKept DEF probing
<1>2. BuildOK'
  BY <1>0, <1>1 DEF BuildOK
<1>3. /\ probes' \ left' = (probes \ left) \cup {p} /\ x.addr = p.addr
  BY <1>0, <1>1 DEF BuildOK, FromExcluded
<1>4. /\ \A d, q : FromProbe(d, q)' = FromProbe(d, q)
      /\ \A d, s : FromSpec(d, s)' = FromSpec(d, s)
      /\ \A d : Generated(d)' = Generated(d)
      /\ \A y, q : FromExcluded(y, q)' = FromExcluded(y, q)
      /\ \A q : find_config_match_by_address(q)' = find_config_match_by_address(q)
      /\ \A s : Matched(s)' = Matched(s)
  BY <1>1, Zenon DEF FromProbe, FromSpec, Generated, FromExcluded,
     find_config_match_by_address, Matched
<1>5. \A d \in devices' :
         /\ \E q \in probes' \ left' : FromProbe(d, q)'
         /\ IF d.expected THEN \E s \in specs' : FromSpec(d, s)' ELSE Generated(d)'
  <2>1. \A d \in devices :
           /\ \E q \in probes \ left : FromProbe(d, q)
           /\ IF d.expected THEN \E s \in specs : FromSpec(d, s) ELSE Generated(d)
    BY <1>0, Zenon DEF BuildInv
  <2> QED BY <1>1, <1>3, <1>4, <2>1, Zenon
<1>6. \A y \in excluded' : \E q \in probes' \ left' : FromExcluded(y, q)'
  <2>1. \A y \in excluded : \E q \in probes \ left : FromExcluded(y, q)
    BY <1>0, Zenon DEF BuildInv
  <2> QED BY <1>3, <1>4, <2>1, Zenon
<1>7. \A q \in probes' \ left' : \A s \in find_config_match_by_address(q)' :
         IF q.status = "Supported" /\ q.type = s.type
         THEN Matched(s)' ELSE \E y \in excluded' : y.addr = q.addr
  <2>1. \A q \in probes \ left : \A s \in find_config_match_by_address(q) :
           IF q.status = "Supported" /\ q.type = s.type
           THEN Matched(s) ELSE \E y \in excluded : y.addr = q.addr
    BY <1>0 DEF BuildInv
  <2> QED BY <1>3, <1>4, <2>1, Zenon
<1>8. \A d, e \in devices' : ~d.expected /\ ~e.expected /\ d.id = e.id => d = e
  BY <1>0, Zenon DEF BuildInv
<1>9. pc' \notin Booting \cup Bus \cup {"open"}
  BY DEF Booting, Bus
<1>10. BuildInv'
  BY <1>5, <1>6, <1>7, <1>8, <1>9, Zenon DEF BuildInv
<1> QED BY <1>2, <1>10, InventoryStep

LEMMA ServeStep ==
  ASSUME Inv, pc = "build", pc' = pc, UNCHANGED given, late' = late, UNCHANGED probing,
         UNCHANGED report, NEW p \in left, left' = left \ {p},
         NEW d \in DeviceRecord, devices' = devices \cup {d}, excluded' = excluded,
         count' = [count EXCEPT ![p.type] = @ + 1], p.type \in Types,
         FromProbe(d, p),
         \/ d.expected /\ \E s \in specs : FromSpec(d, s)
         \/ /\ ~d.expected /\ find_config_match_by_address(p) = {}
            /\ d.wd = 0 /\ d.id = generated_id(p.type),
         \A s \in find_config_match_by_address(p) : p.type = s.type /\ d.expected
  PROVE  Inv'
<1>0. TypeOK /\ BuildInv /\ BuildOK
  BY TypeParts DEF Inv
<1>1. specs' = specs /\ probes' = probes
  BY GivenKept DEF probing
<1>2. /\ count \in [Types -> Nat] /\ count' \in [Types -> Nat]
      /\ count'[p.type] = count[p.type] + 1
      /\ \A t \in Types : count[t] <= count'[t]
  BY <1>0 DEF BuildOK
<1>3. BuildOK'
  BY <1>0, <1>1, <1>2 DEF BuildOK
<1>4. /\ probes' \ left' = (probes \ left) \cup {p}
      /\ d.addr = p.addr /\ d.type = p.type /\ p.status = "Supported"
      /\ devices \subseteq DeviceRecord
  BY <1>0, <1>1 DEF BuildOK, FromProbe
<1>5. /\ \A e, q : FromProbe(e, q)' = FromProbe(e, q)
      /\ \A e, s : FromSpec(e, s)' = FromSpec(e, s)
      /\ \A y, q : FromExcluded(y, q)' = FromExcluded(y, q)
      /\ \A q : find_config_match_by_address(q)' = find_config_match_by_address(q)
  BY <1>1, Zenon DEF FromProbe, FromSpec, FromExcluded, find_config_match_by_address
<1>6. \A e \in devices :
         /\ \E q \in probes \ left : FromProbe(e, q)
         /\ IF e.expected THEN \E s \in specs : FromSpec(e, s) ELSE Generated(e)
  BY <1>0, Zenon DEF BuildInv
<1>7. ASSUME NEW e \in devices, Generated(e) PROVE Generated(e)'
  <2>1. e.type \in Types
    BY <1>4 DEF DeviceRecord
  <2>2. count[e.type] \in Nat /\ count'[e.type] \in Nat /\ count[e.type] <= count'[e.type]
    BY <1>2, <2>1
  <2>3. \A n \in 0..count[e.type] - 1 : n \in 0..count'[e.type] - 1
    BY <2>2
  <2> QED BY <1>1, <1>7, <2>3, Zenon DEF Generated
<1>8. ASSUME ~d.expected PROVE Generated(d)'
  <2>1. d.wd = 0 /\ d.id = <<d.type, count[d.type]>>
        /\ \A s \in specs : s.address # d.addr
    BY <1>4, <1>8, Zenon DEF generated_id, find_config_match_by_address
  <2>2. count[d.type] \in 0..count'[d.type] - 1
    BY <1>2, <1>4
  <2> QED BY <1>1, <2>1, <2>2, Zenon DEF Generated
<1>9. \A e \in devices' :
         /\ \E q \in probes' \ left' : FromProbe(e, q)'
         /\ IF e.expected THEN \E s \in specs' : FromSpec(e, s)' ELSE Generated(e)'
  BY <1>1, <1>4, <1>5, <1>6, <1>7, <1>8, Zenon
<1>10. \A y \in excluded' : \E q \in probes' \ left' : FromExcluded(y, q)'
  <2>1. \A y \in excluded : \E q \in probes \ left : FromExcluded(y, q)
    BY <1>0, Zenon DEF BuildInv
  <2> QED BY <1>4, <1>5, <2>1, Zenon
<1>11. \A q \in probes' \ left' : \A s \in find_config_match_by_address(q)' :
          IF q.status = "Supported" /\ q.type = s.type
          THEN Matched(s)' ELSE \E y \in excluded' : y.addr = q.addr
  <2>1. \A q \in probes \ left : \A s \in find_config_match_by_address(q) :
           IF q.status = "Supported" /\ q.type = s.type
           THEN Matched(s) ELSE \E y \in excluded : y.addr = q.addr
    BY <1>0 DEF BuildInv
  <2>2. \A s : Matched(s) => Matched(s)'
    BY Zenon DEF Matched
  <2>3. \A s \in find_config_match_by_address(p) : p.type = s.type /\ Matched(s)'
    BY <1>4, Zenon DEF Matched, find_config_match_by_address
  <2> QED BY <1>4, <1>5, <2>1, <2>2, <2>3, Zenon
<1>12. \A e, g \in devices' : ~e.expected /\ ~g.expected /\ e.id = g.id => e = g
  <2>1. \A e, g \in devices : ~e.expected /\ ~g.expected /\ e.id = g.id => e = g
    BY <1>0, Zenon DEF BuildInv
  <2>2. ASSUME NEW e \in devices, ~e.expected, ~d.expected PROVE e.id # d.id
    <3>1. Generated(e)
      BY <1>6, <2>2, Zenon
    <3>2. PICK n \in 0..count[e.type] - 1 : e.id = <<e.type, n>>
      BY <3>1, Zenon DEF Generated
    <3>3. d.id = <<d.type, count[d.type]>>
      BY <1>4, <2>2, Zenon DEF generated_id
    <3>4. e.type \in Types /\ d.type \in Types /\ count[e.type] \in Nat
      BY <1>2, <1>4 DEF DeviceRecord
    <3> QED BY <3>2, <3>3, <3>4
  <2> QED BY <2>1, <2>2, Zenon
<1>13. pc' \notin Booting \cup Bus \cup {"open"}
  BY DEF Booting, Bus
<1>14. BuildInv'
  BY <1>9, <1>10, <1>11, <1>12, <1>13, Zenon DEF BuildInv
<1> QED BY <1>3, <1>14, InventoryStep

LEMMA PlaceStep == Inv /\ Place => Inv'
<1> SUFFICES ASSUME Inv, Place PROVE Inv'
  OBVIOUS
<1>0. /\ TypeOK /\ ConfigInv /\ ProbeInv /\ BuildInv /\ GivenOK /\ ProbingOK /\ BuildOK
      /\ pc = "build"
  BY TypeParts DEF Inv, Place
<1>1. /\ pc' = pc /\ UNCHANGED given /\ late' = late /\ UNCHANGED probing
      /\ UNCHANGED report
  BY Zenon DEF Place
<1>2. PICK p \in left :
         /\ left' = left \ {p}
         /\ LET match == find_config_match_by_address(p) IN
            \/ p.status # "Supported" /\ Exclude(p)
            \/ /\ p.status = "Supported"
               /\ \E s \in match :
                     \/ /\ s.type # p.type
                        /\ Exclude([p EXCEPT !.status = "TypeMismatch"])
                     \/ /\ s.type = p.type
                        /\ Serve(p, build_device(p, s.id, TRUE,
                                                 s.command_watchdog_ms,
                                                 OfferedLoops(p, s)))
            \/ /\ p.status = "Supported" /\ match = {}
               /\ Serve(p, build_device(p, generated_id(p.type), FALSE, 0,
                                        p.loops))
  BY Zenon DEF Place
<1>3. p \in ProbeType /\ (p.status = "Supported" => p.type \in Types)
  BY <1>0, <1>2 DEF BuildOK, ProbingOK, ProbeInv
<1>4. /\ \A s \in specs : s \in SpecType
      /\ \A s, t \in specs : s.address = t.address => s = t
  BY <1>0 DEF GivenOK, specs, ConfigType, ConfigInv, Booting
<1>5. CASE p.status # "Supported" /\ Exclude(p)
  <2>1. FromExcluded(p, p)
    BY <1>5, Zenon DEF FromExcluded
  <2>2. excluded' = excluded \cup {p} /\ count' = count /\ devices' = devices
    BY <1>5, Zenon DEF Exclude
  <2> QED BY <1>0, <1>1, <1>2, <1>3, <1>5, <2>1, <2>2, ExcludeStep, Zenon
<1>6. ASSUME p.status = "Supported", NEW s \in find_config_match_by_address(p),
             s.type # p.type, Exclude([p EXCEPT !.status = "TypeMismatch"])
      PROVE  Inv'
  <2>1. PICK x : x = [p EXCEPT !.status = "TypeMismatch"]
    OBVIOUS
  <2>2. x.addr = p.addr /\ x.status = "TypeMismatch" /\ x \in ProbeType
    BY <1>3, <2>1 DEF ProbeType, Statuses
  <2>3. /\ s \in specs /\ s.address = p.addr
        /\ \A t \in find_config_match_by_address(p) : t = s
    BY <1>4 DEF find_config_match_by_address
  <2>4. FromExcluded(x, p)
    BY <1>6, <2>2, <2>3, Zenon DEF FromExcluded
  <2>5. excluded' = excluded \cup {x} /\ count' = count /\ devices' = devices
    BY <1>6, <2>1, Zenon DEF Exclude
  <2>6. \A t \in find_config_match_by_address(p) :
           ~(p.status = "Supported" /\ p.type = t.type)
    BY <1>6, <2>3
  <2> QED BY <1>0, <1>1, <1>2, <2>2, <2>4, <2>5, <2>6, ExcludeStep, Zenon
<1>7. ASSUME p.status = "Supported", NEW s \in find_config_match_by_address(p),
             s.type = p.type,
             Serve(p, build_device(p, s.id, TRUE, s.command_watchdog_ms,
                                   OfferedLoops(p, s)))
      PROVE  Inv'
  <2>1. PICK d : d = build_device(p, s.id, TRUE, s.command_watchdog_ms,
                                  OfferedLoops(p, s))
    OBVIOUS
  <2>2. /\ s \in specs /\ s \in SpecType /\ s.address = p.addr
        /\ \A t \in find_config_match_by_address(p) : t = s
    BY <1>4 DEF find_config_match_by_address
  <2>3. d = [addr |-> p.addr, type |-> p.type, id |-> s.id, expected |-> TRUE,
             wd |-> s.command_watchdog_ms, loops |-> OfferedLoops(p, s)]
    BY <2>1, Zenon DEF build_device
  <2>4. /\ d.addr = p.addr /\ d.type = p.type /\ d.id = s.id
        /\ d.wd = s.command_watchdog_ms
    BY <2>3
  <2>5. d.expected = TRUE /\ d.loops = OfferedLoops(p, s)
    BY <2>3
  <2>6. d \in DeviceRecord
    <3>1. OfferedLoops(p, s) \in BOOLEAN
      BY Zenon DEF OfferedLoops
    <3>2. /\ p.addr \in Addresses /\ s.id \in (Names \cup Types) \X Nat
          /\ s.command_watchdog_ms \in 0..max_watchdog
      BY <1>3, <2>2 DEF ProbeType, SpecType
    <3> QED BY <1>3, <1>7, <2>3, <3>1, <3>2, Zenon DEF DeviceRecord
  <2>7. FromProbe(d, p)
    <3>1. d.loops => p.loops
      BY <2>5, Zenon DEF OfferedLoops
    <3> QED BY <1>7, <2>4, <3>1, Zenon DEF FromProbe
  <2>8. FromSpec(d, s)
    <3>1. d.loops /\ p.type = "Dcmt" => s.encoders
      BY <2>5, Zenon DEF OfferedLoops
    <3> QED BY <1>7, <2>2, <2>4, <3>1, Zenon DEF FromSpec
  <2>9. /\ devices' = devices \cup {d} /\ excluded' = excluded
        /\ count' = [count EXCEPT ![p.type] = @ + 1]
    BY <1>7, <2>1, Zenon DEF Serve
  <2>10. /\ d.expected /\ \E t \in specs : FromSpec(d, t)
         /\ \A t \in find_config_match_by_address(p) : p.type = t.type /\ d.expected
    BY <1>7, <2>2, <2>5, <2>8, Zenon
  <2> QED BY <1>0, <1>1, <1>2, <1>3, <1>7, <2>6, <2>7, <2>9, <2>10, ServeStep, Zenon
<1>8. CASE /\ p.status = "Supported" /\ find_config_match_by_address(p) = {}
           /\ Serve(p, build_device(p, generated_id(p.type), FALSE, 0, p.loops))
  <2>1. PICK d : d = build_device(p, generated_id(p.type), FALSE, 0, p.loops)
    OBVIOUS
  <2>2. d = [addr |-> p.addr, type |-> p.type, id |-> generated_id(p.type),
             expected |-> FALSE, wd |-> 0, loops |-> p.loops]
    BY <2>1, Zenon DEF build_device
  <2>3. /\ d.addr = p.addr /\ d.type = p.type /\ d.id = generated_id(p.type) /\ d.wd = 0
    BY <2>2
  <2>4. d.expected = FALSE /\ d.loops = p.loops
    BY <2>2
  <2>5. d \in DeviceRecord
    <3>1. p.addr \in Addresses
      BY <1>3 DEF ProbeType
    <3>2. p.loops \in BOOLEAN
      BY <1>3, Zenon DEF ProbeType
    <3>3. generated_id(p.type) \in (Names \cup Types) \X Nat
      BY <1>0, <1>3, <1>8 DEF generated_id, BuildOK
    <3>4. 0 \in 0..max_watchdog
      BY SMT DEF max_watchdog
    <3> QED BY <1>3, <1>8, <2>2, <3>1, <3>2, <3>3, <3>4, Zenon DEF DeviceRecord
  <2>6. FromProbe(d, p)
    BY <1>8, <2>3, <2>4, Zenon DEF FromProbe
  <2>7. /\ devices' = devices \cup {d} /\ excluded' = excluded
        /\ count' = [count EXCEPT ![p.type] = @ + 1]
    BY <1>8, <2>1, Zenon DEF Serve
  <2>8. ~d.expected
    BY <2>4
  <2>9. \A t \in find_config_match_by_address(p) : p.type = t.type /\ d.expected
    BY <1>8
  <2> QED BY <1>0, <1>1, <1>2, <1>3, <1>8, <2>3, <2>5, <2>6, <2>7, <2>8, <2>9, ServeStep,
             Zenon
<1> QED BY <1>2, <1>5, <1>6, <1>7, <1>8, Zenon

-----------------------------------------------------------------------------
(* The theorems. *)

LEMMA StutterStep == Inv /\ UNCHANGED vars => Inv'
<1> SUFFICES ASSUME Inv, UNCHANGED vars PROVE Inv'
  OBVIOUS
<1>0. /\ TypeOK /\ ConfigInv /\ OrderInv /\ ProbeInv /\ BuildInv /\ PublishInv
      /\ EncodersNeverRefused
  BY DEF Inv
<1>1. /\ UNCHANGED given /\ pc' = pc /\ late' = late /\ UNCHANGED probing
      /\ UNCHANGED build /\ UNCHANGED report
  BY Zenon DEF vars
<1>2. specs' = specs /\ mode' = mode /\ budget' = budget /\ file' = file
      /\ config' = config /\ board' = board
  BY <1>1, GivenKept
<1>3. /\ todo' = todo /\ addr' = addr /\ tries' = tries /\ probes' = probes
      /\ unprobed' = unprobed /\ hurt' = hurt /\ seen' = seen
      /\ left' = left /\ count' = count /\ devices' = devices /\ excluded' = excluded
      /\ missing' = missing /\ detail' = detail
  BY <1>1 DEF probing, build, report
<1>4. TypeOK'
  <2>0. GivenOK /\ ClockOK /\ PcOK /\ ProbingOK /\ BuildOK /\ ReportOK
    BY <1>0, TypeParts
  <2>1. PcOK'
    BY <1>1, <2>0 DEF PcOK
  <2> QED BY <1>1, <1>2, <1>3, <2>0, <2>1, GivenTyped, ClockTyped, ProbingTyped,
             BuildTyped, ReportTyped, PartsType
<1>5. ConfigInv'
  BY <1>0, <1>1, <1>2, Zenon DEF ConfigInv, specs, Rows
<1>6. OrderInv' /\ ProbeInv'
  BY <1>0, <1>1, <1>2, <1>3 DEF OrderInv, ProbeInv, Truthful
<1>7. BuildInv'
  <2>1. /\ \A d, q : FromProbe(d, q)' = FromProbe(d, q)
        /\ \A d, s : FromSpec(d, s)' = FromSpec(d, s)
        /\ \A d : Generated(d)' = Generated(d)
        /\ \A x, q : FromExcluded(x, q)' = FromExcluded(x, q)
        /\ \A q : find_config_match_by_address(q)' = find_config_match_by_address(q)
        /\ \A s : Matched(s)' = Matched(s)
    BY <1>2, <1>3, Zenon DEF FromProbe, FromSpec, Generated, FromExcluded,
       find_config_match_by_address, Matched
  <2> QED BY <1>0, <1>1, <1>2, <1>3, <2>1, Zenon DEF BuildInv
<1>8. PublishInv'
  <2>1. Unmatched' = Unmatched
    BY <1>2, <1>3 DEF Unmatched, Matched
  <2>2. \A s : MissingDetail(s)' = MissingDetail(s)
    BY <1>3 DEF MissingDetail
  <2> QED BY <1>0, <1>1, <1>2, <1>3, <2>1, <2>2, Zenon DEF PublishInv
<1>9. EncodersNeverRefused'
  BY <1>0, <1>1, <1>2, Zenon DEF EncodersNeverRefused
<1> QED BY <1>4, <1>5, <1>6, <1>7, <1>8, <1>9 DEF Inv

\* The invariant holds in every state of start-up.
THEOREM Invariance == Spec => []Inv
<1>1. Inv /\ [Next]_vars => Inv'
  BY LoadStep, OpenStep, ListStep, SeedStep, NextStep, VersionStep, CapsStep, BuildStep,
     PlaceStep, PublishStep, DeadlineStep, StutterStep, Zenon DEF Next, Step
<1> QED BY InitInv, <1>1, PTL DEF Spec

\* Every variable of start-up keeps its type.
THEOREM TypeCorrect == Spec => []TypeOK
<1>1. Inv => TypeOK
  BY DEF Inv
<1> QED BY Invariance, <1>1, PTL

\* A file is never refused for an encoders key.
THEOREM EncodersCorrect == Spec => []EncodersNeverRefused
<1>1. Inv => EncodersNeverRefused
  BY DEF Inv
<1> QED BY Invariance, <1>1, PTL

\* The watchdog timeout survives the 16 bits of its wire field.
LEMMA WireTimeout == \A d : d.wd \in 0..max_watchdog => timeout_ms(d) = d.wd
<1>1. \A w \in 0..max_watchdog : w % 65536 = w
  <2>1. \A w \in Int : 0 <= w /\ w <= max_watchdog => w % 65536 = w
    BY SMT DEF max_watchdog
  <2>2. \A w \in 0..max_watchdog : w \in Int /\ 0 <= w /\ w <= max_watchdog
    BY SMT DEF max_watchdog
  <2> QED BY SMT, <2>1, <2>2
<1> QED BY SMT, <1>1 DEF timeout_ms

\* The device that is served for a row of the file is what the row asks for, and
\* it is there exactly if the configured device was matched.
LEMMA ServedIsMatched ==
  ASSUME Inv, pc \notin Booting, NEW r \in Rows, NEW s \in specs, Asks(r, s)
  PROVE  (\E d \in devices : ServedAs(r, d)) <=> Matched(s)
<1>0. /\ ConfigInv /\ BuildInv /\ devices \subseteq DeviceRecord
      /\ \A t \in specs : s.address = t.address => s = t
  BY DEF Inv, TypeOK, ConfigInv
<1>1. s.id = r.id /\ s.address = r.address /\ s.type = parse_device_type[r.type]
      /\ s.command_watchdog_ms = ValueOr(r.command_watchdog_ms, 0)
  BY Zenon DEF Asks
<1>2. ASSUME NEW d \in devices, ServedAs(r, d) PROVE Matched(s)
  BY <1>1, <1>2, Zenon DEF ServedAs, Matched
<1>3. ASSUME NEW d \in devices, d.expected, d.addr = s.address PROVE ServedAs(r, d)
  <2>1. \E t \in specs : FromSpec(d, t)
    BY <1>0, <1>3, Zenon DEF BuildInv
  <2>2. FromSpec(d, s)
    BY <1>0, <1>3, <2>1, Zenon DEF FromSpec
  <2>3. /\ d.type = s.type /\ d.id = s.id /\ d.wd = s.command_watchdog_ms
    BY <2>2, Zenon DEF FromSpec
  <2>4. timeout_ms(d) = d.wd
    <3>1. d.wd \in 0..max_watchdog
      BY <1>0 DEF DeviceRecord
    <3> QED BY <3>1, WireTimeout
  <2> QED BY <1>1, <1>3, <2>3, <2>4, Zenon DEF ServedAs
<1> QED BY <1>2, <1>3, Zenon DEF Matched

\* On a mock bus every configured device is served.
LEMMA MockServesAll ==
  ASSUME Inv, pc = "ready", mode = "mock", NEW s \in specs
  PROVE  Matched(s)
<1>1. ProbeInv /\ BuildInv /\ PublishInv
  BY DEF Inv
<1>2. PICK p \in probes : p.addr = s.address /\ p.status = "Supported" /\ p.type = s.type
  BY <1>1 DEF ProbeInv
<1>3. p \in probes \ left /\ s \in find_config_match_by_address(p)
  BY <1>1, <1>2 DEF PublishInv, find_config_match_by_address
<1> QED BY <1>1, <1>2, <1>3 DEF BuildInv

\* Once start-up has published, each row of the configuration file is served as
\* it asks or reported as failed, and never both.
THEOREM AccountCorrect == Spec => []ServedXorMissing
<1> DEFINE Served(r) == \E d \in devices : ServedAs(r, d)
<1>1. ASSUME Inv, pc \in {"ready", "not ready"}, NEW r \in Rows
      PROVE  Served(r) <=> r.id \notin missing
  <2>0. ConfigInv /\ PublishInv /\ pc \notin Booting
    BY <1>1 DEF Inv, Booting
  <2>1. PICK s \in specs : Asks(r, s)
    BY <1>1, <2>0, Zenon DEF ConfigInv
  <2>2. /\ s.id = r.id /\ \A t \in specs : t.id = s.id => t = s
    BY <2>0, <2>1 DEF Asks, ConfigInv
  <2>3. Served(r) <=> Matched(s)
    BY <1>1, <2>0, <2>1, ServedIsMatched
  <2>4. CASE pc = "ready"
    <3>1. s.id \in missing <=> s \in Unmatched
      BY <2>0, <2>2, <2>4 DEF PublishInv, Unmatched
    <3>2. mode = "mock" => Matched(s)
      BY <1>1, <2>4, MockServesAll
    <3>3. s \in Unmatched <=> ~Matched(s)
      BY <3>2 DEF Unmatched
    <3> QED BY <2>2, <2>3, <3>1, <3>3
  <2>5. CASE pc = "not ready"
    <3>1. s.id \in missing /\ devices = {}
      BY <2>0, <2>5 DEF PublishInv
    <3> QED BY <2>2, <3>1
  <2> QED BY <1>1, <2>4, <2>5
<1>2. Inv => ServedXorMissing
  <2> SUFFICES ASSUME Inv, pc \in {"ready", "not ready"}
               PROVE  /\ \A r \in Rows : Served(r) # (r.id \in missing)
                      /\ pc = "ready" /\ missing = {} => \A r \in Rows : Served(r)
    <3>1. /\ readiness.successful = devices /\ DOMAIN readiness.failed = missing
          /\ readiness.ready = (pc = "ready")
          /\ readiness.degraded = (pc = "ready" /\ missing # {})
      BY DEF readiness
    <3> QED BY <3>1, Zenon DEF ServedXorMissing
  <2> HIDE DEF Served
  <2> QED BY <1>1
<1> QED BY Invariance, <1>2, PTL

\* A configured device is missing for the cause that the report gives.
THEOREM CauseCorrect == Spec => []MissingForCause
<1>1. ASSUME Inv, pc = "ready", NEW s \in specs, s.id \in missing
      PROVE  /\ readiness.failed[s.id] = Cause(s)
             /\ detail[s.id] = "TypeMismatch" => board[s.address].type # s.type
  <2>0. /\ TypeOK /\ ConfigInv /\ OrderInv /\ ProbeInv /\ BuildInv /\ PublishInv
        /\ left = {}
    BY <1>1 DEF Inv, PublishInv
  <2>1. /\ s \in Unmatched /\ mode # "mock" /\ ~Matched(s)
        /\ \A t \in specs : t.address = s.address => t = s
    BY <1>1, <2>0 DEF PublishInv, Unmatched, ConfigInv, Booting
  <2>2. detail[s.id] = MissingDetail(s)
    BY <1>1, <2>0, <2>1 DEF PublishInv
  <2>3. readiness.failed[s.id] = IF MissingDetail(s) = "" THEN "not found"
                                 ELSE MissingDetail(s)
    BY <1>1, <2>2 DEF readiness
  <2>4. CASE s.address \in unprobed
    <3>1. MissingDetail(s) = "not probed" /\ Cause(s) = "not probed"
      BY <2>4 DEF MissingDetail, Cause
    <3> QED BY <2>2, <2>3, <3>1
  <2>5. CASE s.address \notin unprobed /\ \A p \in probes : p.addr # s.address
    <3>1. \A x \in excluded : x.addr # s.address
      BY <2>0, <2>5 DEF BuildInv, FromExcluded
    <3>2. MissingDetail(s) = ""
      BY <2>5, <3>1 DEF MissingDetail
    <3>3. Cause(s) = "not found"
      BY <2>5 DEF Cause
    <3> QED BY <2>2, <2>3, <3>2, <3>3
  <2>6. ASSUME s.address \notin unprobed, NEW p \in probes, p.addr = s.address
        PROVE  /\ readiness.failed[s.id] = Cause(s)
               /\ detail[s.id] = "TypeMismatch" => board[s.address].type # s.type
    <3> DEFINE failed == {x \in excluded : x.addr = s.address}
    <3>1. /\ p \in probes \ left /\ Truthful(p) /\ p.status # "TypeMismatch"
          /\ \A q \in probes : q.addr = s.address => q = p
          /\ p \in ProbeType
      BY <2>0, <2>1, <2>6 DEF ProbeInv, OrderInv, TypeOK
    <3>2. failed # {}
      BY <1>1, <2>0, <2>1, <2>6, <3>1 DEF BuildInv, find_config_match_by_address
    <3>3. PICK x \in failed : MissingDetail(s) = x.status
      BY <2>6, <3>2 DEF MissingDetail
    <3>4. FromExcluded(x, p)
      <4>1. PICK q \in probes \ left : FromExcluded(x, q)
        BY <2>0, <3>3 DEF BuildInv
      <4>2. q.addr = s.address
        BY <3>3, <4>1 DEF FromExcluded
      <4> QED BY <3>1, <4>1, <4>2
    <3>5. /\ p.status = "Supported" => x.status = "TypeMismatch" /\ s.type # p.type
          /\ p.status # "Supported" => x.status = p.status
      BY <2>1, <2>6, <3>4 DEF FromExcluded
    <3>6. s.address \in {q.addr : q \in probes}
      BY <2>6
    <3>7. CASE s.address \in hurt \/ seen[s.address] = kStaleReplyAttempts
      <4>1. p.status = "VersionReadFailed"
        BY <2>6, <3>1, <3>7 DEF Truthful
      <4>2. Cause(s) = "VersionReadFailed"
        BY <2>6, <3>6, <3>7 DEF Cause
      <4> QED BY <2>2, <2>3, <3>3, <3>5, <4>1, <4>2
    <3>8. CASE ~(s.address \in hurt \/ seen[s.address] = kStaleReplyAttempts)
      <4>1. p.type = board[s.address].type /\ p.status = VersionGate(board[s.address])
        BY <2>6, <3>1, <3>8 DEF Truthful
      <4>2. Cause(s) = IF p.status # "Supported" THEN p.status ELSE "TypeMismatch"
        BY <2>6, <3>6, <3>8, <4>1, Zenon DEF Cause
      <4>3. p.status # ""
        BY <3>1 DEF ProbeType, Statuses
      <4> QED BY <2>2, <2>3, <3>1, <3>3, <3>5, <4>1, <4>2, <4>3
    <3> QED BY <3>7, <3>8
  <2> QED BY <2>4, <2>5, <2>6
<1>2. Inv => MissingForCause
  BY <1>1, Zenon DEF MissingForCause
<1> QED BY Invariance, <1>2, PTL

\* A device served from a bus is a board that is there and passes the gate, with
\* the settings of its own row only, and generated ids are distinct.
THEOREM FoundCorrect == Spec => []ServedAsFound
<1>1. ASSUME Inv, mode # "mock", NEW d \in devices
      PROVE  LET b == board[d.addr]
                 here == {r \in Rows : r.address = d.addr} IN
             /\ b # NoBoard /\ b.type = d.type /\ VersionGate(b) = "Supported"
             /\ d.wd > 0 => \E r \in here : r.command_watchdog_ms = d.wd
             /\ d.loops => b.loops /\ \A r \in here : d.type = "Dcmt" => r.encoders # FALSE
             /\ \A e \in devices : ~d.expected /\ ~e.expected /\ d.id = e.id => d = e
  <2> DEFINE b == board[d.addr]
             here == {r \in Rows : r.address = d.addr}
  <2>0. /\ TypeOK /\ ConfigInv /\ ProbeInv /\ BuildInv
    BY <1>1 DEF Inv
  <2>1. pc \notin Booting
    BY <1>1, <2>0 DEF BuildInv
  <2>2. /\ \E p \in probes \ left : FromProbe(d, p)
        /\ IF d.expected THEN \E s \in specs : FromSpec(d, s) ELSE Generated(d)
        /\ \A e \in devices : ~d.expected /\ ~e.expected /\ d.id = e.id => d = e
    BY <1>1, <2>0, Zenon DEF BuildInv
  <2>3. PICK p \in probes : FromProbe(d, p)
    BY <2>2, Zenon
  <2>4. Truthful(p) /\ p.addr = d.addr /\ p.status = "Supported" /\ p.type = d.type
        /\ (d.loops => p.loops)
    BY <1>1, <2>0, <2>3, Zenon DEF ProbeInv, FromProbe
  <2>5. b # NoBoard /\ b.type = d.type /\ VersionGate(b) = "Supported"
    BY <2>4 DEF Truthful
  <2>6. d.loops => b.loops
    <3>1. "VersionReadFailed" # "Supported"
      OBVIOUS
    <3> QED BY <2>4, <3>1, Zenon DEF Truthful
  <2>7. \A r \in here : /\ d.expected
                        /\ \E s \in specs : Asks(r, s) /\ FromSpec(d, s)
    <3>1. ASSUME NEW r \in here
          PROVE  d.expected /\ \E s \in specs : Asks(r, s) /\ FromSpec(d, s)
      <4>1. PICK s \in specs : Asks(r, s)
        BY <2>0, <2>1, <3>1, Zenon DEF ConfigInv
      <4>2. s.address = d.addr
        BY <3>1, <4>1 DEF Asks
      <4>3. d.expected
        BY <2>2, <4>2, Zenon DEF Generated
      <4>4. PICK t \in specs : FromSpec(d, t)
        BY <2>2, <4>3, Zenon
      <4>5. t = s
        BY <2>0, <2>1, <4>2, <4>4 DEF ConfigInv, FromSpec
      <4> QED BY <4>1, <4>3, <4>4, <4>5, Zenon
    <3> QED BY <3>1, Zenon
  <2>8. d.wd > 0 => \E r \in here : r.command_watchdog_ms = d.wd
    <3>1. SUFFICES ASSUME d.wd > 0 PROVE \E r \in here : r.command_watchdog_ms = d.wd
      OBVIOUS
    <3>2. d.wd # 0
      BY <3>1
    <3>3. d.expected
      BY <2>2, <3>2, Zenon DEF Generated
    <3>4. PICK s \in specs : FromSpec(d, s)
      BY <2>2, <3>3, Zenon
    <3>5. PICK r \in Rows : Asks(r, s)
      BY <2>0, <2>1, Zenon DEF ConfigInv
    <3>6. r.address = d.addr /\ ValueOr(r.command_watchdog_ms, 0) = d.wd
      BY <3>4, <3>5, Zenon DEF FromSpec, Asks
    <3>7. r.command_watchdog_ms = d.wd
      BY <3>2, <3>6, Zenon DEF ValueOr
    <3> QED BY <3>6, <3>7
  <2>9. ASSUME d.loops, NEW r \in here, d.type = "Dcmt" PROVE r.encoders # FALSE
    <3>1. PICK s \in specs : Asks(r, s) /\ FromSpec(d, s)
      BY <2>7, <2>9, Zenon
    <3>2. s.type = "Dcmt" /\ s.encoders
      BY <2>9, <3>1, Zenon DEF FromSpec
    <3> QED BY <3>1, <3>2, Zenon DEF Asks
  <2> QED BY <2>2, <2>5, <2>6, <2>8, <2>9, Zenon
<1>2. Inv => ServedAsFound
  BY <1>1, Zenon DEF ServedAsFound
<1> QED BY Invariance, <1>2, PTL
=============================================================================
