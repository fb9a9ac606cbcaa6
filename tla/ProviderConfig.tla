--------------------------- MODULE ProviderConfig ---------------------------
(***************************************************************************)
(* load_config (src/src/config/provider_config.cpp) and the schema it      *)
(* validates against (src/src/config/config_schema.cpp), for the fields    *)
(* start-up depends on: the bus, the discovery mode with its address list, *)
(* and the device rows.  A file is a record of what the YAML says, with    *)
(* Absent for a key it does not have.  What a schema rule means is the     *)
(* provider SDK's and is modelled from the schema's use of it.             *)
(***************************************************************************)
EXTENDS Integers, Sequences, Functions

CONSTANTS Absent,  \* a key the file does not have
          Names    \* first parts of configured ids

\* One entry of devices:, as written.
RowType == [id : Names \X Nat, address : Nat, type : STRING,
            command_watchdog_ms : Nat \cup {Absent},
            encoders : BOOLEAN \cup {Absent}]

FileType == [bus_path : {"mock", "hardware"}, mode : STRING,
             addresses : Seq(Nat) \cup {Absent}, devices : Seq(RowType)]

\* Mutant: encoders is dropped from every row.
drop_rlht_encoders_Every(f) ==
    [f EXCEPT !.devices = [i \in DOMAIN @ |-> [@[i] EXCEPT !.encoders = Absent]]]

\* Mutant: the file is validated as it was written.
drop_rlht_encoders_Not(f) == f

\* Workbench wrote encoders on every row; an RLHT's is dropped (#184).
drop_rlht_encoders(f) ==
    [f EXCEPT !.devices =
        [i \in DOMAIN @ |-> IF @[i].type = "rlht" THEN [@[i] EXCEPT !.encoders = Absent]
                            ELSE @[i]]]

\* parse_device_type, and the type field's enum_values.
parse_device_type == [rlht |-> "Rlht", dcmt |-> "Dcmt"]

\* i2c_address_field: a 7-bit address that is not reserved.
I2cAddress == 8..119

\* unique() on id and on address.
UniqueRows(rows) ==
    /\ IsInjective([i \in DOMAIN rows |-> rows[i].id])
    /\ IsInjective([i \in DOMAIN rows |-> rows[i].address])

\* Mutant: the limit of the watchdog's wire field is off by one.
max_watchdog_OneMore == 65536

max_watchdog == 65535

\* The device object of the schema.
ValidRow(r) ==
    /\ r.type \in DOMAIN parse_device_type
    /\ r.address \in I2cAddress
    /\ r.command_watchdog_ms # Absent => r.command_watchdog_ms \in 0..max_watchdog
    /\ r.type = "rlht" => r.encoders = Absent

\* The discovery object: manual needs a list and scan must not carry one.
ValidDiscovery(f) ==
    /\ f.mode \in {"scan", "manual"}
    /\ (f.mode = "manual") = (f.addresses # Absent)
    /\ f.addresses # Absent =>
          /\ Len(f.addresses) >= 1 /\ IsInjective(f.addresses)
          /\ \A i \in DOMAIN f.addresses : f.addresses[i] \in I2cAddress

\* sdkcfg::validate against provider_schema() finds no error.
validate(f) ==
    /\ ValidDiscovery(f)
    /\ \A i \in DOMAIN f.devices : ValidRow(f.devices[i])
    /\ UniqueRows(f.devices)

ValueOr(v, default) == IF v = Absent THEN default ELSE v

\* The DeviceSpec made of a row, with the defaults of the struct.
DeviceSpec(r) ==
    [id |-> r.id, address |-> r.address, type |-> parse_device_type[r.type],
     command_watchdog_ms |-> ValueOr(r.command_watchdog_ms, 0),
     encoders |-> ValueOr(r.encoders, TRUE)]

\* What load_config returns for a valid file; is_mock_mode looks at bus_path.
ProviderConfigOf(f) ==
    [mock |-> f.bus_path = "mock",
     mode |-> f.mode,
     addresses |-> IF f.addresses = Absent THEN {} ELSE Range(f.addresses),
     devices |-> {DeviceSpec(f.devices[i]) : i \in DOMAIN f.devices}]
=============================================================================
