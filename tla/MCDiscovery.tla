---------------------------- MODULE MCDiscovery ----------------------------
EXTENDS Discovery

\* A board of each kind the gate tells apart.
AllBoards ==
    {[type |-> "Rlht", version |-> "ok", loops |-> FALSE]}
    \cup {[type |-> "Dcmt", version |-> "ok", loops |-> l] : l \in BOOLEAN}
    \cup {[type |-> "Rlht", version |-> v, loops |-> FALSE] :
              v \in {"short", "crumbs", "major"}}
    \cup {[type |-> "Other", version |-> "ok", loops |-> FALSE]}

\* One good board of each type, with the closed loops where there are any.
GoodBoards == {[type |-> "Rlht", version |-> "ok", loops |-> FALSE],
               [type |-> "Dcmt", version |-> "ok", loops |-> TRUE]}

Row(id, a, type, wd, enc) ==
    [id |-> id, address |-> a, type |-> type, command_watchdog_ms |-> wd,
     encoders |-> enc]
heater == <<"heater", 0>>
motor  == <<"motor", 0>>

\* Rows for the first address: with and without what may be left out, the
\* encoders Workbench wrote on an RLHT, a watchdog at its limit, and a type
\* the schema does not know.
FirstRows ==
    {Row(heater, 8, "rlht", 65535, e) : e \in {Absent, TRUE}}
    \cup {Row(motor, 8, "dcmt", Absent, Absent), Row(motor, 8, "dcmt", 65535, FALSE)}
    \cup {Row(motor, 8, "stepper", Absent, Absent)}

\* Rows for the second: among them one that repeats an id or an address of the
\* first, one past the limit of the watchdog and one outside the address range.
SecondRows ==
    {Row(heater, 9, "rlht", Absent, Absent), Row(motor, 9, "dcmt", 65535, FALSE),
     Row(motor, 8, "dcmt", Absent, Absent), Row(motor, 9, "dcmt", 65536, FALSE),
     Row(motor, 7, "dcmt", Absent, Absent)}

Devices == {<<>>} \cup {<<r>> : r \in FirstRows \cup SecondRows}
           \cup {<<r, s>> : r \in FirstRows, s \in SecondRows}

File(bus, m, list, rows) ==
    [bus_path |-> bus, mode |-> m, addresses |-> list, devices |-> rows]

\* Each way of discovery with each set of rows, and the lists that do not fit.
AllFiles ==
    {File("hardware", "scan", Absent, rows) : rows \in Devices}
    \cup {File("hardware", "manual", list, rows) :
              list \in {<<8>>, <<9, 8>>}, rows \in Devices}
    \cup {File("mock", "scan", Absent, rows) : rows \in Devices}
    \cup {File("hardware", "scan", <<8>>, <<>>)}
    \cup {File("hardware", "manual", list, <<>>) :
              list \in {Absent, <<>>, <<8, 8>>, <<120>>}}

\* The configuration of config/example.local.yaml: an RLHT named rlht0.
ShippedId ==
    {File("hardware", "scan", Absent, <<Row(<<"Rlht", 0>>, 9, "rlht", Absent, Absent)>>)}
============================================================================
