-------------------------- MODULE MCDeviceAdapter --------------------------
EXTENDS DeviceAdapter

\* Both sides of every bound of the two devices' functions, and setpoints that
\* round up, down and from the half.
Bounds == {-327681, -327680, -32769, -32768, -256, -255, -15, -1, 0, 1, 2, 3, 5,
           14, 99, 100, 101, 255, 256, 10000, 10001, 32767, 32768, 65535, 65536,
           327670, 327671}

MCValues == {<<v, 0>> : v \in Bounds} \cup {<<v, v>> : v \in Bounds}
            \cup {<<0, 1>>, <<1, -32768>>, <<0, 256>>}

\* Firmware with and without the optional capabilities.
MCRlhtProfiles == {{"mode", "setpoint", "pid", "period", "duty"},
                   {"mode", "setpoint", "pid", "period", "tc", "duty", "watchdog", "clear",
                    "estop_count", "refuses"},
                   {"mode", "setpoint", "period", "tc", "duty"}}

MCDcmtProfiles == {{"open", "brake"},
                   {"open", "brake", "position", "pid", "watchdog"},
                   {"open", "brake", "speed"},
                   {"open", "brake", "position", "speed", "pid", "watchdog", "clear",
                    "refuses"}}

\* Nothing (the default set), one signal, all of them.
MCRequests == {{}, {"t1_c", "estop_count"}, {"motor1_value", "motor2_target"},
               RlhtSignals \cup DcmtSignals}

\* For the sentinel: a DCMT that declares every mode.
FullDcmt == {{"open", "brake", "position", "speed", "pid", "watchdog", "clear"}}

FewValues == {<<0, 0>>, <<-32768, 0>>, <<-32767, 32767>>}
============================================================================
