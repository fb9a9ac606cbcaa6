-------------------------- MODULE MCProviderRuntime --------------------------
(* ProviderRuntime for TLC. *)
EXTENDS ProviderRuntime

\* Refusals come with GET_ACK.  A device with the latch may be configured without
\* its watchdog.
MCConfigs == {c \in DeviceConfig : c.refuses => c.acks}

Latching == {c \in MCConfigs : c.wd /\ c.latch}
Legacy   == {c \in MCConfigs : c.wd /\ ~c.latch /\ c.acks}
=============================================================================
