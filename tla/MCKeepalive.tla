---------------------------- MODULE MCKeepalive ----------------------------
EXTENDS Keepalive

\* A board with a short timeout beside one with a longer one.
Timeouts == [d \in Devices |-> IF d = "a" THEN 20 ELSE 25]

ASSUME MarginHolds == Margin
============================================================================
