----------------------------- MODULE MCMonitor -----------------------------
\* A Wi-Fi device with an access point and a wired device, one or the other of
\* which is there at the start.
EXTENDS Monitor, TLC

CONSTANTS d1, d2, p1

OneEach == p1 :> d1
SomeStart == {{d2}, {d1, p1}}

=============================================================================
