--------------------------- MODULE MCSignalFetchers ---------------------------
(* Finite instances of SignalFetchers for TLC. *)
EXTENDS SignalFetchers

CONSTANTS r1, r2

\* One breaker with one fetch, one with two, and the fetch without one.
DeviceVelocityGraph == {"device", "velocity", "deviceVelocity", "graph"}
WithAndWithoutDevice == {{"entityId"}, {"entityId", "deviceId"}}
=============================================================================
