--------------------------- MODULE MCEventCollector ---------------------------
(* Finite instances of EventCollector for TLC. *)
EXTENDS EventCollector, TLC

CONSTANTS r1, r2, v, w

\* A batch with a valid and an invalid event, and the client's second request
\* with the invalid event corrected.
CorrectedValid == (r1 :> {v}) @@ (r2 :> {v, w})
CorrectedInvalid == (r1 :> {w}) @@ (r2 :> {})
\* The same batch twice.
RetriedValid == [r \in Requests |-> {v}]
RetriedInvalid == [r \in Requests |-> {w}]
=============================================================================
