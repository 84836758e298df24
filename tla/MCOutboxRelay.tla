---------------------------- MODULE MCOutboxRelay ----------------------------
(* Finite instances of OutboxRelay for TLC. *)
EXTENDS OutboxRelay, TLC

CONSTANTS e1, e2, e3

\* A routed row, a row of a known aggregate with an unknown event type, and a
\* second row of the first one's topic.
MCAggregate == (e1 :> "DECISION") @@ (e2 :> "EVENT") @@ (e3 :> "DECISION")
MCEventType == (e1 :> "created") @@ (e2 :> "deleted") @@ (e3 :> "updated")
=============================================================================
