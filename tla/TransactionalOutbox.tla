------------------------- MODULE TransactionalOutbox -------------------------
(***************************************************************************)
(* What an outbox promises to the services that write rows into it and to  *)
(* the consumers of the topics: a row that is committed is delivered to    *)
(* its topic at least once, and it is acknowledged (published_at set) only *)
(* after it was delivered.  Nothing is said about how often it is          *)
(* delivered, by whom, or in which order.                                  *)
(***************************************************************************)
CONSTANT Events     \* the outbox rows that may ever be written

VARIABLES
    committed,      \* rows visible in outbox_events
    delivered,      \* rows with at least one message in their topic
    acked           \* rows whose published_at is set

vars == <<committed, delivered, acked>>

TypeOK ==
    /\ committed \in SUBSET Events
    /\ delivered \in SUBSET Events
    /\ acked \in SUBSET Events

Init == committed = {} /\ delivered = {} /\ acked = {}

Write(e) ==
    /\ e \notin committed
    /\ committed' = committed \union {e}
    /\ UNCHANGED <<delivered, acked>>

\* Any set of committed rows reaches the broker in one go (a batch, or the
\* part of a batch that survived a failed send).
Deliver ==
    /\ \E es \in SUBSET committed : delivered' = delivered \union es
    /\ UNCHANGED <<committed, acked>>

Acknowledge ==
    /\ \E es \in SUBSET delivered : acked' = acked \union es
    /\ UNCHANGED <<committed, delivered>>

Next == (\E e \in Events : Write(e)) \/ Deliver \/ Acknowledge

SafeSpec == Init /\ [][Next]_vars

\* Every committed row is eventually acknowledged.
EventuallyAcked == \A e \in Events : (e \in committed) ~> (e \in acked)

Spec == SafeSpec /\ EventuallyAcked
=============================================================================
