-------------------------- MODULE MCDecisionPipeline --------------------------
(* Finite instances of DecisionPipeline for TLC. *)
EXTENDS DecisionPipeline, TLC

CONSTANTS h1, h2, k1, k2, r1, r2, e1, e2

LabelOf(e, r) == [ent |-> e, resolution |-> r]

\* An HTTP call, its retry, and an event about the same entity.
RetryAndEvent == (h1 :> r1) @@ (h2 :> r1) @@ (k1 :> r2)
\* Two deliveries of one event and an HTTP call about the same entity.
RedeliveryAndCall == (h1 :> r1) @@ (k1 :> r2) @@ (k2 :> r2)
\* Fewer calls, for the statements that one or two calls contradict.
SameRequest == (h1 :> r1) @@ (h2 :> r1)
EventThenCall == (k1 :> r1) @@ (h1 :> r2)

OneEntity == (r1 :> e1) @@ (r2 :> e1)
TwoEntities == (r1 :> e1) @@ (r2 :> e2)

NoTest == (r1 :> FALSE) @@ (r2 :> FALSE)
FirstIsTest == (r1 :> TRUE) @@ (r2 :> FALSE)

\* A bound: a fault or an expired key, not both.
OneDisturbance == faults + expiries <= 1

NoLabels == <<>>
FraudLabels == <<LabelOf(e1, "FRAUD")>>
LabelsOfTheEvent == <<LabelOf(e2, "FRAUD"), LabelOf(e2, "LEGITIMATE"), LabelOf(e2, "INCONCLUSIVE")>>
=============================================================================
