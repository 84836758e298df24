------------------------------ MODULE MCWebhooks ------------------------------
(* Finite instances of Webhooks for TLC. *)
EXTENDS Webhooks

CONSTANTS u1, a1

Message(action, isTest) == [action |-> action, isTest |-> isTest]
BlockReview == <<Message("BLOCK", FALSE), Message("REVIEW", FALSE)>>
=============================================================================
