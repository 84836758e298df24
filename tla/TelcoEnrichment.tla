---------------------------- MODULE TelcoEnrichment ----------------------------
(***************************************************************************)
(* telco-intel: the consumer of payguru.enrichment.events looks a number up *)
(* and publishes a telco signal, or else a dead letter.  A send that fails  *)
(* may have reached the broker.  A handler that throws has its message      *)
(* delivered again by KafkaJS, so the partition stays where it is.          *)
(***************************************************************************)
EXTENDS Lookups, Naturals, FiniteSets

CONSTANTS
    Enrichments,    \* the partition: [kind, msisdn, lineType], kind one of Kinds
    MaxSendFaults,  \* bound on sends that fail
    MaxTelcoCrashes \* bound on crashes

\* empty: no value; broken: not JSON; null: JSON without an object;
\* partial: without msisdn, merchantId or requestId.
Kinds == {"empty", "broken", "null", "partial", "complete"}

ASSUME EnrichmentsAssumption ==
    /\ Enrichments \in Seq(Range(Enrichments))
    /\ \A e \in Range(Enrichments) :
          /\ e.kind \in Kinds /\ e.msisdn \in Seq(Range(e.msisdn))
          /\ e.lineType \in {"none", "prepaid", "postpaid"}
ASSUME TelcoBoundsAssumption == MaxSendFaults \in Nat /\ MaxTelcoCrashes \in Nat

VARIABLES
    at,             \* position of the message the handler is at
    committedAt,    \* position a restart begins at
    sending,        \* "idle", or the send under way: "signal" or "dead"
    signalled,      \* [positions -> telco.signals with the answer to that message]
    letters,        \* [positions -> dead letters of that message]
    unsent,         \* positions whose dead letter was given up
    sendFaults, telcoCrashes

telcoVars == <<at, committedAt, sending, signalled, letters, unsent, sendFaults, telcoCrashes>>

Positions == 1 .. Len(Enrichments)

TelcoInit ==
    /\ at = 1 /\ committedAt = 1 /\ sending = "idle"
    /\ signalled = [i \in Positions |-> 0] /\ letters = [i \in Positions |-> 0]
    /\ unsent = {} /\ sendFaults = 0 /\ telcoCrashes = 0

Enrichment == Enrichments[at]

\* What the signal says.
TelcoSignalOf(e) ==
    [lineType |-> LineType(e.lineType, PrefixProbability(e.msisdn)),
     prepaid  |-> PrepaidProbability(PrefixProbability(e.msisdn))]

\* handleMessage up to its first send; an event that is not an object throws
\* at its first field, before any try.
LosePartial(kind) == CASE kind = "complete" -> "signal" [] kind = "broken" -> "dead" [] OTHER -> "idle"
FirstSend(kind) ==
    CASE kind = "complete" -> "signal" [] kind \in {"broken", "partial"} -> "dead" [] OTHER -> "idle"

Handling ==
    /\ at \in Positions /\ sending = "idle" /\ Enrichment.kind # "null"
    /\ sending' = FirstSend(Enrichment.kind)
    /\ at' = IF FirstSend(Enrichment.kind) = "idle" THEN at + 1 ELSE at
    /\ UNCHANGED <<committedAt, signalled, letters, unsent, sendFaults, telcoCrashes>>

Over == at' = at + 1 /\ sending' = "idle"

PublishSignal ==
    /\ sending = "signal" /\ Over
    /\ signalled' = [signalled EXCEPT ![at] = @ + 1]
    /\ UNCHANGED <<committedAt, letters, unsent, sendFaults, telcoCrashes>>

\* The catch of handleMessage: a signal that may have been sent becomes a
\* dead letter as well.
PublishFails ==
    /\ sending = "signal" /\ sendFaults < MaxSendFaults
    /\ sendFaults' = sendFaults + 1 /\ sending' = "dead"
    /\ \E reached \in {0, 1} : signalled' = [signalled EXCEPT ![at] = @ + reached]
    /\ UNCHANGED <<at, committedAt, letters, unsent, telcoCrashes>>

SendToDlq ==
    /\ sending = "dead" /\ Over
    /\ letters' = [letters EXCEPT ![at] = @ + 1]
    /\ UNCHANGED <<committedAt, signalled, unsent, sendFaults, telcoCrashes>>

\* sendToDlq swallows its own error.
SendToDlqFails ==
    /\ sending = "dead" /\ Over /\ sendFaults < MaxSendFaults
    /\ sendFaults' = sendFaults + 1 /\ unsent' = unsent \union {at}
    /\ \E reached \in {0, 1} : letters' = [letters EXCEPT ![at] = @ + reached]
    /\ UNCHANGED <<committedAt, signalled, telcoCrashes>>

CommitPosition ==
    /\ committedAt < at /\ committedAt' = at
    /\ UNCHANGED <<at, sending, signalled, letters, unsent, sendFaults, telcoCrashes>>

TelcoCrash ==
    /\ telcoCrashes < MaxTelcoCrashes /\ telcoCrashes' = telcoCrashes + 1
    /\ at' = committedAt /\ sending' = "idle"
    /\ UNCHANGED <<committedAt, signalled, letters, unsent, sendFaults>>

Proceed == Handling \/ PublishSignal \/ SendToDlq
TelcoNext == Proceed \/ PublishFails \/ SendToDlqFails \/ CommitPosition \/ TelcoCrash

TelcoSpec == TelcoInit /\ [][TelcoNext]_telcoVars /\ WF_telcoVars(Proceed)
-----------------------------------------------------------------------------
(* Properties *)

\* What has been normalized stays as it is.
TelcoTypeOK ==
    /\ at \in 1 .. Len(Enrichments) + 1 /\ committedAt \in 1 .. at
    /\ sending \in {"idle", "signal", "dead"} /\ unsent \subseteq Positions
    /\ \A i \in Positions : signalled[i] + letters[i] <= 1 + sendFaults + telcoCrashes
    /\ \A i \in Positions :
          TelcoSignalOf(Enrichments[i]).lineType \in {"prepaid", "postpaid", "unknown"}
    /\ \A i \in Positions : LET n == normalize(Enrichments[i].msisdn) IN normalize(n) = n

\* Every enrichment before the first JSON null is answered in the end: by a
\* signal, or by a dead letter unless the send of that letter failed too.  No
\* crash, no failed publication and no unreadable message stops the partition
\* or swallows an event.
EnrichmentsAreAnswered ==
    <>(\A i \in Positions \ unsent :
           (Enrichments[i].kind # "empty" /\ \A j \in 1 .. i : Enrichments[j].kind # "null") =>
               signalled[i] + letters[i] > 0)
=============================================================================
