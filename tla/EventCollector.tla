---------------------------- MODULE EventCollector ----------------------------
(***************************************************************************)
(* event-collector: POST /v1/events passes the backpressure guard, sends    *)
(* the valid events of its batch to events.raw and the invalid ones to      *)
(* events.dlq; DlqConsumerService takes the records of events.dlq and sends *)
(* their events to events.raw after a backoff.  Requests interleave with    *)
(* each other and with the consumer; a Kafka send that failed or timed out  *)
(* may still reach its topic later.  The dead-letter topic is one partition *)
(* (a key is the merchant, or "unknown") and every request is of one merchant. *)
(***************************************************************************)
EXTENDS Naturals, Sequences, FiniteSets, SequencesExt

CONSTANTS
    Requests,       \* HTTP requests; a client's retry is a request of its own
    Events,
    Valid,          \* [Requests -> the events that pass the schema]
    Invalid,        \* [Requests -> the events that do not]
    MaxConcurrent,  \* backpressure.maxConcurrent
    Burst,          \* backpressure.fairness.defaultBurst
    RetryLimits,    \* values dlq.maxRetries may have; the default is 3
    MaxFaults,      \* bound: sends that fail or time out
    MaxAborts,      \* bound: clients that disconnect
    MaxRebalances,  \* bound: rebalances of the consumer group
    MaxCrashes,     \* bound: crashes of the service
    MaxStops        \* bound: graceful stops of the service

ASSUME BatchesAssumption ==
    /\ IsFiniteSet(Requests)
    /\ Valid \in [Requests -> SUBSET Events] /\ Invalid \in [Requests -> SUBSET Events]
    /\ \A r \in Requests : Valid[r] \intersect Invalid[r] = {} /\ IsFiniteSet(Valid[r] \union Invalid[r])
ASSUME LimitsAssumption ==
    MaxConcurrent \in Nat \ {0} /\ Burst \in Nat \ {0} /\ RetryLimits \subseteq Nat \ {0}

VARIABLES
    rq,             \* [Requests -> where the handler is]
    gone,           \* requests whose client disconnected
    accepted,       \* requests answered with 202
    inFlight,       \* BackpressureService.inFlightRequests
    tokens,         \* the merchant's token bucket
    raw,            \* [Events -> copies in events.raw]
    dlq,            \* the events.dlq partition: event of each record
    exhausted,      \* events in events.dlq.exhausted
    pending,        \* failed sends that may still reach their topic
    running,        \* DlqConsumerService.running
    maxRetries,     \* DlqConsumerService.maxRetries
    at,             \* the consumer: "idle", "backoff" or "exhaust"
    next,           \* the record it is at
    committed,      \* the group's committed offset
    processed,      \* processedEvents of this process, by record
    faults, aborts, rebalances, crashes, stops

requestVars == <<rq, gone, accepted, inFlight, tokens>>
topicVars   == <<raw, dlq, exhausted, pending>>
dlqVars     == <<running, maxRetries, at, next, committed, processed>>
bounds      == <<aborts, rebalances, crashes, stops>>
vars == <<requestVars, topicVars, dlqVars, faults, bounds>>

InHand == {"admitted", "routing", "answered", "failed"}
Running(r) == rq[r] \in InHand
Goto(r, l) == rq' = [rq EXCEPT ![r] = l]
Fault == faults < MaxFaults /\ faults' = faults + 1
NoFault == faults' = faults

\* A send that failed: any part of it may be appended later.
MayLand(topic, events) ==
    \E some \in SUBSET events : pending' = pending \union {[to |-> topic, ev |-> e] : e \in some}

Init ==
    /\ rq = [r \in Requests |-> "new"]
    /\ gone = {} /\ accepted = {}
    /\ inFlight = 0 /\ tokens = Burst
    /\ raw = [e \in Events |-> 0] /\ dlq = <<>> /\ exhausted = {} /\ pending = {}
    /\ running = TRUE /\ maxRetries \in RetryLimits
    /\ at = "idle" /\ next = 1 /\ committed = 0 /\ processed = {}
    /\ faults = 0 /\ aborts = 0 /\ rebalances = 0 /\ crashes = 0 /\ stops = 0

-----------------------------------------------------------------------------
(* BackpressureGuard *)

Cost(r) == Cardinality(Valid[r] \union Invalid[r])

\* The merchant that pays is the first event's.  An event that fails the
\* schema may name none: in front, it makes the whole batch free.
Charges(r) == {Cost(r)} \union {free \in {0} : Invalid[r] # {}}
Released(n) == IF n = 0 THEN 0 ELSE n - 1

\* A rejected request has acquired a slot and gives it back.
KeptSlot == inFlight + 1
SlotsAfterRejection == Released(inFlight + 1)

\* canActivate runs to its end without an await; the rate adjuster rejects
\* after the tokens are taken.  The clock behind the window of recent requests
\* and the adjuster's multiplier are not modelled: either may reject at any
\* time.
Guard(r) ==
    /\ rq[r] = "new"
    /\ \/ Goto(r, "rejected") /\ UNCHANGED <<inFlight, tokens>>
       \/ /\ inFlight < MaxConcurrent
          /\ \E charge \in Charges(r) : tokens < charge
          /\ Goto(r, "rejected") /\ inFlight' = SlotsAfterRejection /\ UNCHANGED tokens
       \/ /\ inFlight < MaxConcurrent
          /\ \E charge \in Charges(r) : tokens >= charge /\ tokens' = tokens - charge
          /\ \/ Goto(r, "rejected") /\ inFlight' = SlotsAfterRejection
             \/ Goto(r, "admitted") /\ inFlight' = inFlight + 1
    /\ UNCHANGED <<gone, accepted, topicVars, dlqVars, faults, bounds>>

Refill ==
    /\ tokens < Burst
    /\ tokens' = tokens + 1
    /\ UNCHANGED <<rq, gone, accepted, inFlight, topicVars, dlqVars, faults, bounds>>

\* The response's 'finish' releases the slot; it never comes when the client
\* has disconnected.
Finish(r) ==
    /\ rq[r] \in {"answered", "failed"}
    /\ IF r \in gone
         THEN Goto(r, "aborted") /\ UNCHANGED inFlight
         ELSE Goto(r, "closed") /\ inFlight' = Released(inFlight)
    /\ UNCHANGED <<gone, accepted, tokens, topicVars, dlqVars, faults, bounds>>

ClientAborts(r) ==
    /\ Running(r) /\ r \notin gone
    /\ aborts < MaxAborts
    /\ aborts' = aborts + 1
    /\ gone' = gone \union {r}
    /\ UNCHANGED <<rq, accepted, inFlight, tokens, topicVars, dlqVars, faults,
                   rebalances, crashes, stops>>

-----------------------------------------------------------------------------
(* EventsController and EventsService.ingest *)

\* No valid API key, or an empty batch.
Refuse(r) ==
    /\ rq[r] = "admitted"
    /\ Goto(r, "failed")
    /\ UNCHANGED <<gone, accepted, inFlight, tokens, topicVars, dlqVars, faults, bounds>>

\* A failed send ends the request with a 500.
AfterLoggedSend == "routing"
AfterFailedSend == "failed"

SendValid(r) ==
    /\ rq[r] = "admitted"
    /\ Cost(r) > 0
    /\ \/ /\ raw' = [e \in Events |-> raw[e] + (IF e \in Valid[r] THEN 1 ELSE 0)]
          /\ Goto(r, "routing")
          /\ NoFault /\ UNCHANGED pending
       \/ /\ Valid[r] # {}
          /\ Fault /\ MayLand("raw", Valid[r])
          /\ Goto(r, AfterFailedSend)
          /\ UNCHANGED raw
    /\ UNCHANGED <<gone, accepted, inFlight, tokens, dlq, exhausted, dlqVars, bounds>>

\* sendBatchToDlq, raced with 5 s; the answer is 202 in either case.
RouteInvalid(r) ==
    /\ rq[r] = "routing"
    /\ \/ dlq' = dlq \o SetToSeq(Invalid[r]) /\ NoFault /\ UNCHANGED pending
       \/ Invalid[r] # {} /\ Fault /\ MayLand("dlq", Invalid[r]) /\ UNCHANGED dlq
    /\ Goto(r, "answered")
    /\ accepted' = accepted \union {r}
    /\ UNCHANGED <<gone, inFlight, tokens, raw, exhausted, dlqVars, bounds>>

\* A send whose caller gave up is appended after all.
Land(p) ==
    /\ pending' = pending \ {p}
    /\ \/ p.to = "raw" /\ raw' = [raw EXCEPT ![p.ev] = @ + 1] /\ UNCHANGED <<dlq, exhausted>>
       \/ p.to = "dlq" /\ dlq' = Append(dlq, p.ev) /\ UNCHANGED <<raw, exhausted>>
       \/ p.to = "exhausted" /\ exhausted' = exhausted \union {p.ev} /\ UNCHANGED <<raw, dlq>>
    /\ UNCHANGED <<requestVars, dlqVars, faults, bounds>>

-----------------------------------------------------------------------------
(* DlqConsumerService: one record at a time.  ingest, the only producer of   *)
(* the topic, sets retryCount = 0, and a record has an id of its own.        *)

retryCount == 0
Handled == next' = next + 1 /\ at' = "idle"
MarkProcessed == processed' = processed \union {next}

Republish == raw' = [raw EXCEPT ![dlq[next]] = @ + 1]

NeverProcessed == FALSE
AlreadyProcessed == next \in processed

\* processRecord up to the backoff.
TakeRecord ==
    /\ at = "idle" /\ running
    /\ next <= Len(dlq)
    /\ IF AlreadyProcessed
         THEN Handled
         ELSE /\ at' = IF retryCount >= maxRetries THEN "exhaust" ELSE "backoff"
              /\ UNCHANGED next
    /\ UNCHANGED <<requestVars, topicVars, running, maxRetries, committed, processed, faults, bounds>>

\* reprocessEvent after the backoff; a stop during the backoff skips the
\* record.  A failed send is retried no more: the record is exhausted when
\* this was the last attempt, and only marked otherwise.
Reprocess ==
    /\ at = "backoff"
    /\ \/ /\ ~running
          /\ Handled /\ NoFault
          /\ UNCHANGED <<raw, pending, processed>>
       \/ /\ running
          /\ Republish
          /\ Handled /\ MarkProcessed /\ NoFault
          /\ UNCHANGED pending
       \/ /\ running
          /\ Fault /\ MayLand("raw", {dlq[next]})
          /\ IF retryCount + 1 >= maxRetries
               THEN at' = "exhaust" /\ UNCHANGED <<next, processed>>
               ELSE Handled /\ MarkProcessed
          /\ UNCHANGED raw
    /\ UNCHANGED <<requestVars, dlq, exhausted, running, maxRetries, committed, bounds>>

\* exhaustRetries; its error ends in the catch of eachMessage.
Exhaust ==
    /\ at = "exhaust"
    /\ Handled
    /\ \/ /\ exhausted' = exhausted \union {dlq[next]}
          /\ MarkProcessed /\ NoFault /\ UNCHANGED pending
       \/ Fault /\ MayLand("exhausted", {dlq[next]}) /\ UNCHANGED <<exhausted, processed>>
    /\ UNCHANGED <<requestVars, raw, dlq, running, maxRetries, committed, bounds>>

CommitOffset ==
    /\ committed < next - 1
    /\ committed' = next - 1
    /\ UNCHANGED <<requestVars, topicVars, running, maxRetries, at, next, processed, faults, bounds>>

\* The partition comes back to the same process at the committed offset.
Rebalance ==
    /\ at = "idle" /\ running
    /\ rebalances < MaxRebalances
    /\ rebalances' = rebalances + 1
    /\ next' = committed + 1
    /\ UNCHANGED <<requestVars, topicVars, running, maxRetries, at, committed, processed,
                   faults, aborts, crashes, stops>>

\* onModuleDestroy: the record in hand is still handled.
Stop ==
    /\ running /\ stops < MaxStops
    /\ stops' = stops + 1
    /\ running' = FALSE
    /\ UNCHANGED <<requestVars, topicVars, maxRetries, at, next, committed, processed, faults,
                   aborts, rebalances, crashes>>

\* A new process after a crash, or after a stop has ended; what the old one
\* had in memory is gone.
Restart ==
    /\ \/ crashes < MaxCrashes /\ crashes' = crashes + 1
       \/ ~running /\ at = "idle" /\ (\A r \in Requests : ~Running(r)) /\ UNCHANGED crashes
    /\ rq' = [r \in Requests |-> IF Running(r) \/ rq[r] = "aborted" THEN "lost" ELSE rq[r]]
    /\ inFlight' = 0 /\ tokens' = Burst
    /\ running' = TRUE /\ at' = "idle" /\ next' = committed + 1 /\ processed' = {}
    /\ UNCHANGED <<gone, accepted, topicVars, maxRetries, committed, faults, aborts, rebalances, stops>>

-----------------------------------------------------------------------------
RequestStep(r) == Guard(r) \/ Refuse(r) \/ SendValid(r) \/ RouteInvalid(r) \/ Finish(r)
ConsumerStep == TakeRecord \/ Reprocess \/ Exhaust

Next ==
    \/ \E r \in Requests : RequestStep(r) \/ ClientAborts(r)
    \/ Refill \/ \E p \in pending : Land(p)
    \/ ConsumerStep \/ CommitOffset \/ Rebalance \/ Stop \/ Restart

Spec == Init /\ [][Next]_vars

\* Every send is raced with a timeout, backoffs end, and KafkaJS polls and
\* commits; clients, the broker's late appends and restarts are not fair.
FairSpec ==
    /\ Spec
    /\ \A r \in Requests : WF_vars(RequestStep(r))
    /\ WF_vars(ConsumerStep) /\ WF_vars(CommitOffset)
-----------------------------------------------------------------------------
(* Properties *)

Lives == 1 + crashes + stops

TypeOK ==
    /\ rq \in [Requests -> InHand \union {"new", "rejected", "closed", "aborted", "lost"}]
    /\ gone \subseteq Requests /\ accepted \subseteq Requests
    /\ inFlight \in 0 .. MaxConcurrent /\ tokens \in 0 .. Burst
    /\ raw \in [Events -> Nat] /\ dlq \in Seq(Events) /\ exhausted \subseteq Events
    /\ pending \subseteq [to : {"raw", "dlq", "exhausted"}, ev : Events]
    /\ running \in BOOLEAN /\ maxRetries \in RetryLimits
    /\ at \in {"idle", "backoff", "exhaust"}
    /\ next \in 1 .. Len(dlq) + 1 /\ committed \in 0 .. Len(dlq) /\ committed < next
    /\ processed \subseteq 1 .. Len(dlq)
    /\ faults \in Nat /\ aborts \in Nat /\ rebalances \in Nat /\ crashes \in Nat /\ stops \in Nat

\* Whatever the guard decides and however requests end, the slots in use are
\* those of the requests in hand and of the clients that disconnected since
\* the start: a rejection keeps none, no slot is returned twice.
SlotsMatchRequests == inFlight = Cardinality({r \in Requests : Running(r) \/ rq[r] = "aborted"})

\* A 202 means that the valid events of the batch are in events.raw.
AcceptedIsInRaw == \A r \in accepted : \A e \in Valid[r] : raw[e] > 0

Records(e) == {i \in DOMAIN dlq : dlq[i] = e}

\* An event is in events.raw at most once for each request that carried it
\* and once for each of its records in each life of the consumer, a
\* rebalance adding none; a failed send may add one.
CopiesInRaw ==
    \A e \in Events :
        raw[e] <= Cardinality({r \in Requests : e \in Valid[r]})
                  + Cardinality(Records(e)) * Lives + faults

-----------------------------------------------------------------------------
(* Statements of the documentation that the code does not meet *)

\* dlq-consumer.service.ts:4-6: "retries failed events with exponential
\* backoff.  After max retries (3), logs to permanent dead letter storage":
\* while the service runs, a record ends in one of the two topics.
RecordsAreRetriedOrExhausted ==
    \A e \in Events :
        (Records(e) # {}) ~> (raw[e] > 0 \/ e \in exhausted \/ stops + crashes > 0)
=============================================================================
