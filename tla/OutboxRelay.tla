----------------------------- MODULE OutboxRelay -----------------------------
(***************************************************************************)
(* apps/outbox-relay: a set of relay processes that poll outbox_events for *)
(* unpublished rows, send them to Kafka and then set published_at.         *)
(*                                                                         *)
(* The database, the broker and the services that write the rows are       *)
(* outside the process: a query or a send may fail, a send that fails may  *)
(* have reached the broker in part, and the process may crash between any  *)
(* two awaits.                                                             *)
(***************************************************************************)
EXTENDS Naturals, FiniteSets

CONSTANTS
    Events,         \* outbox row ids
    AggregateType,  \* [Events -> aggregate_type]
    EventType,      \* [Events -> event_type]
    Relays,         \* relay processes sharing the table
    BatchSize,      \* relay.batchSize
    MaxCreated,     \* bound: created_at values are 1 .. MaxCreated
    MaxErrors,      \* bound: failed sends and failed updates
    MaxCrashes,     \* bound: crashes of a relay process
    MaxStops        \* bound: graceful shutdowns

ASSUME BatchSizeAssumption == BatchSize \in Nat \ {0}
ASSUME BoundsAssumption == MaxCreated \in Nat /\ MaxErrors \in Nat /\ MaxCrashes \in Nat /\ MaxStops \in Nat
ASSUME EventsFiniteAssumption == IsFiniteSet(Events)

VARIABLES
    created,        \* created_at of a committed row, 0 while it is not visible
    publishedAt,    \* published_at, 0 standing for NULL
    topicLog,       \* [Topics -> SUBSET Events]: rows with a message in the topic
    sends,          \* [Relays -> [Events -> Nat]]: history, messages sent per row
    pc,             \* where a relay's poll loop is
    batch,          \* the rows of the poll in progress
    shuttingDown,   \* OutboxRelayService.shuttingDown
    lastPublishedAt,\* DedupService.lastPublishedAt, 0 standing for null
    now,            \* the clock NOW() and new Date() read
    errors, crashes, stops   \* used against MaxErrors, MaxCrashes and MaxStops

rowVars   == <<created, publishedAt>>
brokerVars == <<topicLog, sends>>
relayVars == <<pc, batch, shuttingDown, lastPublishedAt>>
vars == <<rowVars, brokerVars, relayVars, now, errors, crashes, stops>>

-----------------------------------------------------------------------------
(* topic-router.ts *)

DEFAULT_TOPIC == "events.unrouted"

TOPIC_MAP ==
    [DECISION |-> [created |-> "decisions", updated |-> "decisions"],
     DEVICE   |-> [created |-> "events.raw", updated |-> "events.raw"],
     RULE     |-> [created |-> "rules.changes", changed |-> "rules.changes",
                   deleted |-> "rules.changes"],
     EVENT    |-> [created |-> "events.raw"],
     MERCHANT |-> [created |-> "merchants", updated |-> "merchants"]]

Topics == {"decisions", "events.raw", "rules.changes", "merchants", DEFAULT_TOPIC}

resolveTopicForEvent(aggregateType, eventType) ==
    IF aggregateType \in DOMAIN TOPIC_MAP /\ eventType \in DOMAIN TOPIC_MAP[aggregateType]
      THEN TOPIC_MAP[aggregateType][eventType]
      ELSE DEFAULT_TOPIC

TopicOf(e) == resolveTopicForEvent(AggregateType[e], EventType[e])

-----------------------------------------------------------------------------
Delivered(e) == e \in topicLog[TopicOf(e)]
\* In place of published_at IS NULL: every row, or the rows above a watermark.
EveryRow == {e \in Events : created[e] # 0}
AboveWatermark ==
    {e \in Events : /\ created[e] # 0 /\ publishedAt[e] = 0
                    /\ \A x \in Events : publishedAt[x] # 0 => created[x] <= created[e]}
Unpublished == {e \in Events : created[e] # 0 /\ publishedAt[e] = 0}

\* ORDER BY created_at ASC LIMIT BatchSize
OldestRows(es) ==
    {b \in SUBSET es :
        /\ \/ Cardinality(b) = BatchSize
           \/ b = es /\ Cardinality(b) <= BatchSize
        /\ \A x \in b, y \in es \ b : created[x] <= created[y]}

\* The poll is running (OutboxRelayService.running) from the query on.
RunningUntilSent(r) == pc[r] = "sending"
Running(r) == pc[r] \in {"sending", "marking"}

Init ==
    /\ created = [e \in Events |-> 0]
    /\ publishedAt = [e \in Events |-> 0]
    /\ topicLog = [t \in Topics |-> {}]
    /\ sends = [r \in Relays |-> [e \in Events |-> 0]]
    /\ pc = [r \in Relays |-> "idle"]
    /\ batch = [r \in Relays |-> {}]
    /\ shuttingDown = [r \in Relays |-> FALSE]
    /\ lastPublishedAt = [r \in Relays |-> 0]
    /\ now = 1
    /\ errors = 0
    /\ crashes = 0
    /\ stops = 0

\* A service commits a row.  created_at is the start of its transaction, so
\* rows become visible in an order of their own.
Commit(e) ==
    /\ created[e] = 0
    /\ \E t \in 1 .. MaxCreated : created' = [created EXCEPT ![e] = t]
    /\ UNCHANGED <<publishedAt, brokerVars, relayVars, now, errors, crashes, stops>>

\* pollOnce up to the result of the SELECT.
Poll(r) ==
    /\ pc[r] = "idle"
    /\ ~shuttingDown[r]
    /\ Unpublished # {}
    /\ \E b \in OldestRows(Unpublished) : batch' = [batch EXCEPT ![r] = b]
    /\ pc' = [pc EXCEPT ![r] = "sending"]
    /\ UNCHANGED <<rowVars, brokerVars, shuttingDown, lastPublishedAt, now, errors, crashes, stops>>

\* The SELECT returns no row, or fails: pollOnce returns 0.
PollNothing(r) ==
    /\ pc[r] = "idle"
    /\ ~shuttingDown[r]
    /\ UNCHANGED vars

\* The messages of es reach their topics.
AppendLastOfTopic(r, es) ==
    /\ \E kept \in SUBSET es :
          /\ \A t \in {TopicOf(e) : e \in es} : Cardinality({e \in kept : TopicOf(e) = t}) = 1
          /\ topicLog' = [t \in Topics |-> topicLog[t] \union {e \in kept : TopicOf(e) = t}]
    /\ UNCHANGED sends
Append(r, es) ==
    /\ topicLog' = [t \in Topics |-> topicLog[t] \union {e \in es : TopicOf(e) = t}]
    /\ sends' = [sends EXCEPT ![r] = [e \in Events |-> IF e \in es THEN @[e] + 1 ELSE @[e]]]

\* kafkaProducer.sendBatch resolves.
Send(r) ==
    /\ pc[r] = "sending"
    /\ Append(r, batch[r])
    /\ pc' = [pc EXCEPT ![r] = "marking"]
    /\ UNCHANGED <<rowVars, batch, shuttingDown, lastPublishedAt, now, errors, crashes, stops>>

\* sendBatch rejects; any part of the batch may have been appended.
SendFails(r) ==
    /\ pc[r] = "sending"
    /\ errors < MaxErrors
    /\ errors' = errors + 1
    /\ \E es \in SUBSET batch[r] : Append(r, es)
    /\ pc' = [pc EXCEPT ![r] = "idle"]
    /\ batch' = [batch EXCEPT ![r] = {}]
    /\ UNCHANGED <<rowVars, shuttingDown, lastPublishedAt, now, crashes, stops>>

SetPublished(r) ==
    publishedAt' = [e \in Events |-> IF e \in batch[r] THEN now ELSE publishedAt[e]]

\* The UPDATE and updateWatermark.
Mark(r) ==
    /\ pc[r] = "marking"
    /\ SetPublished(r)
    /\ now' = now + 1
    /\ lastPublishedAt' = [lastPublishedAt EXCEPT ![r] = IF now > @ THEN now ELSE @]
    /\ pc' = [pc EXCEPT ![r] = "idle"]
    /\ batch' = [batch EXCEPT ![r] = {}]
    /\ UNCHANGED <<created, brokerVars, shuttingDown, errors, crashes, stops>>

\* The UPDATE is reported as failed; the database may have committed it.
MarkFails(r) ==
    /\ pc[r] = "marking"
    /\ errors < MaxErrors
    /\ errors' = errors + 1
    /\ \/ SetPublished(r) /\ now' = now + 1
       \/ UNCHANGED <<publishedAt, now>>
    /\ pc' = [pc EXCEPT ![r] = "idle"]
    /\ batch' = [batch EXCEPT ![r] = {}]
    /\ UNCHANGED <<created, brokerVars, shuttingDown, lastPublishedAt, crashes, stops>>

\* onModuleDestroy sets the flag and clears the timer ...
BeginShutdown(r) ==
    /\ pc[r] \notin {"stopped", "crashed"}
    /\ ~shuttingDown[r]
    /\ stops < MaxStops
    /\ stops' = stops + 1
    /\ shuttingDown' = [shuttingDown EXCEPT ![r] = TRUE]
    /\ UNCHANGED <<rowVars, brokerVars, pc, batch, lastPublishedAt, now, errors, crashes>>

\* ... and returns once the poll in progress is over.
FinishShutdown(r) ==
    /\ shuttingDown[r]
    /\ pc[r] # "stopped"
    /\ ~Running(r)
    /\ pc' = [pc EXCEPT ![r] = "stopped"]
    /\ UNCHANGED <<rowVars, brokerVars, batch, shuttingDown, lastPublishedAt, now, errors, crashes, stops>>

Crash(r) ==
    /\ pc[r] \notin {"stopped", "crashed"}
    /\ crashes < MaxCrashes
    /\ crashes' = crashes + 1
    /\ pc' = [pc EXCEPT ![r] = "crashed"]
    /\ batch' = [batch EXCEPT ![r] = {}]
    /\ shuttingDown' = [shuttingDown EXCEPT ![r] = FALSE]
    /\ UNCHANGED <<rowVars, brokerVars, lastPublishedAt, now, errors, stops>>

\* A new process: fresh memory, loadWatermark, startPolling.
Restart(r) ==
    /\ pc[r] \in {"stopped", "crashed"}
    /\ pc' = [pc EXCEPT ![r] = "idle"]
    /\ shuttingDown' = [shuttingDown EXCEPT ![r] = FALSE]
    /\ \E m \in {publishedAt[e] : e \in Events} \union {0} :
          /\ \A e \in Events : publishedAt[e] <= m
          /\ lastPublishedAt' = [lastPublishedAt EXCEPT ![r] = m]
    /\ UNCHANGED <<rowVars, brokerVars, batch, now, errors, crashes, stops>>

RelayStep(r) == Poll(r) \/ Send(r) \/ Mark(r) \/ FinishShutdown(r) \/ Restart(r)

Next ==
    \/ \E e \in Events : Commit(e)
    \/ \E r \in Relays :
          \/ Poll(r) \/ PollNothing(r) \/ Send(r) \/ SendFails(r) \/ Mark(r) \/ MarkFails(r)
          \/ BeginShutdown(r) \/ FinishShutdown(r) \/ Crash(r) \/ Restart(r)

Spec == Init /\ [][Next]_vars

\* The poll timer fires again after every poll, awaited calls settle, and the
\* orchestrator restarts a container that is gone.
FairSpec == Spec /\ \A r \in Relays : WF_vars(RelayStep(r))

-----------------------------------------------------------------------------
(* Properties *)

TypeOK ==
    /\ created \in [Events -> Nat]
    /\ publishedAt \in [Events -> Nat]
    /\ topicLog \in [Topics -> SUBSET Events]
    /\ sends \in [Relays -> [Events -> Nat]]
    /\ pc \in [Relays -> {"idle", "sending", "marking", "stopped", "crashed"}]
    /\ batch \in [Relays -> SUBSET Events]
    /\ shuttingDown \in [Relays -> BOOLEAN]
    /\ lastPublishedAt \in [Relays -> Nat]
    /\ now \in Nat \ {0}
    /\ errors \in Nat
    /\ crashes \in Nat
    /\ stops \in Nat

\* A row whose published_at is set has a message in the topic the router
\* resolves for it: no failed send, crash or second relay marks a row that
\* never reached the broker (relay/outbox-relay.service.ts:120-130).
PublishedWasDelivered ==
    \A e \in Events : publishedAt[e] # 0 => Delivered(e)

\* Without a fault a relay sends a row once: only another relay, or a retry
\* after a failed or interrupted poll, adds a copy.  So with no fault there
\* are at most as many copies of a row as there are relays.
CopiesPerRelay ==
    \A r \in Relays, e \in Events : sends[r][e] <= 1 + errors + crashes

\* A relay that shut down gracefully left nothing half done: unless a fault
\* occurred, every row it ever sent is marked, so the next start does not
\* send it again (onModuleDestroy waits for the running poll).
GracefulStopLeavesNothing ==
    \A r \in Relays :
        (pc[r] = "stopped" /\ errors + crashes = 0) =>
            \A e \in Events : sends[r][e] > 0 => publishedAt[e] # 0

\* At-least-once delivery: the relays implement the abstract outbox, with its
\* liveness, whatever the order rows become visible in.
Outbox == INSTANCE TransactionalOutbox WITH
    committed <- {e \in Events : created[e] # 0},
    delivered <- {e \in Events : Delivered(e)},
    acked     <- {e \in Events : publishedAt[e] # 0}

ImplementsOutbox == Outbox!SafeSpec
EveryRowIsPublished == Outbox!EventuallyAcked
=============================================================================
