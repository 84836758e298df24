# Verification of SignalRisk

SignalRisk is a fraud-decision platform: NestJS services that exchange messages
over Kafka and share state in Redis and Postgres.  This directory holds TLA+
models of its logic, the TLC configurations that check them on small
instances, and TLAPS proofs of what holds for every instance.

    tlc -config Webhooks.cfg MCWebhooks.tla     # one run, see "Runs"
    tlapm OutboxRelayProofs.tla                 # the proofs of one module

Contents: [The system](#the-system) · [Modules](#modules) ·
[From code to model](#from-code-to-model) · [Runs](#runs) ·
[Fairness](#fairness) · [Proofs](#proofs) ·
[Known divergences](#known-divergences) · [Not modelled](#not-modelled) ·
[Plan](#plan)

## The system

```
 SDKs ────POST /v1/events──▶ event-collector ──events.raw──▶ decision-service ──decisions──▶ case-service ◀── dashboard
                                   │ ▲                        │  ▲   │  ▲                      │      │
                              events.dlq                signals  │   │  └─────state.labels──────┘      │
                                                    (HTTP fetch) │   └──▶ Redis, Postgres      SLA alert (HTTP)
 client ──POST /v1/decisions─────────────────────────────────────┘                                     ▼
                                                                     decisions ──────────────▶ webhook-service ──▶ merchant
 services ──outbox_events──▶ outbox-relay ──▶ decisions, events.raw, rules.changes, merchants
```

Every consumer is at-least-once: KafkaJS commits an offset after the handler
returned, whatever work the handler left running, and redelivers from the
committed offset after a crash or a rebalance.  Nearly every handler swallows
its errors so that a partition never stops.  The hard behaviours follow from
that: work lost or repeated between a side effect and an offset commit,
check-then-act on shared keys, promises nobody awaits, timeouts that give up on
calls which still take effect, caches that answer with what no longer holds.

| Component | State | Operations | Hard behaviour | Correct when |
|---|---|---|---|---|
| outbox-relay | `outbox_events.published_at`, `running`, `shuttingDown` | poll, send, mark, stop, start | two relays on one table, partial sends, a crash between send and UPDATE | a row is marked only after it was delivered; every row is; copies are bounded |
| decision-service: pipeline | Redis `idempotency:*`, `decision:cache:*`; tables `decisions`, `entity_profiles`, `watchlist_entries` | HTTP decide, event decide, labels | concurrent calls of one request or entity, redelivery, un-awaited save and publish | a verdict belongs to its request and entity, is final once saved, obeys the denylist, reaches table and topic |
| decision-service: fetchers | a circuit breaker per signal | fetchAllSignals | shared breakers, late results | load on a dead service bounded; no signal silenced for ever |
| decision-service: signal path, gateway | timing buffer, broadcast throttle | map answers, score, broadcast | signals missing in any combination | a missing signal does not change the mean |
| event-collector: ingestion | slots, `events.raw`, `events.dlq`, `processedEvents` | guard, ingest, dead-letter consumer | sends that land after their timeout, disconnects, rebalances | slots match requests; 202 means in the topic |
| event-collector: backpressure | lag, multiplier, window, buckets | poll, evaluate, admit | late polls, forgotten buckets | the rate recovers; shares are bounded |
| case-service | table `cases`, topic `state.labels` | consume, PATCH, bulk, SLA check | repeated messages, un-awaited labels, overlapping checks | risky decisions become cases; the labels catch up with the rows; overdue cases are alerted |
| webhook-service | Redis configuration, `webhook:dlq` | consume, deliver, SLA alert | retries racing answers, crash during delivery | delivered or dead-lettered, in order, boundedly often |
| velocity-service | Redis sorted sets and HyperLogLogs, markers | count, read | marker before counting, errors per command, pruning and TTLs | an event counts once, as long as its window |
| device-intel-service | table `devices`, two caches | identify, consume, purge | read-modify-write through caches | a known device stays known |
| behavioral, network services | baseline; tables | score a session or address | none (single steps) | scores stay in their scale |
| telco-intel-service | offsets | enrich, look up | lost sends, unreadable messages | every enrichment is answered |
| graph-intel-service | Neo4j | analyze, rings | MERGE without a constraint | earlier sharers are counted |
| rule-engine-service | registry, `rule:weight:*`, audit, active set | evaluate, admin, chargebacks, hot reload | recursive parser, GET/SET of weights, overlapping loads | text and rule agree; audit explains weights; rules follow the flag |
| feature-flag-service | flags in memory | CRUD, isEnabled | restart | (read by hot reload) |
| auth-service | refresh tokens, keys, merchants, limits | login, refresh, logout, rotate, purge | concurrent handlers, expiries in seconds | credentials end when they should |
| web-sdk, mobile-sdk | buffer, device id | track, flush, retry | overlapping flushes | no event lost or twice under way |
| dashboard | stores and views | actions, requests, sockets | answers in any order | what is shown is what was asked for |
| fraud-tester | battles | run, submit, poll, stop | a stop racing an event | stopped is over |

`PROJECT.json` lists every component with its sources, and under `hazards` the
places in this code that are hard to test, each with the properties that watch
it.

## Modules

| Module | Models |
|---|---|
| `TransactionalOutbox`, `OutboxRelay` | what an outbox promises; outbox-relay, refining it |
| `Scoring`, `DecisionPipeline` | score arithmetic; decide(), its two callers, Redis, tables, labels |
| `SignalFetchers` | fetchAllSignals and the circuit breakers |
| `SignalPath` | mapping of the services' answers, scores, factors, verdict, broadcast, timings |
| `EventCollector`, `Backpressure` | guard, ingest, dead letters; lag polling, rate adjuster, window, buckets |
| `CaseWorkflow` | decision consumer, analysts, labels, SLA checks |
| `Webhooks` | decision consumer, delivery, SLA endpoint |
| `VelocityEngine` | event consumer, counters, reads, burst |
| `DeviceIntel` | identify(), consumer, caches, retention |
| `RiskScores`, `Lookups` | the signal services' scorers; address and number tables, as operators |
| `BehavioralBaseline`, `TelcoEnrichment`, `GraphIntel` | the state those three services keep |
| `RuleLanguage`, `RuleRegistry` | tokens, parser, evaluator; registry, startup, admin API |
| `RuleWeights`, `FeatureFlags`, `RuleReload` | chargebacks; the flag map; hot reload over it |
| `AuthService`, `RateLimit` | tokens, secrets, merchants, users, purge; the two Lua limits |
| `ClientSdks` | both SDKs |
| `CaseConsole`, `DashboardViews`, `RuleBuilder` | case lists; live views; rule editor |
| `FraudTester`, `BattleArena` | battle server and agents; the arena page over it |

Proofs are in a module of their own beside what they are about:
`OutboxRelayProofs`, `DecisionPipelineProofs`, `EventCollectorProofs`,
`CaseWorkflowProofs`, `WebhooksProofs`, `SignalsProofs` (breakers, graph, scores,
velocity, devices, telco, baseline), `PlatformProofs` (accounts, rule weights,
rule set and flags, limits, edge) and `ClientsProofs` (SDKs, case lists, battles,
views).  `MC…` modules give the constants their values.

How modules are composed:

- *By EXTENDS.*  `DecisionPipeline` and `SignalPath` extend `Scoring`;
  `RuleReload` extends `FeatureFlags` (the poll reads the flags an operator
  changes meanwhile); `BattleArena` extends `FraudTester` (the page's requests
  and the server's battles interleave); scorers and lookups are extended by the
  services that use them.
- *By refinement.*  `OutboxRelay` instantiates `TransactionalOutbox` (`Outbox`).
- *At topics.*  What one module appends (`raw`, `topic`, `labels`) is a constant
  sequence of the next (`Calls`, `Decisions`, `Labels`), so each is checked
  against any input its neighbour can produce instead of in one product.
- *By focus.*  `MCServices` and `MCPlatform` join components that share no
  variable and start in any one of them: `focus` names the component that moves,
  the others keep their initial state.  `MCServices` extends `GraphIntel`,
  `SignalPath`, `VelocityEngine`, `DeviceIntel`, `TelcoEnrichment` and
  `BehavioralBaseline`, `MCPlatform` extends `AuthService`, `RuleWeights`,
  `RuleReload`, `RateLimit`, `Backpressure`, `ClientSdks`, `CaseConsole`,
  `DashboardViews` and `BattleArena`, so that their properties are
  checked as they are proved; the other components are instances, whose
  properties are stated for their focus, and so is the battle server by itself,
  which runs two scenarios with an error where the arena runs one.  Nothing is lost: interleaving steps
  that touch disjoint variables reaches no state of a component that it does not
  reach alone.  `MCCaseWorkflow` does the same with two instances of one module:
  the labels and the SLA checks.

## From code to model

One action is the code between two awaits on shared state; synchronous code is
one action with everything it changes.  `map` in `PROJECT.json` gives the lines
of each definition.  Errors and timeouts are a nondeterministic disjunct,
counted against a bound (`MaxFaults`, `MaxErrors`, …); a crash (`Crash`,
`Restart…`) clears what the process had in memory and returns the consumer to
its committed offset.  Names follow the code where there is one.

A definition beside a mapped one that nothing uses (`RequestedRow` next to
`LabelledRow`) is a mutation: the mapped definition with a plausible bug.  Each
checked property is violated when one of them replaces the original, which
shows that the property depends on that code.

**OutboxRelay.**  `created`/`publishedAt` are the rows, `topicLog` the broker,
`pc`, `batch`, `shuttingDown`, `lastPublishedAt` a relay's memory.  `Poll` is
the SELECT (oldest rows first, any order among equal `created_at`), `Send`/
`SendFails` the batch send (a failed send appends any part), `Mark`/`MarkFails`
the UPDATE (which may be committed though it failed).  A row becomes visible at
any `created_at`: transactions commit out of order.  `sends` is history.

**Scoring, DecisionPipeline.**  Weights in percent; the code's doubles are
rounded to integers before anything compares them, and the quotient here is
exact (a tie of floating-point sums may round differently).  A call is an HTTP
request or a delivery of an event; `pc` is the await it is at.  `idem`, `cache`,
`store`, `lists` are the shared keys and tables; `bg` the promises left running
after the reply.  Events of one `merchant:session` key are in one partition, so
two deliveries of one event never overlap; all other calls may.  The score is
any of `BaseScores` and the rule outcome any of `Rules`.  The 7- and 30-day
windows of prior decisions do not expire.  `verdicts` and `arrival` are history.

**SignalFetchers.**  A breaker is its failure count and whether its 30 s are
unset, running or over; `Expire` waits for the fetches in flight because they
end within 150 ms.  `up` says whether a service answers in time and changes at
any moment.  A fetch without its identifier is null, which the breaker counts
as a failure, as in the code.  The stateful context's velocity fetches share
the velocity breaker; the graph fetch has none.

**SignalPath.**  What the services answer is what they compute from the request
this service really sends: one path is not served, bodies carry ids only, and a
field that is absent makes NaN.  Rules come as the actions that match.

**EventCollector.**  `rq` is where a request is, `inFlight` and `tokens` the
guard's counters.  `pending` are parts of a send that failed or timed out and
may still be appended.  The dead-letter consumer is `at` record `next`;
`processed` is its in-memory set.  The guard may reject at any time in the name
of the window and the adjuster, which `Backpressure` models: its adjuster and
its admission half (`concern`) do not read each other.  The guard charges a
whole batch to the merchant of its first event and to nobody when that names
none: `leads` in `Backpressure.Enter`, `Charges` here.  Multipliers are
thousandths.  The dead-letter topic is one partition (its key is the merchant).

**CaseWorkflow.**  `cases` is the table; `sends` the label promises under way,
ending in any order, repeated by KafkaJS or lost; `checks` the running
`checkBreaches` loops.  `quiet` is history: the last PATCH of a case met none of
its older labels under way, and its own was not lost.  Publishes that overlap
may leave the labels of a case in the wrong order, and nothing here says they do
not: `LabelsCatchUp` is about what comes after.  Assignees, notes, timestamps,
listing and export are left out.

**Webhooks.**  `job` is the delivery under way for a message or an alert: the
configuration it read and its attempt.  A request that timed out was received
within its attempt or never.  `heard` and `unserved` are history.

**VelocityEngine.**  `store` are the members in Redis by counter, `deadline` the
keys' TTLs, `markers` the `processed` keys.  `tallied` is history: what was ever
added; `farAhead` records that an event came with a timestamp further in the
future than a TTL exceeds its window.  A read is an operator on either; the
property compares the two.  A
pipeline may lose any of its commands; `stragglers` are updates of a handler
that failed beside them (`Promise.all` does not wait).

**DeviceIntel.**  `call` is where an identify() is, `byFp` and `byId` Redis,
`rows` the table.  Attributes are model values with their fingerprint,
similarity and emulator confidence.  Trust is in hundredths.

**TelcoEnrichment, GraphIntel, BehavioralBaseline.**  A telco message is of a
kind (complete, empty, broken, partial, null); a JSON `null` makes the handler
throw and stops the partition, as in the code.  A MERGE is a look and a write,
and what it found is in `looked`.  Averages are in units of 1/Scale, the
power of ten that has a decimal for each session of a life: a division by ten
per session has no remainder, which `BehavioralInv` shows.

**RuleLanguage.**  A text is lines of lexemes; characters inside a word are not
told apart.  The parser threads its position through results `[ok, at, value]`
in place of `this.pos`.  Two evaluators (decision-service has a copy) are one.
`RuleRegistry` loads the file at startup and serves the admin calls;
`RuleWeights` has weights in hundredths, one task for the consumer and one per
HTTP request, with the GET, the SET and the INSERT as steps; an audit row is told
by its timestamp, and no two share one (the table could not order rows of the
same millisecond either); `RuleReload` polls
in `Slots` that overlap.

**AuthService.**  `request[r]` is the handler of one request and the await it is
at; tokens are records with issuer, expiry and key generation; a secret is the
request that made it.  Time is in seconds of token life.  `grant` is the login a
refresh token descends from; `doubled` and `reset` are history.  The Lua
scripts of `RateLimit` are single steps.  `granted` and, in `Backpressure`,
`entered` record what was let pass, the latter with running totals.

**ClientSdks.**  `sending` are posts under way with their attempts.  The server
accepts, refuses (4xx) or fails; an answer that was lost counts as failed, so
`accepted` events may be posted again.

**Browser.**  A request carries what it asked and is answered once, at any time,
and is applied to the state of that moment.  `CaseConsole` has the two lists,
`DashboardViews` one view at a time (`tab`), `BattleArena` every socket that was
opened.  React effects are the step after the state they depend on changed.

**FraudTester.**  A battle is its runner's scenario, event and poll; the three
agents are the scenarios they build.  Percentages are rounded down.

## Runs

Each run asks a question of its own.  "Distinct" is the number of distinct
states TLC finds.

| Run | Distinct | Shows |
|---|---|---|
| `outbox` | 275 396 | copies per relay bounded, a graceful stop leaves nothing half done, the abstract outbox is implemented, every row is published |
| `pipeline_retry` | 2 291 851 | a retry gets the recorded verdict, none is attributed to a request it was not computed for, an evaluation that starts after a FRAUD label is a BLOCK |
| `pipeline_liveness` | 239 321 | with labels and a crash meanwhile, the first saved verdict is final and an undisturbed one reaches table and topic |
| `cases` | 1 668 445 | after publishes in any order, lost or repeated, a PATCH that meets none of them brings the topic back to the row; risky decisions become cases, overdue ones are alerted |
| `collector` | 966 609 | slots match requests; 202 means in the topic; copies bounded |
| `signals` | 97 732 | bounded load on a failing service; open only during an outage; no signal locked out |
| `webhooks` | 1 088 760 | bounded receipts, in topic order; risky decisions delivered or dead-lettered |
| `services` | 383 570 | velocity, devices, graph, telco, baseline, signal path: see below |
| `platform` | 449 757 | rules, accounts, edge, SDKs, browser, tester: see below |
| `pipeline_same_request` | violation | two concurrent calls with one request id get different verdicts |
| `pipeline_next_event` | violation | a call after the denylist upsert is answered with the ALLOW cached before it |
| `collector_retries` | violation | a record whose republish failed once reaches neither `events.raw` nor the exhausted topic |

`services` and `platform` check, per focus:

| Focus | Property | Says |
|---|---|---|
| velocity | `EveryEventIsCounted`, `ReadsAreExact` | each event counts under all its entities unless a crash or lost call excuses it; neither pruning, TTL nor redelivery changes a read |
| device | `DevicesAreRecognised` | an answered fingerprint is found again; calls that never overlapped leave Redis and table equal |
| graph | `EarlierSharersAreCounted` | whoever was analysed on a device before is counted, also when the device exists twice |
| telco | `EveryEnrichmentIsAnswered` | a signal or a dead letter for each message |
| path | `VerdictsFollowSignals` | the mean lies between its signals; a harsher verdict names its rule |
| registry | `ParserKeepsTheText` | a written rule is read back; what is accepted of a damaged text has its tokens |
| weights | `AuditExplainsWeight` | audit rows lead from the default to the weight |
| reload | `RulesFollowTheFlag` | the active rules become and stay those of the flag |
| auth | `CredentialsEnd` | logout, refresh rotation and secret rotation are final |
| edge | `ChargedShareIsBounded`, `EdgeRateRecovers` | batches charged to a merchant bring in burst plus rate over every stretch of time; full rate after the lag is gone |
| sdk | `EventsSurviveFailures` | an event is buffered, under way or with the server |
| console | `RemovedMeansClosed` | an answer removes only cases that were closed |
| tester, arena | `StoppedIsOver`, `ArenaShowsItsBattle` | after a stop one result at most; one battle's feed, the last start's; no battle runs on unseen |
| views | `ViewsShowTheirData` | feed, stream, search, panel, targets and rules show what they were given |
| all | `TypesOK` | types, scales of the scorers, the editor's conversions (`EditorKeepsItsRules`), auth-service's limits (`BucketBoundsEveryStretch`) |

Several properties say "unless", where the code goes wrong (see
[Known divergences](#known-divergences)) and the rest is what it gets right.
The excused case is a step of the model, but no run finds it:

| Property | Excuses |
|---|---|
| `DeniedIsBlocked` | a watchlist query that timed out; an answer from the entity cache (that one is `pipeline_next_event`) |
| `UndisturbedVerdictReachesAll` | failed calls and crashes |
| `DecisionsBecomeCases` | an INSERT that failed |
| `LabelsCatchUp` | the order of overlapping publishes, until the next PATCH |
| `SlotsMatchRequests` | the slots of clients that disconnected: they are counted in |
| `OpenOnlyDuringOutage` | a late failure that extends an open breaker |
| `EveryEventIsCounted` | a command that failed inside a pipeline, a crash or a failed delete after the marker |
| `DevicesAreRecognised` | for what Redis holds: calls that overlapped, lost commands |
| `EveryEnrichmentIsAnswered` | a dead letter that could not be sent |
| `AuditExplainsWeight` | a rule with overlapping adjustments or a failed call |
| `ChargedShareIsBounded` | events in batches that are not charged to their merchant |
| `RemovedMeansClosed` | a case selected while the bulk action was under way |
| `OneLiveTokenPerGrant` | two refreshes of one token at once |
| `ArenaShowsItsBattle` | a stop before the join, a lost request |

Bounds and why they are enough:

- *outbox*: two relays and two rows of one topic: every race is between two
  relays over a row, or about the order of two rows.  One error, one crash, one
  stop let each fault hit each await; copies grow by one per fault, which the
  proof shows for any number.
- *pipeline_…*: two or three calls over one or two requests and entities; the
  shared keys are per request and per entity, so a third call adds no new pair.
  `pipeline_retry` has an HTTP call, its retry and an event about the same
  entity beside one FRAUD label, and a fault or an expired key but not both (`OneDisturbance`): the
  proofs cover every combination.  `BaseScores = {30}` is 40 − 10: a rule, a
  boost or a list changes its action, and the denylist must override an ALLOW.
- *cases*: three edits of one case, two that overlap and one that may come after
  both, with a label lost or repeated and a crash; two checks of two risky
  decisions and a crash between them.
- *signals*: two requests, a breaker with one fetch per request and one with
  two, and the fetch without a breaker; four concurrent velocity fetches exceed
  the threshold of three.
- *collector*: a batch with a valid and an invalid event and its corrected
  repetition; one slot and two tokens so that both run out; two faults and two
  crashes so that a fault can hit the recovery from another.
- *webhooks*: two messages (order), one alert (concurrency), three attempts as
  in the code, one change of configuration, one fault, one crash.
- *services*: three messages, one repeated, over a clock with two boundaries;
  a fingerprint with two attribute sets and a similar one, an HTTP call beside
  the consumer; three analyses (two that create the device twice and a third
  that reads it); a telco message of every kind; a baseline of two samples, so
  that it is used and reset; every combination of missing signals.
- *platform*: all rules of up to two connectives and their texts with one token
  cut out; two weights moved by two tasks; two versions and two polls; three
  requests in sequence of grant, change and use; a clock long enough for two
  refills and a forgotten bucket; buffers of two, three events, two page lives;
  two cases and three requests; two battles; four decisions against a feed of
  two.

`CHECK_DEADLOCK FALSE` is set where a run legitimately ends: the calls, the
messages or the edits are used up.  The relay polls for ever, and so do
requests over the breakers; those two are checked for deadlock.

## Fairness

Weak fairness is assumed only of what the runtime guarantees:

- awaited calls settle (each has a timeout or an error path) and promises run
  on while the process lives: `RelayStep`, `CallStep`, `SaveInBackground`,
  `Publish`, `RequestStep`, `ConsumerStep`, `Check`, `Deliver`, `EndFetch`,
  `Return`, `EndStraggler`;
- KafkaJS polls and commits, and repeats a message whose handler threw:
  `TakeMessage`, `HandleDecision`, `CommitOffset`, velocity's `Handle`, telco's
  `Proceed`;
- timers fire: the relay's poll, the SLA interval, a breaker's 30 s (`Expire`),
  `ReloadStep` of each poll, `PollLag`, `Evaluate`;
- the orchestrator restarts an outbox relay that stopped or crashed (part of
  `RelayStep`), as the compose files' restart policy does.

Strong fairness is assumed once: of the polls of the lag one is answered again
and again for each value the group keeps having (`StoreLag`).  A broker that
never answers keeps the last lag for ever, which is what the code does.

Never fair: clients, analysts, labels, services coming back, a lost send that
may still land, faults, crashes, expiries.  Where a fault changes the outcome
in the code (a failed INSERT is swallowed), the property says so (`\/ faults >
0`): the fault stays in the model.

## Proofs

TLAPS checks the proofs for every value of the constants that satisfies the
named assumptions.  Each theorem has the form `Spec => []Property` (or
`Spec => Property`) with the specification of its component; "run" marks the
ones whose property a run checks too.

| Module | Theorem | Property | Run |
|---|---|---|---|
| `OutboxRelayProofs` | `TypeCorrect` | `TypeOK` | |
| | `PublishedRowsWereDelivered` | `PublishedWasDelivered`: marked rows are in their topic | |
| | `CopiesAreBounded` | `CopiesPerRelay` | yes |
| | `GracefulStopMarksWhatItSent` | `GracefulStopLeavesNothing` | yes |
| | `RelayImplementsOutbox` | `ImplementsOutbox`, the refinement of `TransactionalOutbox` | yes |
| `DecisionPipelineProofs` | `TypeCorrect` | `TypeOK` | |
| | `VerdictsAreGenuine` | `NoInventedVerdict` | yes |
| | `VerdictsStayWithTheirEntity` | `OwnEntity`: no verdict about another entity | |
| | `SavedVerdictIsFinal` | `FirstVerdictIsFinal` (an action property) | yes |
| | `DeniedCallsAreBlocked` | `DeniedIsBlocked` | yes |
| | `RetriesGetTheRecordedVerdict` | `RetryGetsRecordedVerdict` | yes |
| | `NoVerdictIsDropped` | the safety half of `UndisturbedVerdictReachesAll`: a call without promises left has its verdict in table and topic | |
| `SignalsProofs` | `TypeCorrect` | `TypeOK` of the breakers | |
| | `OpenMeansOutage` | `OpenOnlyDuringOutage` | yes |
| | `LoadStaysBounded` | `LoadIsBounded` | yes |
| | `GraphTypeCorrect` | `GraphTypeOK` | in `TypesOK` |
| | `SharersAreCounted` | `EarlierSharersAreCounted` | yes |
| | `PathTypeCorrect` | `PathTypeOK` | in `TypesOK` |
| | `VerdictsFollow` | `VerdictsFollowSignals` | yes |
| | `RiskierIsNeverMilder` | `ScoredAction` is monotone in mean, history, lists and rules | |
| | `VelocityTypeCorrect` | `VelocityTypeOK` | in `TypesOK` |
| | `VelocityReadsAreExact` | `ReadsAreExact` | yes |
| | `PassedEventsStayCounted` | `PassedEventsAreCounted`, the safety half of `EventsAreCounted` | |
| | `DeviceTypeCorrect` | `DeviceTypeOK` | in `TypesOK` |
| | `KnownDevicesAreRecognised` | `DevicesAreRecognised` | yes |
| | `NoEnrichmentIsSwallowed` | the safety half of `EnrichmentsAreAnswered`: what the consumer passed was answered | |
| | `TelcoTypeCorrect` | `TelcoTypeOK`, with the bound on repeated answers | in `TypesOK` |
| | `BaselineStaysHuman` | `BehavioralTypeOK`: averages stay between the speeds of people | in `TypesOK` |
| `EventCollectorProofs` | `TypeCorrect` | `TypeOK` | |
| | `SlotsAreAccounted` | `SlotsMatchRequests` | yes |
| | `AcceptedBatchesAreInRaw` | `AcceptedIsInRaw` | yes |
| | `CopiesAreBounded` | `CopiesInRaw` | yes |
| `CaseWorkflowProofs` | `TypeCorrect` | `TypeOK` | |
| | `LabelsCatchUpWithRows` | `LabelsCatchUp` | yes |
| | `NoRiskyDecisionIsSkipped` | `HandledHasCase`, the safety half of `RiskyDecisionsBecomeCases` | |
| | `NoBreachIsForgotten` | `BreachedIsAlerted`, the safety half of `OverdueCasesAreAlerted` | |
| `WebhooksProofs` | `TypeCorrect` | `TypeOK` | |
| | `ReceiptsAreBounded` | `ReceiptsPerLife` | yes |
| | `DecisionsAreHeardInOrder` | `ReceiptsInOrder` | yes |
| | `NoRiskyDecisionIsSkipped` | `CommittedWasServed`, the safety half of `RiskyDecisionsAreNotified` | |
| `PlatformProofs` | `TypeCorrect` | `AuthTypeOK` | in `TypesOK` |
| | `OneTokenPerLogin` | `OneLiveTokenPerGrant` | in `CredentialsEnd` |
| | `LogoutIsFinal` | `LoggedOutStaysOut` (an action property) | in `CredentialsEnd` |
| | `LastRotationHolds` | `RotatedSecretIsTheOne` | in `CredentialsEnd` |
| | `CredentialsEndInTime` | `CredentialsEnd` | yes |
| | `WeightTypeCorrect` | `WeightTypeOK` | in `TypesOK` |
| | `AuditExplains` | `AuditExplainsWeight` | yes |
| | `ReloadTypeCorrect` | `ReloadTypeOK` | in `TypesOK` |
| | `SettledRulesStay` | the safety half of `RuleSetFollowsTheFlag`: rules that are the flag's stay so (an action property) | |
| | `RolloutOnlyGrows` | a higher percentage switches a flag off for nobody | |
| | `RateTypeCorrect` | `RateTypeOK` | in `TypesOK` |
| | `BucketIsBounded` | `BucketBoundsEveryStretch` | in `TypesOK` |
| | `EdgeTypeCorrect` | `BpTypeOK` | in `TypesOK` |
| | `ChargedIsBounded` | `ChargedShareIsBounded` | yes |
| `ClientsProofs` | `SdkTypeCorrect` | `SdkTypeOK` | in `TypesOK` |
| | `NoEventIsLostOrDoubled` | `EventsSurviveFailures` | yes |
| | `ConsoleTypeCorrect` | `ConsoleTypeOK` | in `TypesOK` |
| | `RemovedCasesAreClosed` | `RemovedMeansClosed` | yes |
| | `StoppedBattlesAreOver` | `StoppedIsOver` | yes |
| | `ThePageShowsItsBattle` | `ArenaShowsItsBattle` | yes |
| | `ArenaStopsAreOver` | `StoppedIsOver` of the arena's battles | yes |
| | `ViewsAreFaithful` | `ViewsShowTheirData` | yes |

The type invariants of `OutboxRelay`, `DecisionPipeline`, `SignalFetchers`,
`EventCollector`, `CaseWorkflow` and `Webhooks`, and `PublishedWasDelivered` and
`OwnEntity`, are proved and therefore no longer model-checked.

### Assumptions

None says more than the code does, and TLC evaluates each on a run.  Sets that
are counted are finite (events of the relay, requests, fetches, batches); a
batch size, a retry limit and a number of slots are at least 1; bounds of a
model are naturals; input sequences have the type their producer gives them
(`Decisions`, `Messages`, `Labels`, `Edits`); a null is not one of the values it
stands beside (`NoResult`, `NoConfig`, `NoDevice`, `NaN`, `None`); the consumers
of graph-intel, device-intel and the chargebacks are not among their HTTP calls; a chargeback
names rules that exist; a counter's TTL exceeds its window, as
in velocity-service's configuration; a telco event is of one of the five kinds and its number a sequence of
characters; a session's speeds are naturals or absent; `TenTo` are the powers of
ten; a flag is enabled or not; a token bucket is full again before it is
forgotten (`RateAssumption`: 60 s to fill, 120 s to expire; `FairnessAssumption`:
2 s and 300 s); the lag's warning threshold is not above its critical one; "list" and the chargeback are no case ids.
`BatchesAssumption` also says that
an event of a batch is valid or not, never both, and `ScoringAssumption` that
base scores are percentages.  No number of actors, messages, faults or crashes
is assumed.

### Inductive invariants

None of the properties above is inductive as it stands.  What each needs:

*Relay.*  `PublishedWasDelivered`: a relay may mark what it holds, so
`SafetyInv` adds `BatchOK` (a batch being marked has been delivered, a batch
being sent is of visible rows) and `DeliveredWasCommitted`.  `CopiesInv`
strengthens `CopiesPerRelay` by what a relay may still send before it marks
(`Allowance`): a row sent but not marked uses up the relay's one free copy.  The
graceful stop follows from the same count.  `StepRefines` maps each action to
`Write`, `Deliver`, `Acknowledge` or a stutter of `TransactionalOutbox`.

*Pipeline.*  `Inv` joins the type invariant with `InHand` (where a call holds a
result), `KeysMatch` (a result under a Redis key is about that key's request or
entity), `NoInventedVerdict` and `OwnEntity`.  Provenance is the argument: one
action computes results (`Evaluated`) and records them in `verdicts`; all others
copy them, and a copy keeps its request.  `DeniedInv`: before the
watchlist query a call has computed nothing (`NothingYet`); one that began after
the denylist upsert finds the entry there until it is cleared, unless the query
timed out, so it is not scored and what it computed is a BLOCK (`Denied`).
`RetryInv` follows one retry while nothing failed or expired
(`Calm`): the recorded result stays under its key, so the call can only be
`Waiting` for it or be `Answered` with it, and stays `Silent`; `OwnResult` gives
that what is under a key was put there for its own request.
`WayInv`: while nothing failed or crashed, of a verdict that was handed on what
is not in the table or in the topic yet has its promise still to run
(`OnItsWay`); a call that the idempotency key answered holds no verdict
(`NothingYet`), and rows and messages are never taken back (`RecordsStay`).

*Breakers.*  `OpenOnlyDuringOutage` needs that a breaker does not count more
failures than there were since the last success (`FailuresAreReal`).  The load:
while closed a breaker holds at most two failures (`ClosedForgives`) and every
request at most one fetch of each kind behind it (`FetchesFitSlots`); a failure
moves one unit from the fetches to the count, and once it is open no request
adds a fetch, so the sum never exceeds what it was.

*Graph.*  `EarlierSharersAreCounted` is about the count at the end of an
analysis.  `SawEarlier` says that every account which had finished before has a
path to each device node of that key which the analysis found, and
`MergedItsOwn` that an analysis has itself linked what it merged; edges are
never removed (`LinksStay`), so the path is there when it counts, and two
different accounts are two different sharers even if MERGE created the device
twice.  Finiteness (`GraphFinite`) is needed to count at all.

*Scores.*  `RoundedBetween` and `MeanBetween` show that a weighted mean with
positive weights, rounded to the nearest integer, lies between any whole numbers
that bound its terms.  `PathInv` carries the types of the bundle and of prior
decisions from stage to stage, which makes every score a number in 0..100 where
it is used; then `VerdictsAreExplained` is preserved by `Decide` alone.

*Collector.*  `SlotsMatchRequests` is inductive with the types.  `SentInv` (a
request past routing has its valid events in the topic) gives `AcceptedIsInRaw`.
`CopiesInv` splits the bound by where a copy can come from: requests that
already carried the event, records handled in this life of the consumer, sends
that failed and may still land; every step that appends a copy uses up one unit
of its own summand.

*Cases.*  `CasesPerLife` bounds the table by lives and messages.  `LabelInv`
says that labels, sent or under way, are about cases that exist.
`CatchUpInv` strengthens `LabelsCatchUp` by what is still under way: a quiet case
has one promise at most, and while its row says FRAUD or LEGITIMATE that promise
carries what the row says, and without one the last label does.  A PATCH that
meets no promise establishes this from any topic and any row, which is where
publishing the row and not the request is needed; an overlapping PATCH, a
failed send and a crash with a promise under way end the quiet instead.
`HandledHasCase` and `BreachedIsAlerted` are the safety halves of two liveness
properties: what they say remains to be done is under way or excused, so that
only fairness is left to TLC.

*Webhooks.*  `JobsInv` ties a job to the offset and its attempt number;
`ReceiptsInv` counts receipts by life and attempt (`InThisLife`); `HeardInv`
says that without a crash an endpoint heard only messages taken so far, in
increasing order; `ServedInv` that whatever lies behind the committed offset was
acknowledged, dead-lettered or taken up without a configuration.

*Accounts.*  `RequestInv` gives each handler's step what it must have read.
`GrantInv`: of a login whose refreshes did not overlap there is one live token,
or one refresh has it revoked and not yet replaced; `IssueInv` keeps the rows
apart.  `SecretInv`: the row of a
merchant is never removed, so a rotation that found it writes to it and the last
answer names what is stored; `DeniedInv` keeps the denylist entry for as long as the
token it denies lives; `PurgeInv` orders the purge's statements.

*Weights.*  `AuditExplainsWeight` speaks of rules whose rows are all written.
`TrailInv` speaks of all rules, at any time: the rows written and those a task
still holds (`Trail`) lead from the default to the weight in Redis; they are
older than the next timestamp, so a new row continues them (`TrailContinues`);
and who is between the GET and the SET of a rule is alone there and has read
that weight.  An overlap, a failure or a crash makes the rules it touches
`unexplained` before it can break their trail.

*Rule set.*  `ReloadInv` has that version and rules change together and that
only versions there are get loaded.  `Settled` (the rules are the flag's and
every load on its way is of that version) is kept by every step of a poll, since
a poll that reads the version in force starts no load (`SettledStep`): this is
why the rules stay once TLC has shown that they arrive.

*Limits.*  `BucketInv` and `ShareInv` have the same form: what passed since any
earlier request, plus the tokens there are now, is no more than the burst and
the refill since that request.  A tick adds no more tokens than its refill, a
request moves tokens to what passed, and a bucket that Redis or the cleanup
forgets was full again by then (`TokensGrow`, `StaleIsFull`), which is where the
lifetime of a bucket must be long enough to fill it.

*Velocity.*  `Retained`: whatever was counted and still belongs to a window is in
Redis, and its key's deadline is not before the window's end; that is where a
TTL longer than the window is needed, and why an event counted far ahead of its
time (`farAhead`) is excused.  Then the live members of store and history are
the same sets, and so are their counts and sums.

`PassedInv` follows the consumer: an event before its position is counted under
all its entities or excused (`PassedEventsAreCounted`), where it stands the
counters done so far are (`AtHandIsCounted`), and a `processed` key that would
make a redelivery a duplicate stands only for an event that was counted, is at
hand or is excused (`MarkersAreEarned`).  A key that is removed after a failed
update is what keeps the last one true.

*Telco.*  `CopiesInv` counts what an enrichment was answered and what it may
still get (`MayGet`) against one answer and one for each failed send and crash:
a restart goes back to the committed position, which gives every message at or
behind it one more, and uses up the crash.  `PassedAreAnswered`: the position
moves on only after a send that succeeded, a letter given up (`unsent`), or a
message without a value.  `NormalizeOnce` shows that a normalized number has
neither a plus nor a leading zero.

*Baseline.*  `BaselineOK` bounds each average by two human speeds; a tenth of a
new speed and nine tenths of the old average lie between them
(`AverageIsBetween`) because both are multiples of ten while a decimal is left:
`Decimals` says how many each session has used.

*Devices.*  `Genuine` says that whatever table, Redis and calls hold of one id is
of one fingerprint.  `KnownHasRow`: a known fingerprint has a row, its own or a
similar one, as no step but the purge removes rows or changes their ids;
`FindsRow` takes that through a call that began with its fingerprint known, which
therefore never gets to the INSERT.  `QuietInv`: when calls neither overlap nor
lose a command, a cached device differs from its row only while the one call
under way has still to drop its keys (`Dropping`), and that call `Knows` what it
read; a fingerprint's key never stands without the key of its id, through which
alone `invalidate` finds it.

*SDKs.*  `Placed` says that an event is in one place only (buffer, one post,
server, dropped) and that posts are disjoint, `Numbered` that numbers are not
used twice.  The buffer's length follows because an injective sequence over n
numbers has no more than n members.

*Case lists.*  `Closes` follows a request that closes cases: what of it is no
longer to be done is closed, and a chargeback is only asked for once its case
is.  An answer removes exactly those.

*Battles.*  `Over` ties the stop to the room: a stopped battle's runner may be
inside one event, so that one more result can come (`LateIn` within one
position) and none once it is between events; its report never comes.

*Arena.*  `ArenaInv` carries the battles' invariant along, as the page adds only
what its requests do to the server.  `OneAtATime`: without a lost request or an
early stop one thing of the last start is under way, its import, its open socket
or its interval, so that only one source can write to the feed (`FeedIsOfOne`);
a battle that still runs is the open socket's or its stop is on its way.  A
socket that hears the report knows by `ReportedIsOver` that its battle is over.

*Views.*  `ViewsInv` has one part per view.  The feed (`FeedInv`): what is shown
is the cut of what was received before the queue, and a cut of a cut is a cut
(`CapOfCap`), so that prepending to what is shown is the same as showing all of
it again.  The stream: all sockets but the last are closed, so a decision comes
at most once (`OnlyTheLastIsOpen`).  The rules: while no two requests overlapped
there is one, and the list is right either before the server acts or once its
answer is `Applied` (`InStep`).

### Only model-checked

- Every liveness property, and the refinement's liveness: fairness and ENABLED
  are out of the prover's reach.  The safety halves of `RiskyDecisionsBecomeCases`,
  `OverdueCasesAreAlerted`, `RiskyDecisionsAreNotified`, `EventsAreCounted`,
  `EnrichmentsAreAnswered`, `UndisturbedVerdictReachesAll` and
  `RuleSetFollowsTheFlag` are proved.
- `ViewsTypeOK`, whose count of requests no proof has needed.
- `TesterTypeOK`, because the averages of a report are folds over its results.
- `ParserKeepsTheText`: what the parser computes for every text is an induction
  over data.
- `RegistryTypeOK`: `RuleRegistry` reaches the recursive operators of
  `RuleLanguage`, behind which the SMT backend is not available.
- `ScorersTypeOK` and `EditorKeepsItsRules`: the scorers have no parameter, and
  their evidence, like the editor's expressible rules, is a finite set that TLC
  enumerates completely.
- `TypesOK` of the two composed runs, which is a case distinction over the
  components; the parts a theorem states are marked in the table.

## Known divergences

Three statements of the documentation are contradicted by a run (see
`findings`).  These were met while modelling and are not given a run of their
own; paths are under `src/`, `apps/` is left out, and the model does what the
code does.

Pipeline, outbox, cases, webhooks:

- `outbox-relay/src/relay/dedup.service.ts:5-6` says that the watermark keeps
  events from being republished after a restart; nothing reads it, and a row
  sent but not marked is sent again.
- `README.md:111` describes an outbox against dual writes, but decision-service
  saves and publishes in two independent promises.
- `README.md:181-182`: test decisions are saved with `is_test = false`: decide()
  saves before the flag is set and the second INSERT does nothing; one answered
  from the cache is published without the flag.
- `README.md:112`: a crash between a case's INSERT and the offset commit opens a
  second case (`case-service/src/cases/case.repository.ts:24`).
- `case-service/src/kafka/decision-consumer.service.ts:146` says a failed create
  is retried "on next poll"; the error is swallowed and the offset moves on.
- `docs/INTEGRATION-GUIDE.md:563`: an SLA alert is lost when the service crashes
  after marking the case; `docs/claude/decision-log.md:75`: no priority is
  raised on a breach.
- The SLA endpoint of webhook-service answers `delivered: true` also when every
  attempt failed; `docs/TECHNICAL.md:435` promises a dead letter after ten
  failures, the code has three attempts; a failed read of the configuration
  drops the message (`decision-consumer.service.ts:130`).
- event-collector answers 202 when the dead-letter send of an invalid event
  fails or times out (`events.service.ts:168`, `docs/claude/decision-log.md:15`),
  and a stop during the backoff drops the record.
- A request without a device id, session, address or number counts as a failure
  of that signal (`signal-fetchers.ts:340`), so three of them open the breaker
  of a healthy service for all requests.
- Bulk RESOLVE replaces an analyst's resolution by INCONCLUSIVE without a label;
  labels are published unawaited (`case.service.ts:92`), so those of two quick
  updates may arrive in the opposite order.
- The 50 ms timeout of the watchlist answers "not listed"
  (`watchlist.service.ts:71`).

Signals:

- decision-service asks device-intel at a path it does not serve, sends bodies
  with ids only (behavioral and network scores stay 0), and a telco answer
  without `prepaidProbability` becomes NaN and is dropped.  Factors of prior
  decisions are appended after the sort.
- `@UseGuards` on the gateway does not run for `handleConnection`, so every
  socket is disconnected.
- velocity-service: errors of single commands in `pipeline.exec()` are ignored
  (`velocity.service.ts:148`); the `unique_*` counts are HyperLogLogs without a
  window;
  SequenceService and DecayService are wired to nothing.
- `device-intel-service/src/consumer/device-event.consumer.ts:162` says "allow
  retry"; the error is swallowed and the offset moves on.  An UPDATE never
  changes `is_emulator`.
- telco-intel: `PayguruEnrichmentModule` is not imported by app.module; a JSON
  `null` in the topic blocks its partition.
- graph-intel: nothing sets `isFraud`, so the fraud neighbours are always 0; no
  uniqueness constraint keeps two nodes of one key apart
  (`graph-intel.service.ts:26`).
- behavioral: `formFillSpeed` is fields per second in one scorer (more than 50
  is a bot) and milliseconds between keystrokes in the other (fewer than 30 or
  50 is one).

Rules and flags:

- The parser compares only the text of the token after THEN and MISSING, so a
  quoted "BLOCK" or "SKIP" is one as well (`parser.ts:262`, `297`).
- The registry never consults `isActive`; a created rule's condition compares a
  field `manual`; an updated expression is stored but not parsed; a restart
  loses all of it.  `NOT` and `OR` treat a missing field as false.
- Nothing reads `rule:weight:*`; the audit table exists in tests only;
  overlapping adjustments lose one, and a failed one leaves a chargeback half
  applied.
- Hot reload asks for flags without `/v1` and for a `value` no flag has;
  nothing uses `getActiveRuleSet`; a reload by hand answers success even when it
  failed.

Accounts and edge:

- auth-service: a user who logged in with a password cannot refresh: the owner
  is looked up among merchants after the token was revoked
  (`auth.service.ts:229-233`), and the result of that revocation is not looked
  at, so two refreshes of one token both succeed.  A purge runs without a
  transaction and names tables that do not exist (`purge.service.ts:24`).
  rotateSecret also updates a deleted merchant.  A restart without keys in the
  environment invalidates all tokens; in development it also resets the seeds'
  secrets.  `JwtStrategy` takes its key before the keys are loaded
  (`jwt.strategy.ts:24`).  The rate limiters, `purgeExpired` and
  `revokeAllForUser` are wired nowhere; a skewed clock moves `lastRefill` back.
- The guard charges a batch to the merchant of `events[0]` and skips the bucket
  when that is missing (`backpressure.guard.ts:55-58`, `151-157`), while
  `docs/INTEGRATION-GUIDE.md:666` and `fairness.service.ts:4-8` speak of 1 000
  events per second and a burst of 2 000 for each merchant.  The body's type is
  written inline, so that no `ValidationPipe` looks into it: a batch that begins
  with an event without a merchant, or with another merchant's, is admitted, the
  first event may go to the dead letters, and the valid ones reach `events.raw`
  (`events.service.ts:58-126`) without a charge to their merchant.
  `ChargedShareIsBounded` bounds what is charged, and no more.
- The slot of a request whose client disconnected is never released
  (`backpressure.guard.ts:99`: 'finish', not 'close').
- Backpressure: a lag between warning and critical lowers the rate to its floor,
  0.95 at a time; a poll that lost to its timeout stores an old lag later;
  `recordLatency` is called by nobody.
- SDKs: the web SDK posts to paths no service has (`/v1/events/batch`,
  `/v1/fingerprint/identify`), repeats a refused batch for ever, and overlapping
  failed flushes reorder events; the mobile SDK gives a batch up.

Dashboard and fraud-tester:

- Case lists: the answer to a bulk action removes what is selected *then*
  (`dashboard/src/store/cases.store.ts:141`); the resolution of a bulk label is
  ignored; a selection survives a filter; when the chargeback of an outcome
  fails the case stays listed although it was resolved; `?? 0 + …` in
  `fraud-ops.store.ts:73` never counts; a late claim reopens a resolved case.
- Rule editor: conditions outside the schema, parentheses and NOT are dropped
  when a rule is opened and saved.
- Views: emptying the search box leaves the debounce timer running; an aborted
  search hides the indicator of the next; a late graph analysis is shown for
  another node; a changed analytics period is not fetched; the live feed reads
  the key `token` instead of `signalrisk_token`; a slider keeps its value when
  the update failed; a paused queue is unbounded.
- Arena: a stop before the join leaves the server's battle running, its results
  flow later; a battle that ends before the join never completes; a 409 leaves
  `battleId` undefined.
- fraud-tester: `ChaosAgent.stop` does not stop its runner; an event that timed
  out counts as ALLOW; a stopped battle's last event overlaps the next battle.

## Not modelled

- *case-service retention and export*: scheduled deletions and one query that
  nothing else reads.  (device-intel's and auth-service's purges are modelled.)
- *Shared packages*: names, schemas, metrics and connections; their values are
  constants of the modules that use them.
- *Database, infrastructure, scripts*: DDL, row-level security, deployment,
  document generators.  The one constraint the code relies on, `request_id`
  unique in `decisions`, is in `DecisionPipeline`.
- *Rendering and read-only pages*; of the pipeline, feature snapshots and
  telemetry, which nothing reads back; of velocity, two services wired nowhere.
- One merchant: every key, row and topic key carries the merchant id, and
  row-level security has nothing to separate.
- A consumer that lost its partition but still works on a message (a zombie);
  crashes and, in EventCollector, rebalances are modelled.
- Hazards met in code that is modelled, without a property of their own: the
  connection `watchlist.service.ts:86` leaks when the timeout wins before
  `pool.connect` resolves (pools are not state here); a failed `cache.set`
  (`decision-cache.service.ts:27`), which only costs an evaluation; the two
  statements of a LEGITIMATE label outside a transaction
  (`state-feedback.consumer.ts:169`), between which the model can fail; a
  batch of which a part was sent (`kafka-producer.service.ts:84`) and a
  redelivery after a rebalance (`dlq-consumer.service.ts:188`), both part of
  what `CopiesPerRelay` and `CopiesInRaw` bound; a crash between
  `markSlaBreached` and `sendAlert` (`sla-monitor.service.ts:51`), which
  `OverdueCasesAreAlerted` excuses because the alert is lost.

## Plan

The modules are in place, and what the runs say of safety is proved but for the
list under [Only model-checked](#only-model-checked).  Next would be:

1. `ViewsTypeOK` and the admin calls of `RuleRegistry`, after a split from the
   part that parses and evaluates.
2. The steps behind the liveness properties as action properties in the manner
   of `SettledRulesStay`: a breaker's way back to closed, the edge's to its full
   rate.
