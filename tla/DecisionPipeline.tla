--------------------------- MODULE DecisionPipeline ---------------------------
(***************************************************************************)
(* decision-service: calls of POST /v1/decisions and messages of            *)
(* events.raw run the same decide(), concurrently, over shared Redis keys   *)
(* (idempotency and entity cache), the decisions table, the watchlist and   *)
(* the decisions topic.  StateFeedbackConsumer changes the watchlist while  *)
(* they run.  One merchant: every key carries the merchant id.              *)
(*                                                                         *)
(* An await is where calls interleave: one action is the code between two   *)
(* awaits on shared state.                                                  *)
(***************************************************************************)
EXTENDS Scoring, Sequences, FiniteSets

CONSTANTS
    Calls,          \* invocations: HTTP calls and deliveries of events
    Http,           \* the calls that are HTTP calls, the others are events
    Requests,       \* request ids (an event's id is its request id)
    Entities,       \* entity ids
    ReqOf,          \* [Calls -> Requests]
    EntityOf,       \* [Requests -> Entities]
    IsTest,         \* [Requests -> BOOLEAN]: X-SignalRisk-Test / is-test
    BaseScores,     \* scores the signals may yield
    Rules,          \* outcomes the DSL rules may have
    Labels,         \* analyst labels, in topic order: [ent, resolution]
    MaxFaults,      \* bound: Redis, Postgres and Kafka errors, timeouts
    MaxCrashes,     \* bound: crashes of the process running a call
    MaxExpiries,    \* bound: Redis keys that expire
    NoResult        \* the null of results

Result == [req : Requests, action : Actions, cached : BOOLEAN]
Row    == [action : Actions, isTest : BOOLEAN, typed : BOOLEAN]

ASSUME CallsAssumption ==
    /\ Http \subseteq Calls
    /\ ReqOf \in [Calls -> Requests]
    /\ EntityOf \in [Requests -> Entities]
    /\ IsTest \in [Requests -> BOOLEAN]
ASSUME ScoringAssumption ==
    /\ BaseScores \subseteq 0 .. 100
    /\ Rules \subseteq RuleOutcomes
ASSUME LabelsAssumption ==
    Labels \in Seq([ent : Entities, resolution : {"FRAUD", "LEGITIMATE", "INCONCLUSIVE"}])
ASSUME BoundsAssumption == MaxFaults \in Nat /\ MaxCrashes \in Nat /\ MaxExpiries \in Nat
ASSUME NoResultAssumption == NoResult \notin Result /\ NoResult \notin Row

VARIABLES
    pc,             \* [Calls -> where the handler is]
    res,            \* [Calls -> the DecisionResult in hand]
    seen,           \* [Calls -> what checkWatchlist returned]
    bg,             \* [Calls -> the promises the handler left running]
    reply,          \* [Calls -> the body an HTTP call got]
    idem,           \* Redis idempotency:{merchant}:{request}
    cache,          \* Redis decision:cache:{merchant}:{entity}
    store,          \* table decisions, by (merchant, request)
    txCount,        \* entity_profiles.total_tx_count
    topic,          \* messages in the decisions topic
    lists,          \* active watchlist_entries of an entity
    fb,             \* StateFeedbackConsumer: next label and statement
    verdicts,       \* history: actions decide() computed for a request
    arrival,        \* history: what held when a call arrived
    faults, crashes, expiries

callVars  == <<pc, res, seen, bg, reply, arrival>>
redisVars == <<idem, cache>>
dbVars    == <<store, txCount>>
listVars  == <<lists, fb>>
bounds    == <<faults, crashes, expiries>>
vars == <<callVars, redisVars, dbVars, topic, listVars, verdicts, bounds>>

Ent(c) == EntityOf[ReqOf[c]]
Ended(c) == pc[c] \in {"replied", "failed", "committed"}
InFlight(c) == pc[c] # "new" /\ ~Ended(c)
Goto(c, l) == pc' = [pc EXCEPT ![c] = l]
Fault == faults < MaxFaults /\ faults' = faults + 1
NoFault == faults' = faults

Init ==
    /\ pc = [c \in Calls |-> "new"]
    /\ res = [c \in Calls |-> NoResult]
    /\ seen = [c \in Calls |-> {}]
    /\ bg = [c \in Calls |-> {}]
    /\ reply = [c \in Calls |-> NoResult]
    /\ arrival = [c \in Calls |-> [denied |-> FALSE, settled |-> NoResult, timedOut |-> FALSE]]
    /\ idem = [r \in Requests |-> NoResult]
    /\ cache = [e \in Entities |-> NoResult]
    /\ store = [r \in Requests |-> NoResult]
    /\ txCount = [e \in Entities |-> 0]
    /\ topic = {}
    /\ lists = [e \in Entities |-> {}]
    /\ fb = [next |-> 1, step |-> 1]
    /\ verdicts = [r \in Requests |-> {}]
    /\ faults = 0 /\ crashes = 0 /\ expiries = 0

-----------------------------------------------------------------------------
(* The entry points *)

\* An event waits for the earlier delivery of the same event: both have the
\* same key, so they are in one partition.
Arrive(c) ==
    /\ pc[c] = "new"
    /\ c \notin Http => \A d \in Calls \ Http : ReqOf[d] = ReqOf[c] => ~InFlight(d)
    /\ Goto(c, IF c \in Http THEN "idempotency" ELSE "lookup")
    /\ arrival' = [arrival EXCEPT ![c] =
         [denied   |-> "denylist" \in lists[Ent(c)],
          settled  |-> IF \E d \in Calls : ReqOf[d] = ReqOf[c] /\ InFlight(d)
                         THEN NoResult ELSE idem[ReqOf[c]],
          timedOut |-> FALSE]]
    /\ UNCHANGED <<res, seen, bg, reply, redisVars, dbVars, topic, listVars, verdicts, bounds>>

PublishedHit(c) == idem[ReqOf[c]] # NoResult /\ \E m \in topic : m.req = ReqOf[c]
IdempotencyHit(c) == idem[ReqOf[c]] # NoResult

\* DecisionController.decide: idempotency.get.  A Redis error is a miss.
IdempotencyGet(c) ==
    /\ pc[c] = "idempotency"
    /\ \/ /\ IdempotencyHit(c)
          /\ reply' = [reply EXCEPT ![c] = [idem[ReqOf[c]] EXCEPT !.cached = TRUE]]
          /\ Goto(c, "replied")
          /\ NoFault
       \/ /\ IF IdempotencyHit(c) THEN Fault ELSE NoFault
          /\ Goto(c, "lookup")
          /\ UNCHANGED reply
    /\ UNCHANGED <<res, seen, bg, arrival, redisVars, dbVars, topic, listVars, verdicts,
                   crashes, expiries>>

-----------------------------------------------------------------------------
(* DecisionOrchestratorService.decide *)

CacheKey(c) == Ent(c)

\* A hit on the entity's cache entry is returned as it is, whatever request
\* it was computed for.
Relabelled(c, hit) == [hit EXCEPT !.cached = TRUE, !.req = ReqOf[c]]
FromCache(c, hit) == [hit EXCEPT !.cached = TRUE]

CacheLookup(c) ==
    /\ pc[c] = "lookup"
    /\ \/ /\ cache[CacheKey(c)] # NoResult
          /\ res' = [res EXCEPT ![c] = FromCache(c, cache[CacheKey(c)])]
          /\ Goto(c, "decided")
          /\ NoFault
       \/ /\ IF cache[CacheKey(c)] # NoResult THEN Fault ELSE NoFault
          /\ Goto(c, "watchlist")
          /\ UNCHANGED res
    /\ UNCHANGED <<seen, bg, reply, arrival, redisVars, dbVars, topic, listVars, verdicts,
                   crashes, expiries>>

Evaluated(c, action) ==
    /\ res' = [res EXCEPT ![c] = [req |-> ReqOf[c], action |-> action, cached |-> FALSE]]
    /\ verdicts' = [verdicts EXCEPT ![ReqOf[c]] = @ \union {action}]
    /\ Goto(c, "evaluated")

\* expires_at IS NULL OR expires_at > NOW(): labels never expire a denylist entry.
ExpiringEntries(e) == lists[e] \ {"denylist"}
ActiveEntries(e) == lists[e]

\* checkWatchlist; after 50 ms, or on an error, nothing is listed.
CheckWatchlist(c) ==
    /\ pc[c] = "watchlist"
    /\ \/ /\ seen' = [seen EXCEPT ![c] = ActiveEntries(Ent(c))]
          /\ UNCHANGED arrival
          /\ NoFault
       \/ /\ seen' = [seen EXCEPT ![c] = {}]
          /\ arrival' = [arrival EXCEPT ![c].timedOut = TRUE]
          /\ Fault
    /\ IF "denylist" \in seen'[c]
         THEN Evaluated(c, "BLOCK")
         ELSE Goto(c, "scoring") /\ UNCHANGED <<res, verdicts>>
    /\ UNCHANGED <<bg, reply, redisVars, dbVars, topic, listVars, crashes, expiries>>

\* getPriorDecisionMemory counts the rows saved with an entity type.
PriorDecisions(e, action) ==
    Cardinality({r \in Requests :
        /\ EntityOf[r] = e
        /\ store[r] # NoResult
        /\ store[r].typed
        /\ store[r].action = action})

\* The memory query (zeros when it times out), the signals, the score, the
\* watchlist adjustment, the threshold action and the DSL override.
Score(c) ==
    /\ pc[c] = "scoring"
    /\ \E base \in BaseScores, rules \in Rules, timeout \in BOOLEAN :
         LET prior(a) == IF timeout THEN 0 ELSE PriorDecisions(Ent(c), a)
         IN  /\ IF timeout THEN Fault ELSE NoFault
             /\ Evaluated(c, ScoredAction(base, prior("BLOCK"), prior("REVIEW"), seen[c], rules))
    /\ UNCHANGED <<seen, bg, reply, arrival, redisVars, dbVars, topic, listVars,
                   crashes, expiries>>

\* decisionCache.set is awaited and not caught: an error ends decide(), as a
\* 500 for an HTTP call; handleMessage swallows it.
CacheSet(c) ==
    /\ pc[c] = "evaluated"
    /\ \/ /\ cache' = [cache EXCEPT ![CacheKey(c)] = res[c]]
          /\ Goto(c, "saving")
          /\ NoFault
          /\ UNCHANGED res
       \/ /\ Goto(c, IF c \in Http THEN "failed" ELSE "handled")
          /\ res' = [res EXCEPT ![c] = NoResult]
          /\ Fault
          /\ UNCHANGED cache
    /\ UNCHANGED <<seen, bg, reply, arrival, idem, dbVars, topic, listVars, verdicts,
                   crashes, expiries>>

\* INSERT ... ON CONFLICT (merchant, request) DO NOTHING.
Upsert(r, row) == store' = [store EXCEPT ![r] = row]
Insert(r, row) ==
    store' = [store EXCEPT ![r] = IF @ = NoResult THEN row ELSE @]

\* decisionStore.save with the entity type and before isTest is set, then
\* updateEntityProfile; errors are logged only.
SaveInDecide(c) ==
    /\ pc[c] = "saving"
    /\ LET saved   == Insert(ReqOf[c], [action |-> res[c].action, isTest |-> FALSE, typed |-> TRUE])
           counted == txCount' = [txCount EXCEPT ![Ent(c)] = @ + 1]
       IN  \/ saved /\ counted /\ NoFault
           \/ saved /\ UNCHANGED txCount /\ Fault
           \/ UNCHANGED store /\ counted /\ Fault
    /\ Goto(c, "decided")
    /\ UNCHANGED <<res, seen, bg, reply, arrival, redisVars, topic, listVars, verdicts,
                   crashes, expiries>>

-----------------------------------------------------------------------------
(* What the callers of decide() do with the result *)

\* The promises both callers start and do not await.
PromisesForCases(result) == IF result.action = "ALLOW" THEN {"save"} ELSE {"save", "publish"}
Promises(result) == {"save", "publish"}

\* idempotency.set: serialising a result that came from the entity cache
\* throws (createdAt is a string by then), which is caught.
IdempotencySet(c) ==
    /\ pc[c] = "decided"
    /\ c \in Http
    /\ \/ /\ ~res[c].cached
          /\ idem' = [idem EXCEPT ![res[c].req] = res[c]]
          /\ NoFault
       \/ /\ IF res[c].cached THEN NoFault ELSE Fault
          /\ UNCHANGED idem
    /\ reply' = [reply EXCEPT ![c] = res[c]]
    /\ bg' = [bg EXCEPT ![c] = Promises(res[c])]
    /\ Goto(c, "replied")
    /\ UNCHANGED <<res, seen, arrival, cache, dbVars, topic, listVars, verdicts,
                   crashes, expiries>>

\* handleMessage starts the same two promises and returns.
EventHandled(c) ==
    /\ pc[c] = "decided"
    /\ c \notin Http
    /\ bg' = [bg EXCEPT ![c] = Promises(res[c])]
    /\ Goto(c, "handled")
    /\ UNCHANGED <<res, seen, reply, arrival, redisVars, dbVars, topic, listVars, verdicts, bounds>>

\* The second save: no entity type, and is_test set for an event only.
SaveInBackground(c) ==
    /\ "save" \in bg[c]
    /\ bg' = [bg EXCEPT ![c] = @ \ {"save"}]
    /\ \/ /\ Insert(res[c].req, [action |-> res[c].action,
                                 isTest |-> c \notin Http /\ IsTest[ReqOf[c]],
                                 typed  |-> FALSE])
          /\ NoFault
       \/ UNCHANGED store /\ Fault
    /\ UNCHANGED <<pc, res, seen, reply, arrival, redisVars, txCount, topic, listVars,
                   verdicts, crashes, expiries>>

\* publishDecision: skipped while the producer is not connected, and a send
\* error is logged only.
Publish(c) ==
    /\ "publish" \in bg[c]
    /\ bg' = [bg EXCEPT ![c] = @ \ {"publish"}]
    /\ \/ /\ topic' = topic \union {[req |-> res[c].req, action |-> res[c].action,
                                     isTest |-> IsTest[ReqOf[c]], from |-> c]}
          /\ NoFault
       \/ UNCHANGED topic /\ Fault
    /\ UNCHANGED <<pc, res, seen, reply, arrival, redisVars, dbVars, listVars, verdicts,
                   crashes, expiries>>

\* KafkaJS commits the offset of a handled event; nothing waits for bg.
CommitOffset(c) ==
    /\ pc[c] = "handled"
    /\ Goto(c, "committed")
    /\ UNCHANGED <<res, seen, bg, reply, arrival, redisVars, dbVars, topic, listVars,
                   verdicts, bounds>>

\* The process dies.  An event whose offset is not committed is delivered
\* again; promises in the background are gone.
Crash(c) ==
    /\ crashes < MaxCrashes
    /\ InFlight(c) \/ bg[c] # {}
    /\ crashes' = crashes + 1
    /\ bg' = [bg EXCEPT ![c] = {}]
    /\ IF InFlight(c)
         THEN /\ Goto(c, IF c \in Http THEN "failed" ELSE "new")
              /\ res' = [res EXCEPT ![c] = NoResult]
              /\ seen' = [seen EXCEPT ![c] = {}]
         ELSE UNCHANGED <<pc, res, seen>>
    /\ UNCHANGED <<reply, arrival, redisVars, dbVars, topic, listVars, verdicts, faults, expiries>>

-----------------------------------------------------------------------------
(* Redis expiry and the feedback consumer *)

ExpireCache(e) ==
    /\ cache[e] # NoResult
    /\ expiries < MaxExpiries
    /\ expiries' = expiries + 1
    /\ cache' = [cache EXCEPT ![e] = NoResult]
    /\ UNCHANGED <<callVars, idem, dbVars, topic, listVars, verdicts, faults, crashes>>

ExpireIdempotency(r) ==
    /\ idem[r] # NoResult
    /\ expiries < MaxExpiries
    /\ expiries' = expiries + 1
    /\ idem' = [idem EXCEPT ![r] = NoResult]
    /\ UNCHANGED <<callVars, cache, dbVars, topic, listVars, verdicts, faults, crashes>>

Label == Labels[fb.next]
HasLabel == fb.next <= Len(Labels)
NextLabel == fb' = [next |-> fb.next + 1, step |-> 1]
ListsBecome(l) == lists' = [lists EXCEPT ![Label.ent] = l]

\* handleFraudLabel: the denylist upsert (the profile update that follows
\* touches nothing a decision reads).
FraudLabel ==
    /\ HasLabel /\ Label.resolution = "FRAUD"
    /\ ListsBecome(lists[Label.ent] \union {"denylist"})
    /\ NextLabel
    /\ UNCHANGED <<callVars, redisVars, dbVars, topic, verdicts, bounds>>

\* handleLegitimateLabel: two statements, not in one transaction.
LegitimateLabel ==
    /\ HasLabel /\ Label.resolution = "LEGITIMATE"
    /\ \/ /\ fb.step = 1
          /\ ListsBecome(lists[Label.ent] \ {"denylist"})
          /\ fb' = [fb EXCEPT !.step = 2]
       \/ /\ fb.step = 2
          /\ ListsBecome(lists[Label.ent] \union {"allowlist"})
          /\ NextLabel
    /\ UNCHANGED <<callVars, redisVars, dbVars, topic, verdicts, bounds>>

\* An inconclusive label, or one whose next statement fails: the error is
\* swallowed and the label is done with.
SkipLabel ==
    /\ HasLabel
    /\ IF Label.resolution = "INCONCLUSIVE" THEN NoFault ELSE Fault
    /\ NextLabel
    /\ UNCHANGED <<callVars, redisVars, dbVars, topic, lists, verdicts, crashes, expiries>>

-----------------------------------------------------------------------------
CallStep(c) ==
    \/ Arrive(c) \/ IdempotencyGet(c) \/ CacheLookup(c) \/ CheckWatchlist(c) \/ Score(c)
    \/ CacheSet(c) \/ SaveInDecide(c) \/ IdempotencySet(c) \/ EventHandled(c)
    \/ CommitOffset(c)

Feedback == FraudLabel \/ LegitimateLabel \/ SkipLabel

Next ==
    \/ \E c \in Calls : CallStep(c) \/ SaveInBackground(c) \/ Publish(c) \/ Crash(c)
    \/ \E e \in Entities : ExpireCache(e)
    \/ \E r \in Requests : ExpireIdempotency(r)
    \/ Feedback

Spec == Init /\ [][Next]_vars

\* Awaited calls settle (every one has a timeout or an error path), promises
\* run to their end while the process lives, and Kafka redelivers.
FairSpec ==
    /\ Spec
    /\ \A c \in Calls : WF_vars(CallStep(c)) /\ WF_vars(SaveInBackground(c)) /\ WF_vars(Publish(c))
-----------------------------------------------------------------------------
(* Properties *)

TypeOK ==
    /\ pc \in [Calls -> {"new", "idempotency", "lookup", "watchlist", "scoring", "evaluated",
                          "saving", "decided", "replied", "handled", "committed", "failed"}]
    /\ res \in [Calls -> Result \union {NoResult}]
    /\ seen \in [Calls -> SUBSET ListTypes]
    /\ bg \in [Calls -> SUBSET {"save", "publish"}]
    /\ reply \in [Calls -> Result \union {NoResult}]
    /\ arrival \in [Calls -> [denied : BOOLEAN, settled : Result \union {NoResult},
                               timedOut : BOOLEAN]]
    /\ idem \in [Requests -> Result \union {NoResult}]
    /\ cache \in [Entities -> Result \union {NoResult}]
    /\ store \in [Requests -> Row \union {NoResult}]
    /\ txCount \in [Entities -> Nat]
    /\ topic \in SUBSET [req : Requests, action : Actions, isTest : BOOLEAN, from : Calls]
    /\ lists \in [Entities -> SUBSET ListTypes]
    /\ fb \in [next : Nat \ {0}, step : {1, 2}]
    /\ verdicts \in [Requests -> SUBSET Actions]
    /\ faults \in Nat /\ crashes \in Nat /\ expiries \in Nat

\* A result carries an action that decide() computed for the request it names.
Genuine(result) == result # NoResult => result.action \in verdicts[result.req]

\* Whatever is stored, published, cached or answered for a request id is an
\* action that decide() computed for that very request id, however calls
\* interleave, fail and are retried: a result taken from the entity cache
\* keeps the id it was computed for (decision-orchestrator.service.ts:151).
NoInventedVerdict ==
    /\ \A r \in Requests : store[r] # NoResult => store[r].action \in verdicts[r]
    /\ \A m \in topic : m.action \in verdicts[m.req]
    /\ \A r \in Requests : Genuine(idem[r])
    /\ \A e \in Entities : Genuine(cache[e])
    /\ \A c \in Calls : Genuine(res[c]) /\ Genuine(reply[c])

\* A verdict never reaches a call about another entity: through either Redis
\* key, a call only sees results about the entity of its own request.
OwnEntity ==
    \A c \in Calls :
        /\ res[c] # NoResult => EntityOf[res[c].req] = Ent(c)
        /\ reply[c] # NoResult => EntityOf[reply[c].req] = Ent(c)

\* The first saved verdict of a request is final: the second save of the
\* same call, a concurrent call and a redelivery all leave the row alone
\* (decision-store.service.ts:68).
FirstVerdictIsFinal ==
    [][\A r \in Requests : store[r] # NoResult => store'[r] = store[r]]_store

\* A LEGITIMATE label has at least started to take the denylist entry away.
Cleared ==
    \E i \in DOMAIN Labels :
        /\ Labels[i].resolution = "LEGITIMATE"
        /\ i < fb.next \/ (i = fb.next /\ fb.step = 2)

\* A call that arrives after the denylist upsert, is evaluated (not answered
\* from the entity cache) and gets its watchlist check answered in time is
\* a BLOCK, whatever the signals and rules say, unless a label has cleared it.
DeniedIsBlocked ==
    \A c \in Calls :
        (/\ arrival[c].denied /\ ~arrival[c].timedOut
         /\ res[c] # NoResult /\ ~res[c].cached /\ ~Cleared)
        => res[c].action = "BLOCK"

\* A retry that arrives when no other call of its request is running and a
\* verdict is recorded for it gets that verdict and is not published again,
\* as long as Redis answers and keeps the key.
RetryGetsRecordedVerdict ==
    \A c \in Http :
        (/\ arrival[c].settled # NoResult /\ pc[c] \notin {"new", "idempotency"}
         /\ faults = 0 /\ expiries = 0 /\ crashes = 0)
        => /\ reply[c] = [arrival[c].settled EXCEPT !.cached = TRUE]
           /\ \A m \in topic : m.from # c

\* The verdict in hand of c is stored and published.
KnownToAll(c) ==
    /\ res[c] # NoResult
    /\ \E m \in topic : m.req = res[c].req /\ m.action = res[c].action
    /\ store[res[c].req] # NoResult

\* Without a fault or a crash the verdict of every decided call reaches both
\* the decisions table and the decisions topic.
UndisturbedVerdictReachesAll ==
    \A c \in Calls : (pc[c] = "decided") ~> (KnownToAll(c) \/ faults + crashes > 0)

-----------------------------------------------------------------------------
(* Statements of the documentation that the code does not meet *)

\* decision.controller.ts:48 documents the request id as "Idempotency key —
\* identical requestIds return cached results": two answered HTTP calls with
\* one request id have one verdict.
IdenticalRequestsSameVerdict ==
    \A c, d \in Http :
        (ReqOf[c] = ReqOf[d] /\ reply[c] # NoResult /\ reply[d] # NoResult)
        => reply[c].action = reply[d].action

\* docs/claude/decision-log.md:187: "analyst FRAUD label -> denylist -> next
\* event BLOCK" (a call that arrives after the upsert and whose check is
\* answered in time).
NextEventIsBlocked ==
    \A c \in Calls :
        (arrival[c].denied /\ ~arrival[c].timedOut /\ res[c] # NoResult)
        => res[c].action = "BLOCK"
=============================================================================
