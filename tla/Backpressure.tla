----------------------------- MODULE Backpressure -----------------------------
(***************************************************************************)
(* event-collector: what decides whether a request may enter.  A poll reads *)
(* the lag of the decision-engine group; the rate adjuster turns it into a  *)
(* multiplier (in thousandths); a sliding window counts requests; and a     *)
(* token bucket per merchant keeps merchants apart, here that of one        *)
(* merchant.  A tick is the interval of both the poll and the adjuster, 5 s. *)
(***************************************************************************)
EXTENDS Integers, Sequences, FiniteSets

CONSTANTS
    LagValues,              \* values the lag of the group takes
    lagWarningThreshold, lagCriticalThreshold,
    minRateMultiplier,      \* 100 of 1000
    SustainedTicks,         \* ticks in 30 s of pressure
    MaxPolls,               \* bound on polls under way
    maxQueueDepth, windowTicks,
    defaultRate, defaultBurst, staleBucketTicks,
    MaxBatch,               \* bound on the events of a request
    MaxClock, MaxEntered    \* bounds: the clock, requests recorded

ASSUME LagAssumption ==
    /\ LagValues \subseteq Nat /\ 0 \in LagValues
    /\ {lagWarningThreshold, lagCriticalThreshold} \subseteq Nat
    /\ lagWarningThreshold <= lagCriticalThreshold
    /\ minRateMultiplier \in 10 .. 999 /\ SustainedTicks \in Nat
ASSUME FairnessAssumption ==
    /\ {defaultRate, defaultBurst, staleBucketTicks, maxQueueDepth} \subseteq Nat \ {0} /\ MaxBatch \in Nat
    /\ defaultBurst <= staleBucketTicks * defaultRate      \* 2000 <= 300 * 1000

VARIABLES
    concern,        \* which half moves: "lag" (adjuster) or "load" (window and bucket)
    groupLag,       \* the lag of the consumer group
    polls,          \* set of [answer, late]: answers the broker gave and nobody stored yet
    consumerLag,    \* the last known lag
    rate,           \* rateMultiplier in thousandths
    pressure,       \* 0, or ticks since pressureStartedAt (at most SustainedTicks)
    reason,         \* adjustmentReason
    tick,
    timestamps,     \* requestTimestamps
    merchantBucket, \* [tokens, lastRefill] or <<>>: no bucket
    entered         \* batches charged to the bucket, each with the events before and after it (history)

lagVars == <<groupLag, polls, consumerLag, rate, pressure, reason>>
loadVars == <<tick, timestamps, merchantBucket, entered>>
pressureVars == <<concern, lagVars, loadVars>>

BpInit ==
    /\ concern \in {"lag", "load"}
    /\ groupLag = 0 /\ polls = {} /\ consumerLag = 0
    /\ rate = 1000 /\ pressure = 0 /\ reason = "nominal"
    /\ tick = 0 /\ timestamps = <<>> /\ merchantBucket = <<>> /\ entered = <<>>

Most(a, b) == IF a > b THEN a ELSE b
Fewest(a, b) == IF a < b THEN a ELSE b

-----------------------------------------------------------------------------
(* KafkaService: polls of the lag *)

\* The group falls behind or catches up.
LagMoves ==
    /\ concern = "lag"
    /\ \E lag \in LagValues \ {groupLag} : groupLag' = lag
    /\ UNCHANGED <<concern, polls, consumerLag, rate, pressure, reason, loadVars>>

\* pollLagInternal has read the offsets; 0 when the group does not exist yet
\* or its offsets cannot be read.
PollLag ==
    /\ concern = "lag" /\ Cardinality(polls) < MaxPolls
    /\ \E answer \in {groupLag, 0} : polls' = polls \union {answer}
    /\ UNCHANGED <<concern, groupLag, consumerLag, rate, pressure, reason, loadVars>>

\* A poll that lost the race with its timeout goes on: it stores its answer
\* after later polls have stored theirs.
HighestLag(answer) == Most(consumerLag, answer)
NewestLag(answer) == answer

StoreLag(answer) ==
    /\ answer \in polls
    /\ polls' = polls \ {answer}
    /\ consumerLag' = NewestLag(answer)
    /\ UNCHANGED <<concern, groupLag, rate, pressure, reason, loadVars>>

\* fetchTopicOffsets is rejected: the last known lag stays.
PollFails(answer) ==
    /\ answer \in polls
    /\ polls' = polls \ {answer}
    /\ UNCHANGED <<concern, groupLag, consumerLag, rate, pressure, reason, loadVars>>

-----------------------------------------------------------------------------
(* RateAdjusterService.evaluate, once per tick.  No caller records latencies: *)
(* the trend is always stable.                                               *)

Reduced(percent) == Most(minRateMultiplier, (rate * percent) \div 100)

\* Pressure that is no longer new reduces by 0.8 * 0.8.
applyPressure ==
    /\ pressure' = Fewest(SustainedTicks, pressure + 1)
    /\ IF pressure >= SustainedTicks
         THEN rate' = Reduced(64) /\ reason' = "sustained_pressure"
         ELSE rate' = Reduced(80) /\ reason' = "high_consumer_lag"

\* Between the thresholds: a slow reduction; the pressure's start is kept.
Hold ==
    /\ rate' = Reduced(95) /\ reason' = "high_consumer_lag"
    /\ pressure' = IF pressure = 0 THEN 0 ELSE Fewest(SustainedTicks, pressure + 1)

Restored == Fewest(1000, (rate * 11) \div 10)
applyRecovery ==
    /\ rate' = Restored
    /\ IF Restored = 1000
         THEN reason' = "nominal" /\ pressure' = 0
         ELSE /\ reason' = "recovery"
              /\ pressure' = IF pressure = 0 THEN 0 ELSE Fewest(SustainedTicks, pressure + 1)

Adjust ==
    \/ consumerLag >= lagCriticalThreshold /\ applyPressure
    \/ consumerLag >= lagWarningThreshold /\ consumerLag < lagCriticalThreshold /\ Hold
    \/ consumerLag < lagWarningThreshold /\ applyRecovery

Evaluate ==
    /\ concern = "lag"
    /\ Adjust
    /\ UNCHANGED <<concern, groupLag, polls, consumerLag, loadVars>>

isAccepting == rate > minRateMultiplier

-----------------------------------------------------------------------------
(* BackpressureService and FairnessService *)

\* pruneWindow shifts what is old from the head, up to the first that is not.
IsOld(i) == timestamps[i] + windowTicks < tick
Shifts(n) == (\A i \in 1 .. n : IsOld(i)) /\ (n < Len(timestamps) => ~IsOld(n + 1))
Pruned(n) == SubSeq(timestamps, n + 1, Len(timestamps))
isOverloaded(queue) == Len(queue) >= maxQueueDepth

FreshBucket == [tokens |-> defaultBurst, lastRefill |-> tick]
refill(b) ==
    [tokens     |-> Fewest(defaultBurst, b.tokens + (tick - b.lastRefill) * defaultRate),
     lastRefill |-> tick]
Bucket == IF merchantBucket = <<>> THEN FreshBucket ELSE refill(merchantBucket[1])

\* The events charged so far.
Total == IF entered = <<>> THEN 0 ELSE entered[Len(entered)].after

\* A refused batch costs no tokens.
tryConsume(events) ==
    IF Bucket.tokens >= events
      THEN /\ merchantBucket' = <<[Bucket EXCEPT !.tokens = @ - events]>>
           /\ entered' = Append(entered, [tick |-> tick, before |-> Total, after |-> Total + events])
      ELSE merchantBucket' = <<Bucket>> /\ UNCHANGED entered

\* tryAcquire, then tryConsume: a request the bucket refuses stays in the
\* window.  The guard looks at the first event alone: when that is the
\* merchant's (leads) the whole batch is charged to it; when it names another
\* merchant or none, nothing is, whatever of the merchant's comes after it.
Enter(events, leads) ==
    /\ concern = "load" /\ Len(entered) < MaxEntered
    /\ \E n \in 0 .. Len(timestamps) :
          /\ Shifts(n)
          /\ IF isOverloaded(Pruned(n))
               THEN timestamps' = Pruned(n) /\ UNCHANGED <<merchantBucket, entered>>
               ELSE /\ timestamps' = Append(Pruned(n), tick)
                    /\ IF leads THEN tryConsume(events) ELSE UNCHANGED <<merchantBucket, entered>>
    /\ UNCHANGED <<concern, lagVars, tick>>

IsRefilling(b) == b.lastRefill < tick
IsStale(b) == b.lastRefill + staleBucketTicks < tick

\* The cleanup forgets a bucket nobody used for a while: it comes back full.
CleanupStaleBuckets ==
    /\ concern = "load" /\ merchantBucket # <<>> /\ IsStale(merchantBucket[1])
    /\ merchantBucket' = <<>>
    /\ UNCHANGED <<concern, lagVars, tick, timestamps, entered>>

PassTick ==
    /\ concern = "load" /\ tick < MaxClock
    /\ tick' = tick + 1
    /\ UNCHANGED <<concern, lagVars, timestamps, merchantBucket, entered>>

-----------------------------------------------------------------------------
BpNext ==
    \/ LagMoves \/ PollLag \/ Evaluate
    \/ \E answer \in polls : StoreLag(answer) \/ PollFails(answer)
    \/ \E events \in 1 .. MaxBatch, leads \in BOOLEAN : Enter(events, leads)
    \/ CleanupStaleBuckets \/ PassTick

\* Two intervals, and polls that keep being answered.
BpFairness ==
    /\ WF_pressureVars(Evaluate) /\ WF_pressureVars(PollLag)
    /\ \A answer \in LagValues : SF_pressureVars(StoreLag(answer))
BpSpec == BpInit /\ [][BpNext]_pressureVars /\ BpFairness
-----------------------------------------------------------------------------
(* Properties *)

BpTypeOK ==
    /\ concern \in {"lag", "load"} /\ groupLag \in LagValues
    /\ polls \subseteq LagValues /\ consumerLag \in LagValues
    /\ rate \in minRateMultiplier .. 1000 /\ pressure \in 0 .. SustainedTicks
    /\ reason \in {"nominal", "recovery", "high_consumer_lag", "sustained_pressure"}
    /\ Len(timestamps) <= maxQueueDepth
    /\ merchantBucket # <<>> => merchantBucket[1].tokens \in 0 .. defaultBurst

\* When the lag is low for good, the collector accepts everything again for
\* good: no floor, stale answer or length of pressure keeps the rate down.
RateRecovers == <>[](groupLag < lagWarningThreshold) => <>[](rate = 1000)

\* Over every stretch of time the batches that begin with an event of the
\* merchant bring in no more events than its burst and its rate for that
\* time, through refusals, requests that cost it nothing and forgotten
\* buckets.  (Not so the merchant's events in batches that begin with another
\* merchant's event, or with one that names none: no bucket counts them for it.)
ChargedShareIsBounded ==
    \A i, j \in DOMAIN entered :
        i <= j => entered[j].after - entered[i].before
                      <= defaultBurst + (entered[j].tick - entered[i].tick) * defaultRate
=============================================================================
