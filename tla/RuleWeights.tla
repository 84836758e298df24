------------------------------ MODULE RuleWeights ------------------------------
(***************************************************************************)
(* rule-engine-service: chargebacks move the weights of the rules that      *)
(* fired.  A chargeback comes from the topic, one at a time, or by HTTP,    *)
(* several at once.  The weights are in Redis (hundredths here), the audit  *)
(* rows in PostgreSQL.                                                      *)
(***************************************************************************)
EXTENDS Integers, Sequences, FiniteSets

CONSTANTS
    RuleIds,
    Chargebacks,    \* [firedRuleIds, outcome]
    Consumer,       \* the task of the consumer
    Clients,        \* the tasks of POST /v1/chargebacks
    TopicLength,    \* bound: messages of the topic
    MaxPosts,       \* bound: chargebacks by HTTP
    MaxFaults       \* bound: failed calls and crashes

ASSUME WeightsAssumption ==
    /\ {TopicLength, MaxPosts, MaxFaults} \subseteq Nat /\ Consumer \notin Clients
    /\ \A event \in Chargebacks : event.firedRuleIds \in Seq(RuleIds)

VARIABLES
    weight,         \* Redis: rule:weight:* (absent: no key)
    audit,          \* the rows of rule_weight_audit
    topic, offset,  \* chargebacks written and the next one to hand over
    work,           \* each task's chargeback and how far it is
    posts, faults, auditClock,
    unexplained     \* rules with two adjustments at once, or a failed one (history)

weightVars == <<weight, audit, topic, offset, work, posts, faults, auditClock, unexplained>>

Absent == 0
DEFAULT_WEIGHT == 100
MIN_WEIGHT == 10
MAX_WEIGHT == 100
Delta(outcome) == IF outcome = "fraud_confirmed" THEN 5 ELSE -3
Clamped(w) == IF w > MAX_WEIGHT THEN MAX_WEIGHT ELSE IF w < MIN_WEIGHT THEN MIN_WEIGHT ELSE w

Tasks == {Consumer} \union Clients
Idle == [step |-> "idle", event |-> <<>>, next |-> 1, old |-> 0, adjustments |-> <<>>]
Begun(event) == [step |-> "get", event |-> event, next |-> 1, old |-> 0, adjustments |-> <<>>]
RuleAt(t) == work[t].event.firedRuleIds[work[t].next]
IsBetween(t, rule) == work[t].step = "set" /\ RuleAt(t) = rule

WeightInit ==
    /\ weight = [r \in RuleIds |-> Absent] /\ audit = {}
    /\ topic \in [1..TopicLength -> Chargebacks] /\ offset = 1
    /\ work = [t \in Tasks |-> Idle]
    /\ posts = 0 /\ faults = 0 /\ auditClock = 0 /\ unexplained = {}

\* After the last rule the audit rows follow; a chargeback without rules is done.
StepFor(event, next) == IF next \in DOMAIN event.firedRuleIds THEN "get" ELSE "audit"

handleMessage ==
    /\ work[Consumer].step = "idle" /\ offset \in DOMAIN topic
    /\ work' = [work EXCEPT ![Consumer] = [Begun(topic[offset]) EXCEPT !.step = StepFor(topic[offset], 1)]]
    /\ UNCHANGED <<weight, audit, topic, offset, posts, faults, auditClock, unexplained>>

submitChargeback(t, event) ==
    /\ work[t].step = "idle" /\ posts < MaxPosts
    /\ posts' = posts + 1
    /\ work' = [work EXCEPT ![t] = [Begun(event) EXCEPT !.step = StepFor(event, 1)]]
    /\ UNCHANGED <<weight, audit, topic, offset, faults, auditClock, unexplained>>

DefaultWeight(stored) == DEFAULT_WEIGHT
getWeight(stored) == IF stored = Absent THEN DEFAULT_WEIGHT ELSE stored

ReadWeight(t) ==
    /\ work[t].step = "get"
    /\ work' = [work EXCEPT ![t].step = "set", ![t].old = getWeight(weight[RuleAt(t)])]
    /\ unexplained' = unexplained \union
           {r \in {RuleAt(t)} : \E other \in Tasks \ {t} : IsBetween(other, r)}
    /\ UNCHANGED <<weight, audit, topic, offset, posts, faults, auditClock>>

NewWeight(t) == Clamped(work[t].old + Delta(work[t].event.outcome))

\* adjustWeight: SET of a value that depends on the earlier GET.
adjustWeight(t) ==
    /\ work[t].step = "set"
    /\ weight' = [weight EXCEPT ![RuleAt(t)] = NewWeight(t)]
    /\ LET adjustment == [ruleId |-> RuleAt(t), oldWeight |-> work[t].old, newWeight |-> NewWeight(t),
                          timestamp |-> auditClock]
       IN  work' = [work EXCEPT ![t].step = StepFor(work[t].event, work[t].next + 1),
                                ![t].next = @ + 1,
                                ![t].adjustments = Append(@, adjustment)]
    /\ auditClock' = auditClock + 1
    /\ UNCHANGED <<audit, topic, offset, posts, faults, unexplained>>

\* The message is done (its offset moves on) or the request is answered.
Done(t) ==
    /\ work' = [work EXCEPT ![t] = Idle]
    /\ offset' = IF t = Consumer THEN offset + 1 ELSE offset

logAdjustment(t) ==
    /\ work[t].step = "audit" /\ work[t].adjustments # <<>>
    /\ audit' = audit \union {Head(work[t].adjustments)}
    /\ work' = [work EXCEPT ![t].adjustments = Tail(@)]
    /\ UNCHANGED <<weight, topic, offset, posts, faults, auditClock, unexplained>>

EndChargeback(t) ==
    /\ work[t].step = "audit" /\ work[t].adjustments = <<>>
    /\ Done(t)
    /\ UNCHANGED <<weight, audit, topic, posts, faults, auditClock, unexplained>>

Fault == faults < MaxFaults /\ faults' = faults + 1
Adjusted(t) == {work[t].adjustments[i].ruleId : i \in DOMAIN work[t].adjustments}

\* A failed audit row is logged and the next one follows.
AuditFails(t) ==
    /\ Fault /\ work[t].step = "audit" /\ work[t].adjustments # <<>>
    /\ unexplained' = unexplained \union {Head(work[t].adjustments).ruleId}
    /\ work' = [work EXCEPT ![t].adjustments = Tail(@)]
    /\ UNCHANGED <<weight, audit, topic, offset, posts, auditClock>>

\* A failed GET or SET ends the chargeback: the rules adjusted before keep
\* their new weights and get no audit rows; a failed SET may have been done.
RedisFails(t) ==
    /\ Fault /\ work[t].step \in {"get", "set"}
    /\ unexplained' = unexplained \union Adjusted(t) \union {RuleAt(t)}
    /\ \/ UNCHANGED weight
       \/ work[t].step = "set" /\ weight' = [weight EXCEPT ![RuleAt(t)] = NewWeight(t)]
    /\ Done(t)
    /\ UNCHANGED <<audit, topic, posts, auditClock>>

\* The message in work is handed over again after the restart.
CrashWeights ==
    /\ Fault
    /\ unexplained' = unexplained \union UNION {Adjusted(t) : t \in Tasks}
    /\ work' = [t \in Tasks |-> Idle]
    /\ UNCHANGED <<weight, audit, topic, offset, posts, auditClock>>

TaskStep(t) == ReadWeight(t) \/ adjustWeight(t) \/ logAdjustment(t) \/ EndChargeback(t)

WeightNext ==
    \/ handleMessage \/ CrashWeights
    \/ \E t \in Clients, event \in Chargebacks : submitChargeback(t, event)
    \/ \E t \in Tasks : TaskStep(t) \/ AuditFails(t) \/ RedisFails(t)

WeightSpec == WeightInit /\ [][WeightNext]_weightVars

WeightTypeOK ==
    /\ weight \in [RuleIds -> {Absent} \union (MIN_WEIGHT..MAX_WEIGHT)]
    /\ offset \in 1..(TopicLength + 1) /\ posts \in 0..MaxPosts /\ faults \in 0..MaxFaults
    /\ \A t \in Tasks : work[t].step \in {"idle", "get", "set", "audit"}
    /\ unexplained \subseteq RuleIds

\* The rows of a rule, and the one after another in the order of their
\* timestamps (getAuditLog).
RowsOf(rule) == {row \in audit : row.ruleId = rule}
Follows(row, other, rows) ==
    /\ row.timestamp < other.timestamp
    /\ \A third \in rows : third.timestamp <= row.timestamp \/ third.timestamp >= other.timestamp
Leads(rows, from, to) ==
    /\ rows = {} => from = to
    /\ \A row \in rows :
          /\ (\A other \in rows : row.timestamp <= other.timestamp) => row.oldWeight = from
          /\ (\A other \in rows : other.timestamp <= row.timestamp) => row.newWeight = to
          /\ \A other \in rows : Follows(row, other, rows) => other.oldWeight = row.newWeight

\* Between chargebacks the rows of a rule lead from the default weight to the
\* weight in Redis, unless two adjustments of that rule overlapped or a call
\* failed: each row's old weight is the new weight of the row before
\* (weight-audit.service.ts:35, rule-weight-adjustment.service.ts:60).
AuditExplainsWeight ==
    \A r \in RuleIds \ unexplained :
        (\A t \in Tasks : r \notin Adjusted(t)) =>
            Leads(RowsOf(r), DEFAULT_WEIGHT, IF weight[r] = Absent THEN DEFAULT_WEIGHT ELSE weight[r])
=============================================================================
