------------------------------- MODULE Webhooks -------------------------------
(***************************************************************************)
(* webhook-service: the consumer of the decisions topic and the SLA breach  *)
(* endpoint that case-service calls deliver to the URL a merchant           *)
(* configured in Redis.  The messages of the partition are delivered one    *)
(* after the other, alerts are HTTP calls that run at the same time.  One   *)
(* merchant; the URL of a configuration stands for URL and secret.          *)
(***************************************************************************)
EXTENDS Naturals, Sequences

CONSTANTS
    Messages,       \* the decisions partition: [action, isTest]
    Alerts,         \* calls of POST /internal/sla-breach
    Urls,           \* configurations a merchant may store
    NoConfig,
    MaxChanges,     \* bound: stored, deleted and expired configurations
    MaxFaults,      \* bound: errors of Redis
    MaxCrashes      \* bound: crashes of the service

Attempts == 3
Deliveries == DOMAIN Messages \union Alerts

ASSUME MessagesAssumption ==
    Messages \in Seq([action : {"ALLOW", "REVIEW", "BLOCK", "INVALID"}, isTest : BOOLEAN])
ASSUME NamesAssumption == NoConfig \notin Urls /\ Alerts \intersect Nat = {}

VARIABLES
    config,         \* Redis webhook:{merchant}
    job,            \* [Deliveries -> the delivery under way]
    taken,          \* messages the running consumer has taken up
    handled,        \* messages it has handled
    committed,      \* the group's committed offset
    reply,          \* [Alerts -> what the SLA call was answered]
    receipts,       \* [Deliveries -> requests the merchant's endpoint got]
    heard,          \* history: messages in the order of their first receipt
    acked,          \* deliveries an endpoint answered with 2xx in time
    dlq,            \* Redis list webhook:dlq
    unserved,       \* history: messages taken up without a configuration
    changes, faults, crashes

consumerVars == <<taken, handled, committed>>
vars == <<config, job, consumerVars, reply, receipts, heard, acked, dlq, unserved, changes, faults, crashes>>

Idle == [url |-> NoConfig, attempt |-> 0]
Active(j) == job[j] # Idle
Fault == faults < MaxFaults /\ faults' = faults + 1
NoFault == faults' = faults

Init ==
    /\ config \in Urls \union {NoConfig}
    /\ job = [j \in Deliveries |-> Idle]
    /\ taken = 0 /\ handled = 0 /\ committed = 0
    /\ reply = [a \in Alerts |-> "none"]
    /\ receipts = [j \in Deliveries |-> 0] /\ heard = <<>>
    /\ acked = {} /\ dlq = {} /\ unserved = {}
    /\ changes = 0 /\ faults = 0 /\ crashes = 0

-----------------------------------------------------------------------------
(* WebhookConfigService *)

\* setWebhookConfig, deleteWebhookConfig, or the key's 30 days are over.
ChangeConfig ==
    /\ changes < MaxChanges
    /\ changes' = changes + 1
    /\ \E c \in (Urls \union {NoConfig}) \ {config} : config' = c
    /\ UNCHANGED <<job, consumerVars, reply, receipts, heard, acked, dlq, unserved, faults, crashes>>

-----------------------------------------------------------------------------
(* WebhookDeliveryService.deliver *)

BeginAtZero(j) == job' = [job EXCEPT ![j] = [url |-> config, attempt |-> 0]]
Begin(j) == job' = [job EXCEPT ![j] = [url |-> config, attempt |-> 1]]

\* eachMessage waits for the delivery; an alert answers its caller.
Done(j) ==
    /\ job' = [job EXCEPT ![j] = Idle]
    /\ IF j \in Alerts
         THEN reply' = [reply EXCEPT ![j] = "delivered"] /\ UNCHANGED handled
         ELSE handled' = j /\ UNCHANGED reply

MayAttempt(j) == job[j].attempt <= Attempts

Receive(j) ==
    /\ receipts' = [receipts EXCEPT ![j] = @ + 1]
    /\ heard' = IF j \in DOMAIN Messages /\ receipts[j] = 0 THEN Append(heard, j) ELSE heard

\* The endpoint answers 2xx; or it answers otherwise or too late; or the
\* request never gets there.
Attempt(j) ==
    /\ Active(j) /\ MayAttempt(j)
    /\ \/ Receive(j) /\ acked' = acked \union {j} /\ Done(j)
       \/ /\ Receive(j) \/ UNCHANGED <<receipts, heard>>
          /\ job' = [job EXCEPT ![j].attempt = @ + 1]
          /\ UNCHANGED <<acked, handled, reply>>
    /\ UNCHANGED <<config, taken, committed, dlq, unserved, changes, faults, crashes>>

\* sendToDlq; an error of Redis is logged only.
SendToDlq(j) ==
    /\ Active(j) /\ ~MayAttempt(j)
    /\ \/ dlq' = dlq \union {j} /\ NoFault
       \/ UNCHANGED dlq /\ Fault
    /\ Done(j)
    /\ UNCHANGED <<config, taken, committed, receipts, heard, acked, unserved, changes, crashes>>

-----------------------------------------------------------------------------
(* DecisionConsumerService *)

Worth(d) == ~d.isTest /\ d.action \in {"BLOCK", "REVIEW"}

AlwaysFree == TRUE
ConsumerFree == taken = handled

\* A message that is no use, has no configuration or whose configuration
\* cannot be read is dropped.
TakeMessage ==
    /\ ConsumerFree
    /\ taken < Len(Messages)
    /\ taken' = taken + 1
    /\ \/ /\ Worth(Messages[taken']) /\ config # NoConfig
          /\ Begin(taken') /\ NoFault
          /\ UNCHANGED <<handled, unserved>>
       \/ /\ ~Worth(Messages[taken']) \/ config = NoConfig
          /\ handled' = taken' /\ NoFault
          /\ unserved' = unserved \union {taken'}
          /\ UNCHANGED job
       \/ /\ Worth(Messages[taken'])
          /\ handled' = taken' /\ Fault
          /\ UNCHANGED <<job, unserved>>
    /\ UNCHANGED <<config, committed, reply, receipts, heard, acked, dlq, changes, crashes>>

CommitTaken == committed' = taken
CommitHandled == committed' = handled

CommitOffset ==
    /\ CommitHandled
    /\ committed < committed'
    /\ UNCHANGED <<config, job, taken, handled, reply, receipts, heard, acked, dlq, unserved, changes,
                   faults, crashes>>

\* What the process had under way is gone; messages come back.
Crash ==
    /\ crashes < MaxCrashes
    /\ crashes' = crashes + 1
    /\ job' = [j \in Deliveries |-> Idle]
    /\ taken' = committed /\ handled' = committed
    /\ reply' = [a \in Alerts |-> IF Active(a) THEN "failed" ELSE reply[a]]
    /\ UNCHANGED <<config, committed, receipts, heard, acked, dlq, unserved, changes, faults>>

-----------------------------------------------------------------------------
(* SlaBreachController *)

TakeAlert(a) ==
    /\ reply[a] = "none" /\ ~Active(a)
    /\ \/ config # NoConfig /\ Begin(a) /\ NoFault /\ UNCHANGED reply
       \/ config = NoConfig /\ reply' = [reply EXCEPT ![a] = "undelivered"] /\ NoFault /\ UNCHANGED job
       \/ Fault /\ reply' = [reply EXCEPT ![a] = "failed"] /\ UNCHANGED job
    /\ UNCHANGED <<config, consumerVars, receipts, heard, acked, dlq, unserved, changes, crashes>>

-----------------------------------------------------------------------------
Deliver(j) == Attempt(j) \/ SendToDlq(j)

Next ==
    \/ ChangeConfig \/ TakeMessage \/ CommitOffset \/ Crash
    \/ \E j \in Deliveries : Deliver(j)
    \/ \E a \in Alerts : TakeAlert(a)

Spec == Init /\ [][Next]_vars

\* Every request ends within its 5 s and every pause ends; KafkaJS polls and
\* commits.
FairSpec ==
    /\ Spec
    /\ WF_vars(TakeMessage) /\ WF_vars(CommitOffset)
    /\ \A j \in Deliveries : WF_vars(Deliver(j))
-----------------------------------------------------------------------------
(* Properties *)

TypeOK ==
    /\ config \in Urls \union {NoConfig}
    /\ job \in [Deliveries -> [url : Urls \union {NoConfig}, attempt : 0 .. Attempts + 1]]
    /\ committed \in 0 .. handled /\ handled \in 0 .. taken /\ taken \in 0 .. Len(Messages)
    /\ reply \in [Alerts -> {"none", "delivered", "undelivered", "failed"}]
    /\ receipts \in [Deliveries -> Nat] /\ heard \in Seq(DOMAIN Messages)
    /\ acked \subseteq Deliveries /\ dlq \subseteq Deliveries /\ unserved \subseteq DOMAIN Messages
    /\ changes \in Nat /\ faults \in Nat /\ crashes \in Nat

\* A merchant gets a delivery at most three times in a life of the service,
\* an alert at most three times at all.
ReceiptsPerLife ==
    \A j \in Deliveries :
        receipts[j] <= Attempts * (IF j \in Alerts THEN 1 ELSE 1 + crashes)

\* Until the service crashes a merchant first hears of its decisions in the
\* order of the topic, however long one of them is retried.
ReceiptsInOrder ==
    crashes = 0 => \A m, n \in DOMAIN heard : m < n => heard[m] < heard[n]

\* A risky production decision reaches the merchant or the dead-letter list,
\* across crashes, unless there was no configuration or Redis failed.
RiskyDecisionsAreNotified ==
    \A i \in DOMAIN Messages :
        Worth(Messages[i]) => <>(i \in acked \union dlq \union unserved \/ faults > 0)
=============================================================================
