----------------------------- MODULE WebhooksProofs -----------------------------
(***************************************************************************)
(* Safety of the webhook deliveries for any messages, alerts, URLs, faults, *)
(* changes of the configuration and crashes.                                *)
(***************************************************************************)
EXTENDS Webhooks, TLAPS

\* One message at a time is under way, the one after the last handled; an
\* alert under way has not been answered.
JobsInv ==
    /\ \A j \in Deliveries : Active(j) =>
         /\ job[j].attempt >= 1
         /\ j \in Alerts => reply[j] = "none"
         /\ j \in DOMAIN Messages => j = handled + 1 /\ j = taken
    /\ taken # handled => taken = handled + 1 /\ Active(taken)

\* The requests of a delivery in this life of the service: those of the
\* attempts it is past, three once it is over.
InThisLife(j) ==
    IF Active(j) THEN job[j].attempt - 1
    ELSE IF (j \in Alerts /\ reply[j] # "none") \/ (j \in DOMAIN Messages /\ j <= handled) THEN Attempts
    ELSE 0

\* Only messages come back after a crash.
ReceiptsInv ==
    \A j \in Deliveries :
        receipts[j] <= (IF j \in Alerts THEN 0 ELSE Attempts * crashes) + InThisLife(j)

\* Until the first crash the merchant has only heard of messages taken up, and
\* has a receipt of each.
HeardInv ==
    crashes = 0 =>
        /\ \A m \in DOMAIN heard : heard[m] <= taken /\ receipts[heard[m]] > 0
        /\ \A m, n \in DOMAIN heard : m < n => heard[m] < heard[n]

\* A message is only given up as handled once the merchant or the dead-letter
\* list has it, or it had no configuration, or Redis failed.
ServedInv ==
    \A i \in 1 .. handled : Worth(Messages[i]) => i \in acked \union dlq \union unserved \/ faults > 0

Inv == TypeOK /\ JobsInv /\ ReceiptsInv

-----------------------------------------------------------------------------
\* The messages are numbered, and no alert is a number.
LEMMA Names ==
  /\ Len(Messages) \in Nat /\ DOMAIN Messages = 1 .. Len(Messages)
  /\ \A a \in Alerts : a \notin DOMAIN Messages
  /\ Idle \in [url : Urls \union {NoConfig}, attempt : 0 .. Attempts + 1]
  BY MessagesAssumption, NamesAssumption DEF Idle, Attempts

LEMMA InitInv == Init => Inv /\ HeardInv /\ ServedInv
  <1> SUFFICES ASSUME Init PROVE Inv /\ HeardInv /\ ServedInv
    OBVIOUS
  <1> USE Names DEF Init, Deliveries
  <1>1. TypeOK
    BY DEF TypeOK
  <1>2. JobsInv
    BY DEF JobsInv, Active
  <1>3. ReceiptsInv
    BY DEF ReceiptsInv, InThisLife, Active, Attempts
  <1>4. HeardInv /\ ServedInv
    BY DEF HeardInv, ServedInv
  <1> QED BY <1>1, <1>2, <1>3, <1>4 DEF Inv
-----------------------------------------------------------------------------
\* The end of a delivery: it is idle, and the message is handled or the alert
\* answered.
LEMMA DoneEffect ==
  ASSUME Inv, NEW j \in Deliveries, Active(j), Done(j)
  PROVE  /\ job' \in [Deliveries -> [url : Urls \union {NoConfig}, attempt : 0 .. Attempts + 1]]
         /\ \A k \in Deliveries : job'[k] = IF k = j THEN Idle ELSE job[k]
         /\ reply' \in [Alerts -> {"none", "delivered", "undelivered", "failed"}]
         /\ \A a \in Alerts : reply'[a] = IF a = j THEN "delivered" ELSE reply[a]
         /\ j \in Alerts => handled' = handled
         /\ j \in DOMAIN Messages => handled' = j /\ handled' = handled + 1 /\ taken = handled' /\ reply' = reply
         /\ handled' \in 0 .. taken /\ committed \in 0 .. handled'
  <1> USE Names DEF Inv, TypeOK, JobsInv
  <1>1. job' = [job EXCEPT ![j] = Idle]
    BY DEF Done
  <1>2. CASE j \in Alerts
    <2>1. reply' = [reply EXCEPT ![j] = "delivered"] /\ handled' = handled /\ j \notin DOMAIN Messages
      BY <1>2 DEF Done
    <2> QED BY <1>1, <1>2, <2>1
  <1>3. CASE j \in DOMAIN Messages
    <2>1. reply' = reply /\ handled' = j /\ j \notin Alerts
      BY <1>3 DEF Done
    <2> QED BY <1>1, <1>3, <2>1
  <1> QED BY <1>2, <1>3 DEF Deliveries

\* A request that reaches the endpoint.
LEMMA ReceiveEffect ==
  ASSUME TypeOK, NEW j \in Deliveries, Receive(j)
  PROVE  /\ receipts' \in [Deliveries -> Nat]
         /\ \A k \in Deliveries : receipts'[k] = IF k = j THEN receipts[k] + 1 ELSE receipts[k]
         /\ heard' \in Seq(DOMAIN Messages)
         /\ \/ heard' = heard
            \/ j \in DOMAIN Messages /\ receipts[j] = 0 /\ heard' = Append(heard, j)
  <1>1. heard \in Seq(DOMAIN Messages) /\ receipts \in [Deliveries -> Nat]
    BY DEF TypeOK
  <1>2. receipts' = [receipts EXCEPT ![j] = @ + 1]
    BY DEF Receive
  <1>3. heard' = IF j \in DOMAIN Messages /\ receipts[j] = 0 THEN Append(heard, j) ELSE heard
    BY DEF Receive
  <1>4. heard' \in Seq(DOMAIN Messages)
    <2> DEFINE D == DOMAIN Messages
    <2> HIDE DEF D
    <2>1. heard \in Seq(D) /\ heard' = IF j \in D /\ receipts[j] = 0 THEN Append(heard, j) ELSE heard
      BY <1>1, <1>3 DEF D
    <2>2. heard' \in Seq(D)
      BY <2>1
    <2> QED BY <2>2 DEF D
  <1> QED BY <1>1, <1>2, <1>3, <1>4

LEMMA BeginEffect ==
  ASSUME TypeOK, NEW j \in Deliveries, Begin(j), config # NoConfig
  PROVE  /\ job' \in [Deliveries -> [url : Urls \union {NoConfig}, attempt : 0 .. Attempts + 1]]
         /\ \A k \in Deliveries : k # j => job'[k] = job[k]
         /\ job'[j].attempt = 1 /\ job'[j] # Idle
  <1>1. [url |-> config, attempt |-> 1] \in [url : Urls \union {NoConfig}, attempt : 0 .. Attempts + 1]
    BY DEF TypeOK, Attempts
  <1> QED BY <1>1 DEF Begin, TypeOK, Idle

LEMMA TypeStep == Inv /\ [Next]_vars => TypeOK'
  <1> SUFFICES ASSUME Inv, [Next]_vars PROVE TypeOK'
    OBVIOUS
  <1> USE Names DEF Inv, TypeOK, consumerVars, Fault, NoFault
  <1>1. CASE ChangeConfig
    BY <1>1 DEF ChangeConfig
  <1>2. CASE TakeMessage
    <2>1. taken' = taken + 1 /\ taken = handled /\ taken' \in DOMAIN Messages /\ taken' \in Deliveries
      BY <1>2 DEF TakeMessage, ConsumerFree, Deliveries
    <2>2. job' \in [Deliveries -> [url : Urls \union {NoConfig}, attempt : 0 .. Attempts + 1]]
      BY <1>2, <2>1, BeginEffect DEF TakeMessage
    <2>3. handled' \in {handled, taken'} /\ unserved' \in {unserved, unserved \union {taken'}}
      BY <1>2 DEF TakeMessage
    <2>4. faults' \in Nat
      BY <1>2 DEF TakeMessage
    <2> QED BY <1>2, <2>1, <2>2, <2>3, <2>4 DEF TakeMessage
  <1>3. CASE CommitOffset
    BY <1>3 DEF CommitOffset, CommitHandled
  <1>4. CASE Crash
    BY <1>4 DEF Crash
  <1>5. ASSUME NEW j \in Deliveries, Attempt(j) PROVE TypeOK'
    <2>1. CASE Receive(j) /\ acked' = acked \union {j} /\ Done(j)
      BY <1>5, <2>1, DoneEffect, ReceiveEffect DEF Attempt
    <2>2. CASE /\ Receive(j) \/ UNCHANGED <<receipts, heard>>
               /\ job' = [job EXCEPT ![j].attempt = @ + 1]
               /\ UNCHANGED <<acked, handled, reply>>
      <3>1. [job[j] EXCEPT !.attempt = job[j].attempt + 1] \in [url : Urls \union {NoConfig}, attempt : 0 .. Attempts + 1]
        <4>1. job[j].attempt <= 3 /\ job[j].attempt \in 0 .. 4 /\ job[j].url \in Urls \union {NoConfig}
          BY <1>5 DEF Attempt, MayAttempt, Attempts
        <4>2. [job[j] EXCEPT !.attempt = job[j].attempt + 1] = [url |-> job[j].url, attempt |-> job[j].attempt + 1]
          OBVIOUS
        <4>3. job[j].attempt + 1 \in 0 .. Attempts + 1
          BY <4>1 DEF Attempts
        <4> QED BY <4>1, <4>2, <4>3
      <3>2. job' = [job EXCEPT ![j] = [job[j] EXCEPT !.attempt = job[j].attempt + 1]]
        BY <2>2
      <3>3. job' \in [Deliveries -> [url : Urls \union {NoConfig}, attempt : 0 .. Attempts + 1]]
        BY <3>1, <3>2
      <3>4. receipts' \in [Deliveries -> Nat] /\ heard' \in Seq(DOMAIN Messages)
        BY <2>2, ReceiveEffect
      <3> QED BY <1>5, <2>2, <3>3, <3>4 DEF Attempt
    <2> QED BY <1>5, <2>1, <2>2 DEF Attempt
  <1>6. ASSUME NEW j \in Deliveries, SendToDlq(j) PROVE TypeOK'
    <2>1. Active(j) /\ Done(j)
      BY <1>6 DEF SendToDlq
    <2>2. /\ job' \in [Deliveries -> [url : Urls \union {NoConfig}, attempt : 0 .. Attempts + 1]]
          /\ reply' \in [Alerts -> {"none", "delivered", "undelivered", "failed"}]
          /\ handled' \in 0 .. taken /\ committed \in 0 .. handled'
      BY <2>1, DoneEffect
    <2>3. /\ UNCHANGED <<config, taken, committed, receipts, heard, acked, unserved, changes, crashes>>
          /\ dlq' \in {dlq, dlq \union {j}} /\ faults' \in {faults, faults + 1}
      BY <1>6 DEF SendToDlq
    <2> QED BY <2>2, <2>3
  <1>7. ASSUME NEW a \in Alerts, TakeAlert(a) PROVE TypeOK'
    <2>1. job' \in [Deliveries -> [url : Urls \union {NoConfig}, attempt : 0 .. Attempts + 1]]
      BY <1>7, BeginEffect DEF TakeAlert, Deliveries
    <2>2. /\ reply' = reply \/ \E answer \in {"undelivered", "failed"} : reply' = [reply EXCEPT ![a] = answer]
          /\ faults' \in Nat
      BY <1>7 DEF TakeAlert
    <2>3. UNCHANGED <<config, consumerVars, receipts, heard, acked, dlq, unserved, changes, crashes>>
      BY <1>7 DEF TakeAlert
    <2> QED BY <2>1, <2>2, <2>3
  <1>8. CASE UNCHANGED vars
    BY <1>8 DEF vars
  <1> QED BY <1>1, <1>2, <1>3, <1>4, <1>5, <1>6, <1>7, <1>8 DEF Next, Deliver
-----------------------------------------------------------------------------
LEMMA JobsStep == Inv /\ [Next]_vars => JobsInv'
  <1> SUFFICES ASSUME Inv, [Next]_vars PROVE JobsInv'
    OBVIOUS
  <1> USE Names DEF Inv, TypeOK, JobsInv, consumerVars, Active, Deliveries
  <1>1. CASE ChangeConfig \/ CommitOffset \/ UNCHANGED vars
    <2>1. UNCHANGED <<job, taken, handled, reply>>
      BY <1>1 DEF ChangeConfig, CommitOffset, vars
    <2> QED BY <2>1
  <1>2. CASE TakeMessage
    <2>1. /\ taken = handled /\ taken' = taken + 1 /\ taken' \in DOMAIN Messages /\ reply' = reply
          /\ \A j \in DOMAIN Messages : ~Active(j)
      BY <1>2 DEF TakeMessage, ConsumerFree
    <2>2. CASE handled' = taken' /\ job' = job
      BY <2>1, <2>2
    <2>3. CASE Begin(taken') /\ config # NoConfig /\ handled' = handled
      <3>1. /\ \A j \in Deliveries : j # taken' => job'[j] = job[j]
            /\ job'[taken'].attempt = 1 /\ job'[taken'] # Idle
        BY <2>1, <2>3, BeginEffect
      <3>2. taken' \notin Alerts /\ taken' = handled' + 1
        BY <2>1, <2>3
      <3>3. \A j \in Deliveries : Active(j)' =>
              /\ job'[j].attempt >= 1
              /\ j \in Alerts => reply'[j] = "none"
              /\ j \in DOMAIN Messages => j = taken'
        BY <2>1, <3>1, <3>2
      <3> QED BY <3>1, <3>2, <3>3
    <2> QED BY <1>2, <2>2, <2>3 DEF TakeMessage
  <1>3. CASE Crash
    <2>1. job' = [j \in Deliveries |-> Idle] /\ taken' = handled'
      BY <1>3 DEF Crash
    <2> QED BY <2>1
  <1>4. ASSUME NEW j \in Deliveries, Active(j), Done(j), taken' = taken PROVE JobsInv'
    <2>1. CASE j \in Alerts
      <3>1. /\ \A k \in Deliveries : job'[k] = IF k = j THEN Idle ELSE job[k]
            /\ \A a \in Alerts : a # j => reply'[a] = reply[a]
            /\ handled' = handled
        BY <1>4, <2>1, DoneEffect
      <3>2. taken # j
        BY <2>1, NamesAssumption
      <3> QED BY <1>4, <2>1, <3>1, <3>2
    <2>2. CASE j \in DOMAIN Messages
      BY <1>4, <2>2, DoneEffect
    <2> QED BY <2>1, <2>2
  <1>5. ASSUME NEW j \in Deliveries, Attempt(j) PROVE JobsInv'
    <2>1. CASE job' = [job EXCEPT ![j].attempt = @ + 1] /\ UNCHANGED <<handled, reply>>
      <3>0. Active(j) /\ taken' = taken
        BY <1>5 DEF Attempt
      <3>1. \A k \in Deliveries : k # j => job'[k] = job[k]
        BY <2>1
      <3>2. job'[j].attempt = job[j].attempt + 1 /\ job[j].attempt >= 1 /\ job[j].attempt \in Nat
        BY <2>1, <3>0
      <3>3. job[j] # Idle /\ job'[j] # Idle
        BY <3>0, <3>2 DEF Idle
      <3>4. \A k \in Deliveries : (Active(k)' <=> Active(k)) /\ (Active(k)' => job'[k].attempt >= 1)
        <4>1. ASSUME NEW k \in Deliveries PROVE Active(k)' <=> Active(k)
          BY <3>1, <3>3
        <4>2. ASSUME NEW k \in Deliveries, Active(k) PROVE job'[k].attempt >= 1
          <5>1. CASE k = j
            BY <3>2, <5>1
          <5>2. CASE k # j
            BY <3>1, <4>2, <5>2
          <5> QED BY <5>1, <5>2
        <4> QED BY <4>1, <4>2
      <3>5. /\ \A k \in Deliveries : Active(k) =>
                 /\ k \in Alerts => reply[k] = "none"
                 /\ k \in DOMAIN Messages => k = handled + 1 /\ k = taken
            /\ taken # handled => taken = handled + 1 /\ Active(taken) /\ taken \in Deliveries
        OBVIOUS
      <3> QED BY <2>1, <3>0, <3>4, <3>5
    <2> QED BY <1>4, <1>5, <2>1 DEF Attempt
  <1>6. ASSUME NEW j \in Deliveries, SendToDlq(j) PROVE JobsInv'
    <2>1. Active(j) /\ Done(j) /\ taken' = taken
      BY <1>6 DEF SendToDlq
    <2> QED BY <1>4, <2>1
  <1>7. ASSUME NEW a \in Alerts, TakeAlert(a) PROVE JobsInv'
    <2>1. /\ UNCHANGED <<taken, handled>> /\ reply[a] = "none" /\ ~Active(a) /\ a \notin DOMAIN Messages
          /\ taken # a
      BY <1>7, NamesAssumption DEF TakeAlert
    <2>2. CASE Begin(a) /\ config # NoConfig /\ reply' = reply
      <3>1. /\ \A j \in Deliveries : j # a => job'[j] = job[j]
            /\ job'[a].attempt = 1 /\ job'[a] # Idle
        BY <2>2, BeginEffect
      <3>2. taken # handled => Active(taken)' /\ taken = handled + 1
        BY <2>1, <3>1
      <3>3. ASSUME NEW j \in Deliveries, Active(j)'
            PROVE  /\ job'[j].attempt >= 1
                   /\ j \in Alerts => reply[j] = "none"
                   /\ j \in DOMAIN Messages => j = handled + 1 /\ j = taken
        <4>1. CASE j = a
          BY <2>1, <3>1, <4>1
        <4>2. CASE j # a
          BY <3>1, <3>3, <4>2
        <4> QED BY <4>1, <4>2
      <3> QED BY <2>1, <2>2, <3>2, <3>3
    <2>3. CASE job' = job /\ \E answer \in {"undelivered", "failed"} : reply' = [reply EXCEPT ![a] = answer]
      BY <2>1, <2>3
    <2> QED BY <1>7, <2>2, <2>3 DEF TakeAlert
  <1> QED BY <1>1, <1>2, <1>3, <1>5, <1>6, <1>7 DEF Next, Deliver

LEMMA ReceiptsStep == Inv /\ [Next]_vars => ReceiptsInv'
  <1> SUFFICES ASSUME Inv, [Next]_vars, NEW k \in Deliveries
               PROVE  (receipts[k] <= (IF k \in Alerts THEN 0 ELSE Attempts * crashes) + InThisLife(k))'
    BY DEF ReceiptsInv
  <1> DEFINE Goal == (receipts[k] <= (IF k \in Alerts THEN 0 ELSE Attempts * crashes) + InThisLife(k))'
  <1>0. /\ receipts[k] \in Nat /\ crashes \in Nat
        /\ receipts[k] <= (IF k \in Alerts THEN 0 ELSE 3 * crashes) + InThisLife(k)
        /\ job[k].attempt \in 0 .. 4
        /\ k \in Alerts <=> k \notin DOMAIN Messages
    BY Names DEF Inv, TypeOK, ReceiptsInv, Attempts, Deliveries
  <1> USE Names DEF InThisLife, Active, Attempts, consumerVars
  <1>1. ASSUME UNCHANGED <<job, reply, handled, receipts, crashes>> PROVE Goal
    BY <1>0, <1>1
  <1>2. CASE ChangeConfig \/ CommitOffset \/ UNCHANGED vars
    BY <1>1, <1>2 DEF ChangeConfig, CommitOffset, vars
  <1>3. CASE TakeMessage
    <2>1. /\ taken = handled /\ taken' = taken + 1 /\ taken' \in DOMAIN Messages /\ taken' \in Deliveries
          /\ UNCHANGED <<reply, receipts, crashes>> /\ handled \in Nat
      BY <1>3 DEF TakeMessage, ConsumerFree, Deliveries, Inv, TypeOK
    <2>2. \A j \in DOMAIN Messages : job[j] = Idle
      BY <2>1 DEF Inv, JobsInv, Deliveries
    <2>3. CASE handled' = taken' /\ job' = job
      BY <1>0, <2>1, <2>2, <2>3
    <2>4. CASE Begin(taken') /\ config # NoConfig /\ handled' = handled
      <3>1. /\ \A j \in Deliveries : j # taken' => job'[j] = job[j]
            /\ job'[taken'].attempt = 1 /\ job'[taken'] # Idle
        BY <2>1, <2>4, BeginEffect DEF Inv
      <3> QED BY <1>0, <2>1, <2>2, <2>4, <3>1
    <2> QED BY <1>3, <2>3, <2>4 DEF TakeMessage
  <1>4. CASE Crash
    <2>1. /\ job'[k] = Idle /\ receipts' = receipts /\ crashes' = crashes + 1
          /\ k \in Alerts => reply'[k] = IF Active(k) THEN "failed" ELSE reply[k]
      BY <1>4 DEF Crash
    <2>2. CASE k \in Alerts
      BY <1>0, <2>1, <2>2
    <2>3. CASE k \in DOMAIN Messages
      <3>1. InThisLife(k) \in 0 .. 3 /\ InThisLife(k)' \in 0 .. 3
        BY <1>0, <2>1, <2>3 DEF Inv, JobsInv
      <3>2. receipts[k] <= 3 * crashes + 3
        BY <1>0, <2>3, <3>1
      <3>3. receipts'[k] <= 3 * crashes'
        BY <1>0, <2>1, <3>2
      <3> HIDE DEF InThisLife
      <3> QED BY <1>0, <2>1, <2>3, <3>1, <3>3
    <2> QED BY <1>0, <2>2, <2>3
  <1>5. ASSUME NEW j \in Deliveries, Active(j), MayAttempt(j) \/ UNCHANGED receipts, Done(j),
               Receive(j) \/ UNCHANGED receipts, crashes' = crashes
        PROVE  Goal
    <2>1. /\ job'[k] = IF k = j THEN Idle ELSE job[k]
          /\ k \in Alerts => reply'[k] = IF k = j THEN "delivered" ELSE reply[k]
          /\ j \in Alerts => handled' = handled
          /\ j \in DOMAIN Messages => handled' = j /\ handled' = handled + 1
          /\ handled \in Nat /\ handled' \in Nat
          /\ j \in Alerts <=> j \notin DOMAIN Messages
      <3>1. handled \in Nat /\ (j \in Alerts <=> j \notin DOMAIN Messages) /\ (j \in Alerts => handled' = handled)
            /\ (j \in DOMAIN Messages => handled' = j /\ handled' = handled + 1)
        BY <1>5, DoneEffect, Names DEF Inv, TypeOK, Deliveries
      <3>2. job'[k] = (IF k = j THEN Idle ELSE job[k]) /\ (k \in Alerts => reply'[k] = IF k = j THEN "delivered" ELSE reply[k])
        BY <1>5, DoneEffect
      <3> QED BY <3>1, <3>2 DEF Deliveries
    <2>2. receipts'[k] = receipts[k] \/ (k = j /\ receipts'[k] = receipts[k] + 1 /\ job[k].attempt <= 3)
      BY <1>5, ReceiveEffect DEF MayAttempt, Inv
    <2>3. job[j] # Idle /\ job[j].attempt \in 1 .. 4 /\ (j \in DOMAIN Messages => j = handled + 1)
      BY <1>5 DEF Inv, TypeOK, JobsInv
    <2>4. CASE k = j
      BY <1>0, <1>5, <2>1, <2>2, <2>3, <2>4
    <2>5. CASE k # j
      <3>1. InThisLife(k)' = InThisLife(k)
        <4>1. CASE k \in Alerts
          BY <1>0, <2>1, <2>5, <4>1
        <4>2. CASE k \in DOMAIN Messages
          <5>1. k <= handled' <=> k <= handled
            <6>1. k \in Nat /\ (handled' = handled \/ (handled' = handled + 1 /\ k # handled + 1))
              BY <2>1, <2>3, <2>5, <4>2
            <6> QED BY <2>1, <6>1
          <5> QED BY <1>0, <2>1, <2>5, <4>2, <5>1
        <4> QED BY <1>0, <4>1, <4>2
      <3>2. UNCHANGED <<receipts[k], crashes>>
        BY <1>5, <2>2, <2>5
      <3> HIDE DEF InThisLife
      <3> QED BY <1>0, <3>1, <3>2
    <2> QED BY <2>4, <2>5
  <1>6. ASSUME NEW j \in Deliveries, Attempt(j) PROVE Goal
    <2>1. Active(j) /\ MayAttempt(j) /\ crashes' = crashes
      BY <1>6 DEF Attempt
    <2>2. CASE /\ Receive(j) \/ UNCHANGED receipts
               /\ job' = [job EXCEPT ![j].attempt = @ + 1]
               /\ UNCHANGED <<handled, reply>>
      <3>1. receipts'[k] = receipts[k] \/ (k = j /\ receipts'[k] = receipts[k] + 1)
        BY <2>2, ReceiveEffect DEF Inv
      <3>2. /\ k # j => job'[k] = job[k]
            /\ k = j => job'[k].attempt = job[k].attempt + 1
        BY <2>2 DEF Inv, TypeOK
      <3>3. job[j] # Idle /\ job[j].attempt >= 1
        BY <2>1 DEF Inv, JobsInv
      <3>4. k = j => job'[k] # Idle
        BY <1>0, <3>2, <3>3 DEF Idle
      <3>5. CASE k = j
        <4>1. InThisLife(k) = job[k].attempt - 1 /\ InThisLife(k)' = job[k].attempt
          BY <1>0, <2>1, <3>2, <3>4, <3>5
        <4>2. receipts[k] <= (IF k \in Alerts THEN 0 ELSE 3 * crashes) + (job[k].attempt - 1)
          BY <1>0, <4>1
        <4>3. receipts'[k] <= (IF k \in Alerts THEN 0 ELSE 3 * crashes) + job[k].attempt
          <5> DEFINE before == IF k \in Alerts THEN 0 ELSE 3 * crashes
          <5>1. before \in Nat
            BY <1>0
          <5> HIDE DEF before
          <5>2. receipts[k] <= before + (job[k].attempt - 1)
            BY <4>2 DEF before
          <5>3. receipts[k] \in Nat /\ job[k].attempt \in Nat /\ receipts'[k] \in {receipts[k], receipts[k] + 1}
            BY <1>0, <3>1
          <5>4. \A x, y, z \in Nat : x <= before + (y - 1) /\ z \in {x, x + 1} => z <= before + y
            BY <5>1
          <5>5. receipts'[k] \in Nat
            BY <5>3
          <5>6. receipts'[k] <= before + job[k].attempt
            BY <5>2, <5>3, <5>4, <5>5
          <5> QED BY <5>6 DEF before
        <4> QED BY <2>1, <4>1, <4>3
      <3>6. CASE k # j
        <4>1. InThisLife(k)' = InThisLife(k)
          BY <2>2, <3>2, <3>6
        <4> HIDE DEF InThisLife
        <4> QED BY <1>0, <2>1, <3>1, <3>6, <4>1
      <3> QED BY <3>5, <3>6
    <2> QED BY <1>5, <1>6, <2>1, <2>2 DEF Attempt
  <1>7. ASSUME NEW j \in Deliveries, SendToDlq(j) PROVE Goal
    BY <1>5, <1>7 DEF SendToDlq
  <1>8. ASSUME NEW a \in Alerts, TakeAlert(a) PROVE Goal
    <2>1. /\ UNCHANGED <<handled, receipts, crashes>> /\ reply[a] = "none" /\ job[a] = Idle
          /\ a \in Deliveries /\ a \notin DOMAIN Messages
      BY <1>8 DEF TakeAlert, consumerVars, Deliveries
    <2>2. CASE Begin(a) /\ config # NoConfig /\ reply' = reply
      <3>1. /\ \A j \in Deliveries : j # a => job'[j] = job[j]
            /\ job'[a].attempt = 1 /\ job'[a] # Idle
        BY <2>1, <2>2, BeginEffect DEF Inv
      <3> QED BY <1>0, <2>1, <2>2, <3>1
    <2>3. CASE job' = job /\ \E answer \in {"undelivered", "failed"} : reply' = [reply EXCEPT ![a] = answer]
      <3>1. k \in Alerts => reply'[k] = reply[k] \/ (k = a /\ reply'[k] # "none")
        BY <2>3 DEF Inv, TypeOK
      <3> QED BY <1>0, <2>1, <2>3, <3>1
    <2> QED BY <1>8, <2>2, <2>3 DEF TakeAlert
  <1> QED BY <1>2, <1>3, <1>4, <1>6, <1>7, <1>8 DEF Next, Deliver
-----------------------------------------------------------------------------
\* Whoever hears of a message for the first time hears of the one taken last.
LEMMA HeardStep == Inv /\ HeardInv /\ [Next]_vars => HeardInv'
  <1> SUFFICES ASSUME Inv, HeardInv, [Next]_vars, crashes' = 0 PROVE HeardInv'
    BY DEF HeardInv
  <1> USE Names DEF consumerVars
  <1>0. heard \in Seq(DOMAIN Messages) /\ taken \in Nat /\ receipts \in [Deliveries -> Nat]
    BY DEF Inv, TypeOK
  <1>1. ASSUME UNCHANGED <<heard, receipts>>, taken' \in Nat, taken' >= taken, crashes' = crashes PROVE HeardInv'
    <2>1. \A m \in DOMAIN heard : heard[m] \in Nat
      BY <1>0
    <2> QED BY <1>0, <1>1, <2>1 DEF HeardInv
  <1>2. CASE ChangeConfig \/ CommitOffset \/ TakeMessage \/ UNCHANGED vars
    BY <1>0, <1>1, <1>2 DEF ChangeConfig, CommitOffset, TakeMessage, vars
  <1>3. CASE Crash
    BY <1>3 DEF Crash, Inv, TypeOK
  <1>4. ASSUME NEW a \in Alerts, TakeAlert(a) PROVE HeardInv'
    BY <1>0, <1>1, <1>4 DEF TakeAlert
  <1>5. ASSUME NEW j \in Deliveries, SendToDlq(j) PROVE HeardInv'
    BY <1>0, <1>1, <1>5 DEF SendToDlq
  <1>6. ASSUME NEW j \in Deliveries, Attempt(j) PROVE HeardInv'
    <2>1. UNCHANGED <<taken, crashes>> /\ Active(j)
      BY <1>6 DEF Attempt
    <2>2. CASE UNCHANGED <<receipts, heard>>
      BY <1>0, <1>1, <2>1, <2>2
    <2>3. CASE Receive(j)
      <3>1. /\ \A k \in Deliveries : receipts'[k] = IF k = j THEN receipts[k] + 1 ELSE receipts[k]
            /\ \/ heard' = heard
               \/ j \in DOMAIN Messages /\ receipts[j] = 0 /\ heard' = Append(heard, j)
        BY <2>3, ReceiveEffect DEF Inv
      <3>2. /\ \A m \in DOMAIN heard : heard[m] \in DOMAIN Messages /\ heard[m] <= taken /\ receipts[heard[m]] > 0
            /\ \A m, n \in DOMAIN heard : m < n => heard[m] < heard[n]
        BY <1>0, <2>1 DEF HeardInv
      <3>3. \A k \in Deliveries : receipts[k] \in Nat /\ receipts'[k] \in Nat /\ receipts'[k] >= receipts[k]
        <4> SUFFICES ASSUME NEW k \in Deliveries
                     PROVE  receipts[k] \in Nat /\ receipts'[k] \in Nat /\ receipts'[k] >= receipts[k]
          OBVIOUS
        <4>1. receipts[k] \in Nat
          BY <1>0
        <4>2. receipts'[k] \in {receipts[k], receipts[k] + 1}
          BY <3>1
        <4> QED BY <4>1, <4>2
      <3>4. CASE heard' = heard
        BY <2>1, <3>2, <3>3, <3>4 DEF HeardInv, Deliveries
      <3>5. CASE j \in DOMAIN Messages /\ receipts[j] = 0 /\ heard' = Append(heard, j)
        <4>1. j = taken
          BY <2>1, <3>5 DEF Inv, JobsInv
        <4>2. \A m \in DOMAIN heard : heard[m] # j
          BY <3>2, <3>5
        <4>3. \A m \in DOMAIN heard' : heard'[m] = j \/ (m \in DOMAIN heard /\ heard'[m] = heard[m])
          BY <1>0, <3>5
        <4>4. \A m, n \in DOMAIN heard' : m < n => m \in DOMAIN heard /\ heard'[m] = heard[m]
          BY <1>0, <3>5
        <4>5. receipts'[j] > 0
          BY <3>1, <3>3, <3>5
        <4>6. \A m \in DOMAIN heard' : heard'[m] <= taken' /\ receipts'[heard'[m]] > 0
          <5> SUFFICES ASSUME NEW m \in DOMAIN heard' PROVE heard'[m] <= taken' /\ receipts'[heard'[m]] > 0
            OBVIOUS
          <5>1. CASE heard'[m] = j
            BY <1>0, <2>1, <4>1, <4>5, <5>1
          <5>2. CASE m \in DOMAIN heard /\ heard'[m] = heard[m]
            <6>1. heard[m] \in Deliveries /\ heard[m] <= taken /\ receipts[heard[m]] > 0
              BY <3>2, <5>2 DEF Deliveries
            <6>2. receipts'[heard[m]] > 0
              BY <3>3, <6>1
            <6> QED BY <2>1, <5>2, <6>1, <6>2
          <5> QED BY <4>3, <5>1, <5>2
        <4>7. \A m, n \in DOMAIN heard' : m < n => heard'[m] < heard'[n]
          <5> SUFFICES ASSUME NEW m \in DOMAIN heard', NEW n \in DOMAIN heard', m < n
                       PROVE  heard'[m] < heard'[n]
            OBVIOUS
          <5>1. m \in DOMAIN heard /\ heard'[m] = heard[m]
            BY <4>4
          <5>2. CASE heard'[n] = j
            <6>1. heard[m] \in Nat /\ heard[m] <= j /\ heard[m] # j /\ j \in Nat
              BY <1>0, <3>2, <4>1, <4>2, <5>1
            <6> QED BY <5>1, <5>2, <6>1
          <5>3. CASE n \in DOMAIN heard /\ heard'[n] = heard[n]
            BY <3>2, <5>1, <5>3
          <5> QED BY <4>3, <5>2, <5>3
        <4> QED BY <4>6, <4>7 DEF HeardInv
      <3> QED BY <3>1, <3>4, <3>5
    <2> QED BY <1>6, <2>2, <2>3 DEF Attempt
  <1> QED BY <1>2, <1>3, <1>4, <1>5, <1>6 DEF Next, Deliver

\* Nothing but these four steps makes a message a handled one.
LEMMA ServedStep == Inv /\ ServedInv /\ [Next]_vars => ServedInv'
  <1> SUFFICES ASSUME Inv, ServedInv, [Next]_vars, NEW i \in 1 .. handled', Worth(Messages[i])
               PROVE  i \in acked' \union dlq' \union unserved' \/ faults' > 0
    BY DEF ServedInv
  <1> DEFINE Goal == i \in acked' \union dlq' \union unserved' \/ faults' > 0
  <1> USE Names DEF consumerVars, NoFault, Fault
  <1>0. handled \in Nat /\ faults \in Nat /\ committed \in 0 .. handled /\ handled' \in Nat
    BY TypeStep DEF Inv, TypeOK
  <1>1. ASSUME i <= handled, acked \subseteq acked', dlq \subseteq dlq', unserved \subseteq unserved',
               faults' >= faults
        PROVE  Goal
    <2>1. i \in 1 .. handled
      BY <1>0, <1>1
    <2>2. i \in acked \union dlq \union unserved \/ faults > 0
      BY <2>1 DEF ServedInv
    <2>3. faults' \in Nat
      BY TypeStep DEF Inv, TypeOK
    <2> QED BY <1>0, <1>1, <2>2, <2>3
  <1>2. CASE ChangeConfig \/ CommitOffset \/ Crash \/ UNCHANGED vars
    BY <1>0, <1>1, <1>2 DEF ChangeConfig, CommitOffset, Crash, vars
  <1>3. CASE TakeMessage
    <2>1. /\ taken' = handled + 1 /\ UNCHANGED <<acked, dlq>>
          /\ handled' \in {handled, taken'} /\ unserved \subseteq unserved' /\ faults' >= faults
      BY <1>0, <1>3 DEF TakeMessage, ConsumerFree, Inv, TypeOK
    <2>2. CASE i = taken' /\ handled' = taken'
      <3>1. taken' # handled
        BY <1>0, <2>1
      <3> QED BY <1>0, <1>3, <2>2, <3>1 DEF TakeMessage
    <2> QED BY <1>0, <1>1, <2>1, <2>2
  <1>4. ASSUME NEW a \in Alerts, TakeAlert(a) PROVE Goal
    BY <1>0, <1>1, <1>4 DEF TakeAlert
  <1>5. ASSUME NEW j \in Deliveries, Active(j), Done(j) PROVE i <= handled \/ i = j
    BY <1>0, <1>5, DoneEffect DEF Deliveries
  <1>6. ASSUME NEW j \in Deliveries, Attempt(j) PROVE Goal
    <2>1. Active(j) /\ UNCHANGED <<dlq, unserved, faults>>
      BY <1>6 DEF Attempt
    <2>2. CASE acked' = acked \union {j} /\ Done(j)
      BY <1>0, <1>1, <1>5, <2>1, <2>2
    <2>3. CASE UNCHANGED <<acked, handled>>
      BY <1>0, <1>1, <2>1, <2>3
    <2> QED BY <1>6, <2>2, <2>3 DEF Attempt
  <1>7. ASSUME NEW j \in Deliveries, SendToDlq(j) PROVE Goal
    BY <1>0, <1>1, <1>5, <1>7 DEF SendToDlq
  <1> QED BY <1>2, <1>3, <1>4, <1>6, <1>7 DEF Next, Deliver

-----------------------------------------------------------------------------
LEMMA Invariance == Spec => []Inv
  <1>1. Inv /\ [Next]_vars => Inv'
    BY TypeStep, JobsStep, ReceiptsStep DEF Inv
  <1> QED BY InitInv, <1>1, PTL DEF Spec

\* Every variable of the service keeps its type.
THEOREM TypeCorrect == Spec => []TypeOK
  BY Invariance, PTL DEF Inv

\* However attempts, alerts, configuration changes and crashes interleave, a
\* merchant gets a decision at most three times in a life of the service and
\* an alert at most three times at all.
THEOREM ReceiptsAreBounded == Spec => []ReceiptsPerLife
  <1>1. Inv => ReceiptsPerLife
    <2> SUFFICES ASSUME Inv, NEW j \in Deliveries
                 PROVE  receipts[j] <= Attempts * (IF j \in Alerts THEN 1 ELSE 1 + crashes)
      BY DEF ReceiptsPerLife
    <2>1. /\ receipts[j] \in Nat /\ crashes \in Nat /\ job[j].attempt \in 0 .. 4
          /\ receipts[j] <= (IF j \in Alerts THEN 0 ELSE 3 * crashes) + InThisLife(j)
      BY DEF Inv, TypeOK, ReceiptsInv, Attempts
    <2>2. InThisLife(j) \in 0 .. 3
      BY <2>1 DEF InThisLife, Attempts, Inv, JobsInv
    <2>3. CASE j \in Alerts
      BY <2>1, <2>2, <2>3 DEF Attempts
    <2>4. CASE j \notin Alerts
      BY <2>1, <2>2, <2>4 DEF Attempts
    <2> QED BY <2>3, <2>4
  <1> QED BY Invariance, <1>1, PTL

\* Until the service crashes a merchant first hears of its decisions in the
\* order of the topic, however long one of them is retried.
THEOREM DecisionsAreHeardInOrder == Spec => []ReceiptsInOrder
  <1>1. HeardInv => ReceiptsInOrder
    BY DEF HeardInv, ReceiptsInOrder
  <1> QED BY Invariance, InitInv, HeardStep, <1>1, PTL DEF Spec

\* A message whose offset may be committed has been acknowledged by the
\* merchant, is in the dead-letter list, or was taken up without a
\* configuration, unless Redis failed: a crash skips no risky decision.
CommittedWasServed ==
    \A i \in 1 .. committed : Worth(Messages[i]) => i \in acked \union dlq \union unserved \/ faults > 0

\* The safety half of RiskyDecisionsAreNotified, for every crash and retry.
THEOREM NoRiskyDecisionIsSkipped == Spec => []CommittedWasServed
  <1>1. Inv /\ ServedInv => CommittedWasServed
    BY DEF Inv, TypeOK, ServedInv, CommittedWasServed
  <1> QED BY Invariance, InitInv, ServedStep, <1>1, PTL DEF Spec
=============================================================================
