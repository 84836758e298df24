-------------------------- MODULE OutboxRelayProofs --------------------------
(***************************************************************************)
(* Safety of the outbox relay for any number of relays, rows, faults,       *)
(* crashes and shutdowns, and any batch size.                               *)
(***************************************************************************)
EXTENDS OutboxRelay, TLAPS

\* What the poll loop knows about its batch between two awaits: the rows are
\* committed, they were delivered once the send resolved, and no batch
\* outlives its poll.
BatchOK ==
    \A r \in Relays :
        /\ \A e \in batch[r] : created[e] # 0
        /\ pc[r] = "marking" => \A e \in batch[r] : Delivered(e)
        /\ ~Running(r) => batch[r] = {}

DeliveredWasCommitted == \A e \in Events : Delivered(e) => created[e] # 0

SafetyInv == TypeOK /\ BatchOK /\ DeliveredWasCommitted /\ PublishedWasDelivered

\* The copies a relay may have sent of a row: one per fault, and one more once
\* its send resolved or the row is marked, but not while it is about to send.
Allowance(r, e) ==
    IF pc[r] = "sending" /\ e \in batch[r] THEN 0
    ELSE IF publishedAt[e] # 0 \/ (pc[r] = "marking" /\ e \in batch[r]) THEN 1
    ELSE 0

CopiesInv == \A r \in Relays, e \in Events : sends[r][e] <= errors + crashes + Allowance(r, e)

-----------------------------------------------------------------------------
LEMMA TopicOfType == ASSUME NEW e \in Events PROVE TopicOf(e) \in Topics
  BY DEF TopicOf, resolveTopicForEvent, Topics, TOPIC_MAP, DEFAULT_TOPIC

LEMMA OldestRowsAreRows ==
  ASSUME NEW es, NEW b \in OldestRows(es) PROVE b \subseteq es
  BY DEF OldestRows

\* Appending a batch only adds to the log, and adds each of its rows.
LEMMA AppendDelivers ==
  ASSUME TypeOK, NEW r \in Relays, NEW es \in SUBSET Events, Append(r, es)
  PROVE  /\ topicLog' \in [Topics -> SUBSET Events]
         /\ sends' \in [Relays -> [Events -> Nat]]
         /\ \A e \in Events : Delivered(e)' <=> Delivered(e) \/ e \in es
  <1>1. topicLog' \in [Topics -> SUBSET Events]
    BY DEF TypeOK, Append
  <1>2. sends' \in [Relays -> [Events -> Nat]]
    BY DEF TypeOK, Append
  <1>3. \A e \in Events : Delivered(e)' <=> Delivered(e) \/ e \in es
    BY TopicOfType DEF TypeOK, Append, Delivered, TopicOf
  <1> QED BY <1>1, <1>2, <1>3

LEMMA InitSafety == Init => SafetyInv
  BY BoundsAssumption, TopicOfType DEF Init, SafetyInv, TypeOK, BatchOK, DeliveredWasCommitted,
     PublishedWasDelivered, Delivered, Running

LEMMA SafetyStep == SafetyInv /\ [Next]_vars => SafetyInv'
  <1> SUFFICES ASSUME SafetyInv, [Next]_vars PROVE SafetyInv'
    OBVIOUS
  <1> USE DEF SafetyInv, DeliveredWasCommitted, PublishedWasDelivered
  <1>1. ASSUME NEW e \in Events, Commit(e) PROVE SafetyInv'
    BY <1>1, BoundsAssumption, TopicOfType
    DEF Commit, TypeOK, BatchOK, Delivered, Running, brokerVars, relayVars
  <1>2. ASSUME NEW r \in Relays, Poll(r) PROVE SafetyInv'
    <2>1. PICK b \in OldestRows(Unpublished) : batch' = [batch EXCEPT ![r] = b]
      BY <1>2 DEF Poll
    <2>2. b \subseteq Events /\ \A e \in b : created[e] # 0
      BY <2>1, OldestRowsAreRows DEF Unpublished
    <2> QED
      BY <1>2, <2>1, <2>2 DEF Poll, TypeOK, BatchOK, Delivered, Running, rowVars, brokerVars
  <1>3. ASSUME NEW r \in Relays, Send(r) PROVE SafetyInv'
    <2>1. batch[r] \in SUBSET Events /\ Append(r, batch[r])
      BY <1>3 DEF Send, TypeOK
    <2> QED
      BY <1>3, <2>1, AppendDelivers DEF Send, TypeOK, BatchOK, Running, rowVars
  <1>4. ASSUME NEW r \in Relays, SendFails(r) PROVE SafetyInv'
    <2>1. PICK es \in SUBSET batch[r] : Append(r, es)
      BY <1>4 DEF SendFails
    <2>2. es \in SUBSET Events
      BY <2>1 DEF TypeOK
    <2> QED
      BY <1>4, <2>1, <2>2, AppendDelivers DEF SendFails, TypeOK, BatchOK, Running, rowVars
  <1>5. ASSUME NEW r \in Relays, Mark(r) PROVE SafetyInv'
    BY <1>5 DEF Mark, SetPublished, TypeOK, BatchOK, Delivered, Running, brokerVars
  <1>6. ASSUME NEW r \in Relays, MarkFails(r) PROVE SafetyInv'
    BY <1>6 DEF MarkFails, SetPublished, TypeOK, BatchOK, Delivered, Running, brokerVars
  <1>7. ASSUME NEW r \in Relays, BeginShutdown(r) PROVE SafetyInv'
    BY <1>7 DEF BeginShutdown, TypeOK, BatchOK, Delivered, Running, rowVars, brokerVars
  <1>8. ASSUME NEW r \in Relays, FinishShutdown(r) PROVE SafetyInv'
    BY <1>8 DEF FinishShutdown, TypeOK, BatchOK, Delivered, Running, rowVars, brokerVars
  <1>9. ASSUME NEW r \in Relays, Crash(r) PROVE SafetyInv'
    BY <1>9 DEF Crash, TypeOK, BatchOK, Delivered, Running, rowVars, brokerVars
  <1>10. ASSUME NEW r \in Relays, Restart(r) PROVE SafetyInv'
    BY <1>10 DEF Restart, TypeOK, BatchOK, Delivered, Running, rowVars, brokerVars
  <1>11. CASE UNCHANGED vars
    BY <1>11 DEF vars, TypeOK, BatchOK, Delivered, Running, rowVars, brokerVars, relayVars
  <1> QED
    BY <1>1, <1>2, <1>3, <1>4, <1>5, <1>6, <1>7, <1>8, <1>9, <1>10, <1>11
    DEF Next, PollNothing

LEMMA Safety == Spec => []SafetyInv
  BY InitSafety, SafetyStep, PTL DEF Spec

\* Every variable keeps its type.
THEOREM TypeCorrect == Spec => []TypeOK
  <1>1. SafetyInv => TypeOK
    BY DEF SafetyInv
  <1> QED BY <1>1, Safety, PTL

\* No row is marked that did not reach its topic
\* (relay/outbox-relay.service.ts:120-130).
THEOREM PublishedRowsWereDelivered == Spec => []PublishedWasDelivered
  <1>1. SafetyInv => PublishedWasDelivered
    BY DEF SafetyInv
  <1> QED BY <1>1, Safety, PTL

-----------------------------------------------------------------------------
LEMMA InitCopies == Init => CopiesInv
  BY DEF Init, CopiesInv, Allowance

LEMMA CopiesStep == SafetyInv /\ CopiesInv /\ [Next]_vars => CopiesInv'
  <1> SUFFICES ASSUME SafetyInv, CopiesInv, [Next]_vars,
                      NEW q \in Relays, NEW x \in Events
               PROVE  (sends[q][x] <= errors + crashes + Allowance(q, x))'
    BY DEF CopiesInv
  <1>0. /\ sends[q][x] \in Nat /\ errors \in Nat /\ crashes \in Nat
        /\ sends[q][x] <= errors + crashes + Allowance(q, x)
        /\ Allowance(q, x) \in 0 .. 1
    BY DEF SafetyInv, TypeOK, CopiesInv, Allowance
  <1> USE DEF Allowance
  <1>1. ASSUME NEW e \in Events, Commit(e)
        PROVE  (sends[q][x] <= errors + crashes + Allowance(q, x))'
    BY <1>0, <1>1 DEF Commit, brokerVars, relayVars
  <1>2. ASSUME NEW r \in Relays, Poll(r)
        PROVE  (sends[q][x] <= errors + crashes + Allowance(q, x))'
    <2>1. PICK b \in OldestRows(Unpublished) : batch' = [batch EXCEPT ![r] = b]
      BY <1>2 DEF Poll
    <2>2. \A e \in b : publishedAt[e] = 0
      BY <2>1, OldestRowsAreRows DEF Unpublished
    <2> QED
      BY <1>0, <1>2, <2>1, <2>2 DEF Poll, SafetyInv, TypeOK, rowVars, brokerVars
  <1>3. ASSUME NEW r \in Relays, Send(r)
        PROVE  (sends[q][x] <= errors + crashes + Allowance(q, x))'
    BY <1>0, <1>3 DEF Send, Append, SafetyInv, TypeOK, rowVars
  <1>4. ASSUME NEW r \in Relays, SendFails(r)
        PROVE  (sends[q][x] <= errors + crashes + Allowance(q, x))'
    <2>1. PICK es \in SUBSET batch[r] : Append(r, es)
      BY <1>4 DEF SendFails
    <2> QED
      BY <1>0, <1>4, <2>1 DEF SendFails, Append, SafetyInv, TypeOK, rowVars
  <1>5. ASSUME NEW r \in Relays, Mark(r)
        PROVE  (sends[q][x] <= errors + crashes + Allowance(q, x))'
    BY <1>0, <1>5 DEF Mark, SetPublished, SafetyInv, TypeOK, brokerVars
  <1>6. ASSUME NEW r \in Relays, MarkFails(r)
        PROVE  (sends[q][x] <= errors + crashes + Allowance(q, x))'
    BY <1>0, <1>6 DEF MarkFails, SetPublished, SafetyInv, TypeOK, brokerVars
  <1>7. ASSUME NEW r \in Relays, BeginShutdown(r) \/ FinishShutdown(r)
        PROVE  (sends[q][x] <= errors + crashes + Allowance(q, x))'
    BY <1>0, <1>7 DEF BeginShutdown, FinishShutdown, Running, SafetyInv, TypeOK, rowVars, brokerVars
  <1>8. ASSUME NEW r \in Relays, Crash(r)
        PROVE  (sends[q][x] <= errors + crashes + Allowance(q, x))'
    BY <1>0, <1>8 DEF Crash, SafetyInv, TypeOK, rowVars, brokerVars
  <1>9. ASSUME NEW r \in Relays, Restart(r)
        PROVE  (sends[q][x] <= errors + crashes + Allowance(q, x))'
    BY <1>0, <1>9 DEF Restart, SafetyInv, TypeOK, rowVars, brokerVars
  <1>10. CASE UNCHANGED vars
    BY <1>0, <1>10 DEF vars, rowVars, brokerVars, relayVars
  <1> QED
    BY <1>1, <1>2, <1>3, <1>4, <1>5, <1>6, <1>7, <1>8, <1>9, <1>10 DEF Next, PollNothing

\* However many relays share the table, each one sends a row at most once
\* more than there were failed calls and crashes.
THEOREM CopiesAreBounded == Spec => []CopiesPerRelay
  <1>1. SafetyInv /\ CopiesInv => CopiesPerRelay
    BY DEF SafetyInv, TypeOK, CopiesInv, Allowance, CopiesPerRelay
  <1> QED BY <1>1, Safety, InitCopies, CopiesStep, PTL DEF Spec

\* A relay that shut down gracefully left no row sent and unmarked: what the
\* copies it may have sent allow for, while nothing failed, is the row being
\* marked or the poll still running.
THEOREM GracefulStopMarksWhatItSent == Spec => []GracefulStopLeavesNothing
  <1>1. SafetyInv /\ CopiesInv => GracefulStopLeavesNothing
    <2> SUFFICES ASSUME SafetyInv, CopiesInv, NEW r \in Relays, pc[r] = "stopped", errors + crashes = 0,
                        NEW e \in Events, sends[r][e] > 0
                 PROVE  publishedAt[e] # 0
      BY DEF GracefulStopLeavesNothing
    <2>1. sends[r][e] \in Nat /\ sends[r][e] <= Allowance(r, e)
      BY DEF SafetyInv, TypeOK, CopiesInv, Allowance
    <2> QED BY <2>1 DEF Allowance
  <1> QED BY <1>1, Safety, InitCopies, CopiesStep, PTL DEF Spec

-----------------------------------------------------------------------------
\* Every step of a relay is a step of the abstract outbox, or a stutter.
LEMMA StepRefines == SafetyInv /\ [Next]_vars => [Outbox!Next]_(Outbox!vars)
  <1> SUFFICES ASSUME SafetyInv, [Next]_vars PROVE [Outbox!Next]_(Outbox!vars)
    OBVIOUS
  <1> DEFINE comm == {e \in Events : created[e] # 0}
             dlvd == {e \in Events : Delivered(e)}
             ackd == {e \in Events : publishedAt[e] # 0}
  <1> USE DEF SafetyInv
  <1>1. ASSUME NEW e \in Events, Commit(e) PROVE Outbox!Write(e)
    <2>1. comm' = comm \union {e} /\ e \notin comm
      BY <1>1, BoundsAssumption DEF Commit, TypeOK
    <2>2. dlvd' = dlvd /\ ackd' = ackd
      BY <1>1 DEF Commit, brokerVars, Delivered
    <2> QED BY <2>1, <2>2 DEF Outbox!Write
  <1>2. ASSUME NEW r \in Relays, NEW es \in SUBSET batch[r], Append(r, es), UNCHANGED rowVars
        PROVE  Outbox!Deliver
    <2>1. es \in SUBSET comm
      BY DEF TypeOK, BatchOK
    <2>2. dlvd' = dlvd \union es
      BY <1>2, AppendDelivers DEF TypeOK
    <2>3. comm' = comm /\ ackd' = ackd
      BY <1>2 DEF rowVars
    <2> QED BY <2>1, <2>2, <2>3 DEF Outbox!Deliver
  <1>3. ASSUME NEW r \in Relays, pc[r] = "marking", SetPublished(r), UNCHANGED <<created, brokerVars>>
        PROVE  Outbox!Acknowledge
    <2>1. batch[r] \in SUBSET dlvd
      BY <1>3 DEF TypeOK, BatchOK
    <2>2. ackd' = ackd \union batch[r]
      BY <1>3 DEF SetPublished, TypeOK
    <2>3. comm' = comm /\ dlvd' = dlvd
      BY <1>3 DEF brokerVars, Delivered
    <2> QED BY <2>1, <2>2, <2>3 DEF Outbox!Acknowledge
  <1>4. ASSUME UNCHANGED <<rowVars, brokerVars>> PROVE UNCHANGED Outbox!vars
    BY <1>4 DEF rowVars, brokerVars, Outbox!vars, Delivered
  <1>5. ASSUME NEW r \in Relays, Send(r) \/ SendFails(r) PROVE Outbox!Deliver
    BY <1>2, <1>5 DEF Send, SendFails
  <1>6. ASSUME NEW r \in Relays, Mark(r) PROVE Outbox!Acknowledge
    BY <1>3, <1>6 DEF Mark
  <1>7. ASSUME NEW r \in Relays, MarkFails(r) PROVE Outbox!Acknowledge \/ UNCHANGED Outbox!vars
    BY <1>3, <1>4, <1>7 DEF MarkFails, rowVars
  <1>8. ASSUME NEW r \in Relays,
               Poll(r) \/ PollNothing(r) \/ BeginShutdown(r) \/ FinishShutdown(r) \/ Crash(r) \/ Restart(r)
        PROVE  UNCHANGED Outbox!vars
    BY <1>4, <1>8 DEF Poll, PollNothing, BeginShutdown, FinishShutdown, Crash, Restart, vars
  <1>9. CASE UNCHANGED vars
    BY <1>4, <1>9 DEF vars
  <1> QED
    BY <1>1, <1>5, <1>6, <1>7, <1>8, <1>9 DEF Next, Outbox!Next

\* The relays implement the abstract at-least-once outbox (its safety part:
\* a row is acknowledged only after it was delivered, and delivered only after
\* it was committed).
THEOREM RelayImplementsOutbox == Spec => ImplementsOutbox
  <1>1. Init => Outbox!Init
    BY TopicOfType DEF Init, Outbox!Init, Delivered
  <1> QED
    BY <1>1, StepRefines, Safety, PTL DEF Spec, ImplementsOutbox, Outbox!SafeSpec
=============================================================================
