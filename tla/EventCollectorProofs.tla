-------------------------- MODULE EventCollectorProofs --------------------------
(***************************************************************************)
(* Safety of the event collector for any requests, events, limits, faults,  *)
(* disconnecting clients, rebalances, stops and crashes.                    *)
(***************************************************************************)
EXTENDS EventCollector, FiniteSetTheorems, TLAPS

\* The record the consumer is at is in the topic and not processed yet.
RecordInv == at # "idle" => next \in 1 .. Len(dlq) /\ next \notin processed

\* The events of a batch are in events.raw from the moment the send resolved.
SentInv == \A r \in Requests : rq[r] = "routing" \/ r \in accepted => \A e \in Valid[r] : raw[e] > 0

InUse == {r \in Requests : Running(r) \/ rq[r] = "aborted"}

Inv == TypeOK /\ RecordInv /\ SentInv /\ SlotsMatchRequests

\* Where the copies of e in events.raw can come from: a request past its send,
\* a record processed in an earlier life of the consumer or in this one, and a
\* failed send, which may still be to come.
Carried(e) == {r \in Requests : e \in Valid[r] /\ rq[r] \notin {"new", "rejected", "admitted"}}
InThisLife(e) == IF running THEN Cardinality(Records(e) \intersect processed) ELSE 0
Late(e) == IF [to |-> "raw", ev |-> e] \in pending THEN 1 ELSE 0

CopiesInv ==
    \A e \in Events :
        raw[e] + Late(e) <= Cardinality(Carried(e)) + Cardinality(Records(e)) * (crashes + stops)
                            + InThisLife(e) + faults

-----------------------------------------------------------------------------
LEMMA SetToSeqType ==
  ASSUME NEW S, IsFiniteSet(S)
  PROVE  SetToSeq(S) \in Seq(S)
  <1>1. Cardinality(S) \in Nat /\ ExistsBijection(1 .. Cardinality(S), S)
    BY FS_CardinalityType
  <1>2. \E f \in [1 .. Cardinality(S) -> S] : IsInjective(f)
    BY <1>1 DEF ExistsBijection, Bijection, Injection
  <1>3. SetToSeq(S) \in [1 .. Cardinality(S) -> S]
    BY <1>2 DEF SetToSeq
  <1> QED BY <1>1, <1>3

\* A batch holds finitely many events.
LEMMA BatchType ==
  ASSUME NEW r \in Requests
  PROVE  /\ Valid[r] \subseteq Events /\ Invalid[r] \subseteq Events
         /\ IsFiniteSet(Invalid[r]) /\ Cost(r) \in Nat
  <1>1. Valid[r] \subseteq Events /\ Invalid[r] \subseteq Events /\ IsFiniteSet(Valid[r] \union Invalid[r])
    BY BatchesAssumption
  <1>2. IsFiniteSet(Invalid[r])
    BY <1>1, FS_Subset
  <1> QED BY <1>1, <1>2, FS_CardinalityType DEF Cost

\* The dead-letter topic is only appended to.
Appended == /\ dlq' \in Seq(Events) /\ Len(dlq) <= Len(dlq')
            /\ \A i \in 1 .. Len(dlq) : dlq'[i] = dlq[i]

LEMMA DlqGrows ==
  ASSUME dlq \in Seq(Events), NEW s \in Seq(Events), dlq' = dlq \o s
  PROVE  Appended
  BY DEF Appended

LEMMA DlqStep ==
  ASSUME TypeOK, [Next]_vars
  PROVE  Appended
  <1>0. dlq \in Seq(Events) /\ Len(dlq) \in Nat /\ pending \subseteq [to : {"raw", "dlq", "exhausted"}, ev : Events]
    BY DEF TypeOK
  <1>1. ASSUME UNCHANGED dlq PROVE Appended
    BY <1>0, <1>1 DEF Appended
  <1>2. ASSUME NEW r \in Requests, Guard(r) \/ Refuse(r) \/ SendValid(r) \/ Finish(r) \/ ClientAborts(r)
        PROVE  UNCHANGED dlq
    BY <1>2 DEF Guard, Refuse, SendValid, Finish, ClientAborts, topicVars
  <1>3. ASSUME NEW r \in Requests, RouteInvalid(r) PROVE Appended
    <2>1. SetToSeq(Invalid[r]) \in Seq(Invalid[r]) /\ Invalid[r] \subseteq Events
      BY BatchType, SetToSeqType
    <2>2. SetToSeq(Invalid[r]) \in Seq(Events)
      BY <2>1
    <2> QED BY <1>0, <1>1, <1>3, <2>2, DlqGrows DEF RouteInvalid
  <1>4. ASSUME NEW p \in pending, Land(p) PROVE Appended
    <2>1. p.ev \in Events
      BY <1>0
    <2>2. dlq' = dlq \/ dlq' = Append(dlq, p.ev)
      BY <1>4 DEF Land
    <2> QED BY <1>0, <1>1, <2>1, <2>2 DEF Appended
  <1>5. ASSUME Refill \/ TakeRecord \/ Reprocess \/ Exhaust \/ CommitOffset \/ Rebalance \/ Stop \/ Restart
               \/ UNCHANGED vars
        PROVE  UNCHANGED dlq
    BY <1>5 DEF Refill, TakeRecord, Reprocess, Exhaust, CommitOffset, Rebalance, Stop, Restart, vars, topicVars
  <1> QED BY <1>1, <1>2, <1>3, <1>4, <1>5 DEF Next, RequestStep, ConsumerStep
-----------------------------------------------------------------------------
LEMMA InitInv == Init => Inv /\ CopiesInv
  <1> SUFFICES ASSUME Init PROVE Inv /\ CopiesInv
    OBVIOUS
  <1> USE DEF Init
  <1>1. TypeOK
    BY LimitsAssumption DEF TypeOK
  <1>2. RecordInv /\ SentInv
    BY DEF RecordInv, SentInv
  <1>3. SlotsMatchRequests
    <2>1. {r \in Requests : Running(r) \/ rq[r] = "aborted"} = {}
      BY DEF Running, InHand
    <2> QED BY <2>1, FS_EmptySet DEF SlotsMatchRequests
  <1>4. CopiesInv
    <2> SUFFICES ASSUME NEW e \in Events
                 PROVE  raw[e] + Late(e) <= Cardinality(Carried(e)) + Cardinality(Records(e)) * (crashes + stops)
                                            + InThisLife(e) + faults
      BY DEF CopiesInv
    <2>1. Carried(e) = {} /\ Records(e) = {} /\ Records(e) \intersect processed = {}
      BY DEF Carried, Records
    <2>2. Cardinality({}) = 0
      BY FS_EmptySet
    <2> QED BY <2>1, <2>2 DEF Late, InThisLife
  <1> QED BY <1>1, <1>2, <1>3, <1>4 DEF Inv

\* A failed send leaves records that may still arrive.
LEMMA MayLandType ==
  ASSUME TypeOK, NEW topic \in {"raw", "dlq", "exhausted"}, NEW events \in SUBSET Events,
         MayLand(topic, events)
  PROVE  pending' \subseteq [to : {"raw", "dlq", "exhausted"}, ev : Events]
  BY DEF MayLand, TypeOK

States == InHand \union {"new", "rejected", "closed", "aborted", "lost"}

LEMMA RequestType ==
  ASSUME Inv, NEW r \in Requests, RequestStep(r) \/ ClientAborts(r)
  PROVE  /\ rq' \in [Requests -> States]
         /\ gone' \subseteq Requests /\ accepted' \subseteq Requests
         /\ inFlight' \in 0 .. MaxConcurrent /\ tokens' \in 0 .. Burst
         /\ raw' \in [Events -> Nat]
         /\ pending' \subseteq [to : {"raw", "dlq", "exhausted"}, ev : Events]
         /\ faults' \in Nat /\ aborts' \in Nat
         /\ UNCHANGED <<exhausted, dlqVars, rebalances, crashes, stops>>
  <1> USE LimitsAssumption DEF Inv, TypeOK, topicVars, bounds, Goto, States, InHand
  <1>1. CASE Guard(r)
    <2>1. Charges(r) \subseteq Nat
      BY BatchType DEF Charges
    <2>2. inFlight < MaxConcurrent => SlotsAfterRejection = inFlight
      BY DEF SlotsAfterRejection, Released
    <2>3. tokens' \in 0 .. Burst
      BY <1>1, <2>1 DEF Guard
    <2>4. inFlight' \in {inFlight, inFlight + 1} /\ (inFlight' # inFlight => inFlight < MaxConcurrent)
      BY <1>1, <2>2 DEF Guard
    <2>5. rq' \in [Requests -> States]
      BY <1>1 DEF Guard
    <2> QED BY <1>1, <2>3, <2>4, <2>5 DEF Guard
  <1>2. CASE Refuse(r)
    BY <1>2 DEF Refuse
  <1>3. CASE SendValid(r)
    <2>1. Valid[r] \in SUBSET Events
      BY BatchType
    <2>2. UNCHANGED <<gone, accepted, inFlight, tokens, exhausted, dlqVars, aborts, rebalances, crashes, stops>>
      BY <1>3 DEF SendValid
    <2>3. rq' = [rq EXCEPT ![r] = "routing"] \/ rq' = [rq EXCEPT ![r] = "failed"]
      BY <1>3 DEF SendValid, AfterFailedSend
    <2>4. faults' = faults \/ faults' = faults + 1
      BY <1>3 DEF SendValid, Fault, NoFault
    <2>5. raw' = raw \/ raw' = [e \in Events |-> raw[e] + (IF e \in Valid[r] THEN 1 ELSE 0)]
      BY <1>3 DEF SendValid
    <2>6. pending' = pending \/ MayLand("raw", Valid[r])
      BY <1>3 DEF SendValid
    <2>7. rq' \in [Requests -> States]
      BY <2>3
    <2>8. raw' \in [Events -> Nat]
      <3>1. \A e \in Events : raw[e] + (IF e \in Valid[r] THEN 1 ELSE 0) \in Nat
        OBVIOUS
      <3>2. [e \in Events |-> raw[e] + (IF e \in Valid[r] THEN 1 ELSE 0)] \in [Events -> Nat]
        BY <3>1
      <3> QED BY <2>5, <3>2
    <2>9. pending' \subseteq [to : {"raw", "dlq", "exhausted"}, ev : Events]
      BY <2>1, <2>6, MayLandType
    <2> QED BY <2>2, <2>4, <2>7, <2>8, <2>9
  <1>4. CASE RouteInvalid(r)
    <2>1. Invalid[r] \in SUBSET Events
      BY BatchType
    <2>2. pending' = pending \/ MayLand("dlq", Invalid[r])
      BY <1>4 DEF RouteInvalid
    <2>3. pending' \subseteq [to : {"raw", "dlq", "exhausted"}, ev : Events]
      BY <2>1, <2>2, MayLandType
    <2>4. /\ UNCHANGED <<gone, inFlight, tokens, raw, exhausted, dlqVars, aborts, rebalances, crashes, stops>>
          /\ rq' = [rq EXCEPT ![r] = "answered"] /\ accepted' = accepted \union {r}
      BY <1>4 DEF RouteInvalid
    <2>5. faults' = faults \/ faults' = faults + 1
      BY <1>4 DEF RouteInvalid, Fault, NoFault
    <2>6. rq' \in [Requests -> States] /\ accepted' \subseteq Requests
      BY <2>4
    <2> QED BY <2>3, <2>4, <2>5, <2>6
  <1>5. CASE Finish(r)
    <2>1. rq' \in {[rq EXCEPT ![r] = "aborted"], [rq EXCEPT ![r] = "closed"]}
      BY <1>5 DEF Finish
    <2>2. inFlight' \in 0 .. MaxConcurrent
      BY <1>5 DEF Finish, Released
    <2>3. UNCHANGED <<gone, accepted, tokens, raw, pending, exhausted, dlqVars, faults, aborts, rebalances, crashes, stops>>
      BY <1>5 DEF Finish
    <2>4. rq' \in [Requests -> States]
      BY <2>1
    <2> QED BY <2>2, <2>3, <2>4
  <1>6. CASE ClientAborts(r)
    BY <1>6 DEF ClientAborts
  <1> QED BY <1>1, <1>2, <1>3, <1>4, <1>5, <1>6 DEF RequestStep

LEMMA TypeStep == Inv /\ [Next]_vars => TypeOK' /\ RecordInv'
  <1> SUFFICES ASSUME Inv, [Next]_vars PROVE TypeOK' /\ RecordInv'
    OBVIOUS
  <1>0. Appended
    BY DlqStep DEF Inv
  <1>d. /\ dlq' \in Seq(Events) /\ Len(dlq) \in Nat /\ Len(dlq') \in Nat /\ Len(dlq) <= Len(dlq')
        /\ \A i \in 1 .. Len(dlq) : i \in 1 .. Len(dlq') /\ dlq[i] \in Events
    <2>1. dlq \in Seq(Events) /\ dlq' \in Seq(Events) /\ Len(dlq) <= Len(dlq')
      BY <1>0 DEF Inv, TypeOK, Appended
    <2> QED BY <2>1
  <1> USE LimitsAssumption DEF Inv, TypeOK, RecordInv, requestVars, topicVars, dlqVars, bounds, Fault, NoFault, InHand
  <1>1. ASSUME NEW r \in Requests, RequestStep(r) \/ ClientAborts(r) PROVE TypeOK' /\ RecordInv'
    <2>1. UNCHANGED <<exhausted, dlqVars, rebalances, crashes, stops>>
      BY <1>1, RequestType
    <2>2. /\ next \in 1 .. Len(dlq') + 1 /\ committed \in 0 .. Len(dlq') /\ processed \subseteq 1 .. Len(dlq')
          /\ at # "idle" => next \in 1 .. Len(dlq')
      BY <1>d
    <2>3. TypeOK'
      BY <1>1, <1>d, <2>1, <2>2, RequestType DEF States
    <2> QED BY <2>1, <2>2, <2>3
  <1>2. CASE Refill
    BY <1>2 DEF Refill
  <1>3. ASSUME NEW p \in pending, Land(p) PROVE TypeOK' /\ RecordInv'
    <2>1. p.ev \in Events
      OBVIOUS
    <2>2. raw' \in [Events -> Nat] /\ exhausted' \subseteq Events /\ pending' \subseteq pending
      BY <1>3, <2>1 DEF Land
    <2>3. UNCHANGED <<requestVars, dlqVars, faults, bounds>>
      BY <1>3 DEF Land
    <2>4. RecordInv'
      BY <1>d, <2>3
    <2>5. /\ next \in 1 .. Len(dlq') + 1 /\ committed \in 0 .. Len(dlq') /\ processed \subseteq 1 .. Len(dlq')
      BY <1>d
    <2> QED BY <1>d, <2>2, <2>3, <2>4, <2>5
  <1>4. CASE TakeRecord
    <2>1. /\ UNCHANGED <<requestVars, topicVars, running, maxRetries, committed, processed, faults, bounds>>
          /\ next \in 1 .. Len(dlq)
      BY <1>4 DEF TakeRecord
    <2>2. \/ next' = next + 1 /\ at' = "idle"
          \/ next' = next /\ next \notin processed /\ at' \in {"exhaust", "backoff"}
      BY <1>4 DEF TakeRecord, Handled, AlreadyProcessed
    <2>3. next' \in 1 .. Len(dlq) + 1 /\ committed < next'
      BY <2>1, <2>2
    <2>4. RecordInv'
      BY <2>1, <2>2
    <2> QED BY <2>1, <2>2, <2>3, <2>4
  <1>5. CASE Reprocess
    <2>1. next \in 1 .. Len(dlq) /\ next \notin processed /\ dlq[next] \in Events /\ UNCHANGED dlq
      BY <1>5, <1>d DEF Reprocess
    <2>2. raw' \in [Events -> Nat]
      BY <1>5, <2>1 DEF Reprocess, Republish
    <2>3. pending' \subseteq [to : {"raw", "dlq", "exhausted"}, ev : Events]
      BY <1>5, <2>1, MayLandType DEF Reprocess
    <2>4. \/ next' = next + 1 /\ at' = "idle" /\ processed' \in {processed, processed \union {next}}
          \/ next' = next /\ at' = "exhaust" /\ processed' = processed
      BY <1>5 DEF Reprocess, Handled, MarkProcessed
    <2>f. faults' = faults \/ faults' = faults + 1
      BY <1>5 DEF Reprocess
    <2>5. faults' \in Nat
      BY <2>f
    <2>6. UNCHANGED <<requestVars, dlq, exhausted, running, maxRetries, committed, bounds>>
      BY <1>5 DEF Reprocess
    <2>7. /\ next' \in 1 .. Len(dlq) + 1 /\ committed < next' /\ processed' \subseteq 1 .. Len(dlq)
          /\ at' \in {"idle", "exhaust"}
      <3>1. next \in Nat /\ committed \in Nat /\ committed < next /\ processed \subseteq 1 .. Len(dlq)
        OBVIOUS
      <3>2. CASE next' = next + 1 /\ at' = "idle" /\ processed' \in {processed, processed \union {next}}
        BY <1>d, <2>1, <3>1, <3>2
      <3>3. CASE next' = next /\ at' = "exhaust" /\ processed' = processed
        BY <1>d, <2>1, <3>1, <3>3
      <3> QED BY <2>4, <3>2, <3>3
    <2>8. RecordInv'
      BY <2>1, <2>4
    <2> QED BY <2>1, <2>2, <2>3, <2>5, <2>6, <2>7, <2>8
  <1>6. CASE Exhaust
    <2>1. next \in 1 .. Len(dlq) /\ dlq[next] \in Events /\ UNCHANGED dlq
      BY <1>6, <1>d DEF Exhaust
    <2>2. pending' \subseteq [to : {"raw", "dlq", "exhausted"}, ev : Events]
      BY <1>6, <2>1, MayLandType DEF Exhaust
    <2>3. /\ next' = next + 1 /\ at' = "idle" /\ processed' \in {processed, processed \union {next}}
          /\ exhausted' \subseteq Events /\ faults' \in Nat
      BY <1>6, <2>1 DEF Exhaust, Handled, MarkProcessed
    <2> QED BY <1>6, <2>1, <2>2, <2>3 DEF Exhaust
  <1>7. CASE CommitOffset
    BY <1>7 DEF CommitOffset
  <1>8. CASE Rebalance \/ Stop
    <2>1. CASE Rebalance
      <3>1. next' = committed + 1 /\ at' = "idle" /\ UNCHANGED <<requestVars, topicVars, running, maxRetries,
              committed, processed, faults, aborts, crashes, stops>> /\ rebalances' = rebalances + 1
        BY <2>1 DEF Rebalance
      <3>2. next' \in 1 .. Len(dlq) + 1 /\ committed < next'
        BY <1>d, <3>1
      <3> QED BY <3>1, <3>2
    <2>2. CASE Stop
      <3>1. UNCHANGED <<requestVars, topicVars, maxRetries, at, next, committed, processed, faults,
                        aborts, rebalances, crashes>> /\ stops' = stops + 1 /\ running' = FALSE
        BY <2>2 DEF Stop
      <3>2. stops' \in Nat
        BY <3>1
      <3>3. running' \in BOOLEAN
        BY <3>1, Zenon
      <3>4. UNCHANGED <<requestVars, topicVars, maxRetries, at, next, committed, processed, faults,
                        aborts, rebalances, crashes>>
        BY <3>1
      <3> QED BY <3>2, <3>3, <3>4
    <2> QED BY <1>8, <2>1, <2>2
  <1>9. CASE Restart
    <2>1. rq' \in [Requests -> States]
      BY <1>9 DEF Restart, States
    <2>2. crashes' \in Nat
      BY <1>9 DEF Restart
    <2> QED BY <1>9, <2>1, <2>2 DEF Restart, States
  <1>10. CASE UNCHANGED vars
    BY <1>10 DEF vars
  <1> QED BY <1>1, <1>2, <1>3, <1>4, <1>5, <1>6, <1>7, <1>8, <1>9, <1>10 DEF Next, ConsumerStep
-----------------------------------------------------------------------------
LEMMA InUseFinite == IsFiniteSet(InUse) /\ Cardinality(InUse) \in Nat
  <1>1. InUse \in SUBSET Requests
    BY DEF InUse
  <1> QED BY <1>1, BatchesAssumption, FS_Subset, FS_CardinalityType

\* A slot is taken by the request that is admitted and returned by the one
\* that is closed; every other step leaves the requests in hand as they are.
LEMMA SlotsStep == Inv /\ [Next]_vars => SlotsMatchRequests'
  <1> SUFFICES ASSUME Inv, [Next]_vars PROVE inFlight' = Cardinality(InUse')
    BY DEF SlotsMatchRequests, InUse
  <1>0. inFlight = Cardinality(InUse) /\ inFlight \in Nat /\ rq \in [Requests -> States]
    BY InUseFinite DEF Inv, SlotsMatchRequests, InUse, TypeOK, States
  <1>1. ASSUME InUse' = InUse, inFlight' = inFlight PROVE inFlight' = Cardinality(InUse')
    BY <1>0, <1>1
  <1>2. ASSUME UNCHANGED <<rq, inFlight>> PROVE inFlight' = Cardinality(InUse')
    BY <1>1, <1>2 DEF InUse, Running
  <1>3. ASSUME NEW r \in Requests, Guard(r) PROVE inFlight' = Cardinality(InUse')
    <2>1. r \notin InUse
      BY <1>3 DEF Guard, InUse, Running, InHand
    <2>2. CASE Goto(r, "rejected") /\ inFlight' \in {inFlight, SlotsAfterRejection}
      <3>1. SlotsAfterRejection = inFlight
        BY <1>0 DEF SlotsAfterRejection, Released
      <3>2. InUse' = InUse
        BY <1>0, <2>1, <2>2 DEF Goto, InUse, Running, InHand
      <3> QED BY <1>1, <2>2, <3>1, <3>2
    <2>3. CASE Goto(r, "admitted") /\ inFlight' = inFlight + 1
      <3>1. InUse' = InUse \union {r}
        BY <1>0, <2>3 DEF Goto, InUse, Running, InHand
      <3> QED BY <1>0, <2>1, <2>3, <3>1, InUseFinite, FS_AddElement
    <2> QED BY <1>3, <2>2, <2>3 DEF Guard
  <1>4. ASSUME NEW r \in Requests, Running(r), NEW l \in InHand \union {"aborted"}, Goto(r, l), UNCHANGED inFlight
        PROVE  inFlight' = Cardinality(InUse')
    <2>1. InUse' = InUse
      BY <1>0, <1>4 DEF Goto, InUse, Running, InHand
    <2> QED BY <1>1, <1>4, <2>1
  <1>5. ASSUME NEW r \in Requests, Refuse(r) \/ SendValid(r) \/ RouteInvalid(r)
        PROVE  inFlight' = Cardinality(InUse')
    <2>1. Running(r) /\ UNCHANGED inFlight /\ \E l \in InHand \union {"aborted"} : Goto(r, l)
      BY <1>5 DEF Refuse, SendValid, RouteInvalid, AfterFailedSend, Running, InHand
    <2> QED BY <1>4, <2>1
  <1>6. ASSUME NEW r \in Requests, Finish(r) PROVE inFlight' = Cardinality(InUse')
    <2>1. Running(r) /\ r \in InUse
      BY <1>6 DEF Finish, InUse, Running, InHand
    <2>2. CASE Goto(r, "closed") /\ inFlight' = Released(inFlight)
      <3>1. InUse' = InUse \ {r}
        BY <1>0, <2>1, <2>2 DEF Goto, InUse, Running, InHand
      <3>2. Cardinality(InUse') = Cardinality(InUse) - 1
        BY <2>1, <3>1, InUseFinite, FS_RemoveElement
      <3>3. inFlight # 0
        BY <1>0, <2>1, InUseFinite, FS_EmptySet
      <3> QED BY <1>0, <2>2, <3>2, <3>3 DEF Released
    <2>3. CASE Goto(r, "aborted") /\ UNCHANGED inFlight
      BY <1>4, <2>1, <2>3
    <2> QED BY <1>6, <2>2, <2>3 DEF Finish
  <1>7. ASSUME \/ \E r \in Requests : ClientAborts(r)
               \/ \E p \in pending : Land(p)
               \/ Refill \/ TakeRecord \/ Reprocess \/ Exhaust \/ CommitOffset \/ Rebalance \/ Stop
               \/ UNCHANGED vars
        PROVE  UNCHANGED <<rq, inFlight>>
    BY <1>7 DEF ClientAborts, Land, Refill, TakeRecord, Reprocess, Exhaust, CommitOffset, Rebalance, Stop,
       vars, requestVars
  <1>8. CASE Restart
    <2>1. InUse' = {}
      BY <1>0, <1>8 DEF Restart, InUse, Running, InHand
    <2> QED BY <1>8, <2>1, FS_EmptySet DEF Restart
  <1> QED BY <1>2, <1>3, <1>5, <1>6, <1>7, <1>8 DEF Next, RequestStep, ConsumerStep

\* events.raw is only appended to.
LEMMA RawGrows ==
  ASSUME Inv, [Next]_vars, NEW e \in Events
  PROVE  raw[e] \in Nat /\ raw'[e] \in Nat /\ raw[e] <= raw'[e]
  <1>0. raw \in [Events -> Nat] /\ raw' \in [Events -> Nat]
    BY TypeStep DEF Inv, TypeOK
  <1>1. ASSUME UNCHANGED raw PROVE raw[e] <= raw'[e]
    BY <1>0, <1>1
  <1>2. ASSUME NEW r \in Requests, SendValid(r) PROVE raw[e] <= raw'[e]
    BY <1>0, <1>2 DEF SendValid
  <1>3. ASSUME NEW r \in Requests, Guard(r) \/ Refuse(r) \/ RouteInvalid(r) \/ Finish(r) \/ ClientAborts(r)
        PROVE  UNCHANGED raw
    BY <1>3 DEF Guard, Refuse, RouteInvalid, Finish, ClientAborts, topicVars
  <1>4. ASSUME NEW p \in pending, Land(p) PROVE raw[e] <= raw'[e]
    BY <1>0, <1>4 DEF Land
  <1>5. CASE Reprocess
    BY <1>0, <1>5 DEF Reprocess, Republish
  <1>6. ASSUME Refill \/ TakeRecord \/ Exhaust \/ CommitOffset \/ Rebalance \/ Stop \/ Restart \/ UNCHANGED vars
        PROVE  UNCHANGED raw
    BY <1>6 DEF Refill, TakeRecord, Exhaust, CommitOffset, Rebalance, Stop, Restart, vars, topicVars
  <1> QED BY <1>0, <1>1, <1>2, <1>3, <1>4, <1>5, <1>6 DEF Next, RequestStep, ConsumerStep

LEMMA SentStep == Inv /\ [Next]_vars => SentInv'
  <1> SUFFICES ASSUME Inv, [Next]_vars, NEW r \in Requests, rq'[r] = "routing" \/ r \in accepted',
                      NEW e \in Valid[r]
               PROVE  raw'[e] > 0
    BY DEF SentInv
  <1>0. e \in Events /\ raw[e] \in Nat /\ raw'[e] \in Nat /\ raw[e] <= raw'[e] /\ rq \in [Requests -> States]
    BY BatchType, RawGrows DEF Inv, TypeOK, States
  <1>1. ASSUME rq[r] = "routing" \/ r \in accepted PROVE raw'[e] > 0
    <2>1. raw[e] > 0
      BY <1>1 DEF Inv, SentInv
    <2> QED BY <1>0, <2>1
  <1>2. ASSUME NEW q \in Requests, SendValid(q) PROVE raw'[e] > 0
    <2>1. CASE q = r /\ raw' = [x \in Events |-> raw[x] + (IF x \in Valid[q] THEN 1 ELSE 0)]
      BY <1>0, <2>1
    <2>2. CASE q = r /\ Goto(q, AfterFailedSend)
      BY <1>0, <1>1, <1>2, <2>2 DEF SendValid, Goto, AfterFailedSend
    <2>3. CASE q # r
      BY <1>0, <1>1, <1>2, <2>3 DEF SendValid, Goto
    <2> QED BY <1>2, <2>1, <2>2, <2>3 DEF SendValid
  <1>3. ASSUME NEW q \in Requests, Guard(q) \/ Refuse(q) \/ Finish(q) \/ RouteInvalid(q)
        PROVE  rq[r] = "routing" \/ r \in accepted
    BY <1>0, <1>3 DEF Guard, Refuse, Finish, RouteInvalid, Goto
  <1>4. ASSUME \/ \E q \in Requests : ClientAborts(q)
               \/ \E p \in pending : Land(p)
               \/ Refill \/ TakeRecord \/ Reprocess \/ Exhaust \/ CommitOffset \/ Rebalance \/ Stop
               \/ UNCHANGED vars
        PROVE  UNCHANGED <<rq, accepted>>
    BY <1>4 DEF ClientAborts, Land, Refill, TakeRecord, Reprocess, Exhaust, CommitOffset, Rebalance, Stop,
       vars, requestVars
  <1>5. CASE Restart
    BY <1>0, <1>1, <1>5 DEF Restart
  <1> QED BY <1>1, <1>2, <1>3, <1>4, <1>5 DEF Next, RequestStep, ConsumerStep
-----------------------------------------------------------------------------
(* The copies in events.raw *)

\* The places of an element in a sequence.
LEMMA PlacesFinite ==
  ASSUME NEW s \in Seq(Events), NEW e
  PROVE  IsFiniteSet({i \in DOMAIN s : s[i] = e})
  <1>1. {i \in DOMAIN s : s[i] = e} \in SUBSET (1 .. Len(s)) /\ Len(s) \in Nat
    OBVIOUS
  <1>2. IsFiniteSet(1 .. Len(s))
    BY <1>1, FS_Interval
  <1> QED BY <1>1, <1>2, FS_Subset

LEMMA RecordsType ==
  ASSUME TypeOK, NEW e \in Events
  PROVE  /\ Records(e) \subseteq 1 .. Len(dlq)
         /\ IsFiniteSet(Records(e)) /\ Cardinality(Records(e)) \in Nat
         /\ Cardinality(Records(e) \intersect processed) \in Nat
         /\ Cardinality(Records(e) \intersect processed) <= Cardinality(Records(e))
  <1>1. dlq \in Seq(Events)
    BY DEF TypeOK
  <1>2. Records(e) \subseteq 1 .. Len(dlq) /\ Len(dlq) \in Nat
    BY <1>1 DEF Records
  <1>3. IsFiniteSet(Records(e))
    BY <1>1, PlacesFinite DEF Records
  <1> QED BY <1>2, <1>3, FS_Intersection, FS_CardinalityType

LEMMA RecordsGrow ==
  ASSUME Inv, [Next]_vars, NEW e \in Events
  PROVE  Records(e) \subseteq Records(e)' /\ Cardinality(Records(e)) <= Cardinality(Records(e)')
  <1>1. dlq \in Seq(Events) /\ Appended
    BY DlqStep DEF Inv, TypeOK
  <1>2. \A i \in DOMAIN dlq : i \in DOMAIN dlq' /\ dlq'[i] = dlq[i]
    BY <1>1 DEF Appended
  <1>3. Records(e) \subseteq Records(e)'
    BY <1>2 DEF Records
  <1>4. IsFiniteSet(Records(e)')
    BY <1>1, PlacesFinite DEF Records, Appended
  <1> QED BY <1>3, <1>4, FS_Subset

LEMMA CarriedType ==
  ASSUME NEW e \in Events
  PROVE  IsFiniteSet(Carried(e)) /\ Cardinality(Carried(e)) \in Nat
  <1>1. Carried(e) \in SUBSET Requests
    BY DEF Carried
  <1> QED BY <1>1, BatchesAssumption, FS_Subset, FS_CardinalityType

\* A request past its send stays past it.
LEMMA CarriedGrows ==
  ASSUME Inv, [Next]_vars, NEW e \in Events
  PROVE  Carried(e) \subseteq Carried(e)' /\ Cardinality(Carried(e)) <= Cardinality(Carried(e)')
  <1>0. rq \in [Requests -> States]
    BY DEF Inv, TypeOK, States
  <1>1. ASSUME NEW r \in Requests, rq[r] \notin {"new", "rejected", "admitted"}
        PROVE  rq'[r] \notin {"new", "rejected", "admitted"}
    <2>1. ASSUME NEW q \in Requests, Guard(q) PROVE rq'[r] = rq[r]
      BY <1>0, <1>1, <2>1 DEF Guard, Goto
    <2>2. ASSUME NEW q \in Requests, Refuse(q) \/ SendValid(q) \/ RouteInvalid(q) \/ Finish(q)
          PROVE  rq'[r] \notin {"new", "rejected", "admitted"}
      BY <1>0, <1>1, <2>2 DEF Refuse, SendValid, RouteInvalid, Finish, Goto, AfterFailedSend
    <2>3. ASSUME \/ \E q \in Requests : ClientAborts(q)
                 \/ \E p \in pending : Land(p)
                 \/ Refill \/ TakeRecord \/ Reprocess \/ Exhaust \/ CommitOffset \/ Rebalance \/ Stop
                 \/ UNCHANGED vars
          PROVE  UNCHANGED rq
      BY <2>3 DEF ClientAborts, Land, Refill, TakeRecord, Reprocess, Exhaust, CommitOffset, Rebalance, Stop,
         vars, requestVars
    <2>4. CASE Restart
      BY <1>0, <1>1, <2>4 DEF Restart
    <2> QED BY <1>1, <2>1, <2>2, <2>3, <2>4 DEF Next, RequestStep, ConsumerStep
  <1>2. Carried(e) \subseteq Carried(e)'
    BY <1>1 DEF Carried
  <1>3. Carried(e)' \in SUBSET Requests
    BY DEF Carried
  <1>4. IsFiniteSet(Carried(e)')
    BY <1>3, BatchesAssumption, FS_Subset
  <1> QED BY <1>2, <1>4, FS_Subset

LEMMA Product ==
  ASSUME NEW a \in Nat, NEW b \in Nat, NEW k \in Nat, a <= b
  PROVE  a * k \in Nat /\ b * k \in Nat /\ a * k <= b * k /\ b * (k + 1) = b * k + b
  <1>1. PICK d \in Nat : b = a + d
    <2>1. b - a \in Nat /\ b = a + (b - a)
      OBVIOUS
    <2> QED BY <2>1
  <1>2. b * k = a * k + d * k /\ d * k \in Nat /\ a * k \in Nat
    BY <1>1
  <1> QED BY <1>2
LEMMA SumType ==
  ASSUME NEW x \in Nat, NEW y \in Nat
  PROVE  x + y \in Nat
  OBVIOUS

\* What a step pays for covers the copies it adds.
LEMMA Balance ==
  ASSUME NEW x \in Nat, NEW y \in Nat, NEW paid \in Nat, NEW p \in Nat, NEW q \in Nat, p <= q,
         NEW c \in Nat, NEW l \in Nat, NEW f \in Nat, NEW cc \in Nat, NEW ll \in Nat, NEW ff \in Nat,
         x <= c + p + l + f, y <= x + paid, c + l + f + paid <= cc + ll + ff
  PROVE  y <= cc + q + ll + ff
  OBVIOUS

LEMMA Sums ==
  ASSUME NEW c \in Nat, NEW l \in Nat, NEW f \in Nat, NEW cc \in Nat, NEW ll \in Nat, NEW ff \in Nat,
         c <= cc, l <= ll, f <= ff
  PROVE  c + l + f + 0 <= cc + ll + ff
  OBVIOUS

\* A failed send may add one late record of an event.
LEMMA LateOfSend ==
  ASSUME NEW topic, NEW events, MayLand(topic, events), NEW e \in Events
  PROVE  topic # "raw" => Late(e)' = Late(e)
  BY DEF MayLand, Late

\* Each copy of an event in events.raw is paid for by a request past its send,
\* by a record that a life of the consumer processed, or by a fault.
LEMMA CopiesStep == Inv /\ CopiesInv /\ [Next]_vars => CopiesInv'
  <1> SUFFICES ASSUME Inv, CopiesInv, [Next]_vars, NEW e \in Events
               PROVE  (raw[e] + Late(e) <= Cardinality(Carried(e)) + Cardinality(Records(e)) * (crashes + stops)
                                           + InThisLife(e) + faults)'
    BY DEF CopiesInv
  <1> DEFINE C == Cardinality(Carried(e))
             R == Cardinality(Records(e))
             k == crashes + stops
             L == InThisLife(e)
             T == Late(e)
  <1>t. raw[e] \in Nat /\ k \in Nat /\ faults \in Nat
    BY DEF Inv, TypeOK
  <1>c. C \in Nat /\ R \in Nat /\ Cardinality(Records(e) \intersect processed) \in Nat
        /\ Cardinality(Records(e) \intersect processed) <= R
    BY RecordsType, CarriedType DEF Inv
  <1>l. L \in Nat /\ L <= R
    <2>1. CASE running
      BY <1>c, <2>1 DEF InThisLife
    <2>2. CASE ~running
      BY <1>c, <2>2 DEF InThisLife
    <2> QED BY <2>1, <2>2
  <1>a. T \in 0 .. 1 /\ T' \in 0 .. 1
    BY DEF Late
  <1>b. raw[e] + T <= C + R * k + L + faults
    BY DEF CopiesInv
  <1>1. /\ raw[e] \in Nat /\ C \in Nat /\ R \in Nat /\ k \in Nat /\ L \in Nat /\ faults \in Nat
        /\ T \in 0 .. 1 /\ L <= R
        /\ raw[e] + T <= C + R * k + L + faults
    BY <1>t, <1>c, <1>l, <1>a, <1>b
  <1>2. /\ raw'[e] \in Nat /\ C' \in Nat /\ R' \in Nat /\ k' \in Nat /\ faults' \in Nat
        /\ T' \in 0 .. 1 /\ C <= C' /\ R <= R'
    <2>1. TypeOK' /\ dlq' \in Seq(Events)
      BY TypeStep DEF TypeOK
    <2>2. R' \in Nat /\ R <= R'
      BY <2>1, PlacesFinite, FS_CardinalityType, RecordsGrow DEF Records
    <2>3. Carried(e)' \in SUBSET Requests
      BY DEF Carried
    <2>4. C' \in Nat /\ C <= C'
      BY <2>3, BatchesAssumption, FS_Subset, FS_CardinalityType, CarriedGrows
    <2>5. raw' \in [Events -> Nat] /\ faults' \in Nat /\ crashes' \in Nat /\ stops' \in Nat
      BY <2>1 DEF TypeOK
    <2>6. raw'[e] \in Nat
      BY <2>5
    <2>7. k' \in Nat
      <3>1. crashes' \in Nat /\ stops' \in Nat
        BY <2>5
      <3>2. crashes' + stops' \in Nat
        BY <3>1, SumType
      <3> QED BY <3>2
    <2> QED BY <1>a, <2>2, <2>4, <2>5, <2>6, <2>7
  \* The records processed in this life are among those of the topic.
  <1>3. Cardinality((Records(e) \intersect processed)') \in Nat
    <2>1. IsFiniteSet(Records(e)')
      BY TypeStep, PlacesFinite DEF Records, TypeOK
    <2> QED BY <2>1, FS_Intersection, FS_CardinalityType
  <1>4. L' \in Nat
    BY <1>3 DEF InThisLife
  <1>5. processed \subseteq processed' => Cardinality(Records(e) \intersect processed) <= Cardinality((Records(e) \intersect processed)')
    <2>1. IsFiniteSet(Records(e)') /\ Records(e) \subseteq Records(e)'
      BY TypeStep, PlacesFinite, RecordsGrow DEF Records, TypeOK
    <2>2. IsFiniteSet((Records(e) \intersect processed)')
      BY <2>1, FS_Intersection
    <2> QED BY <2>1, <2>2, FS_Subset
  <1>6. processed \subseteq processed' /\ running' = running => L <= L'
    BY <1>5 DEF InThisLife
  <1>p. /\ R * k \in Nat /\ R' * k \in Nat /\ R * k <= R' * k
        /\ R' * (k + 1) = R' * k + R'
    BY <1>1, <1>2, Product
  <1> HIDE DEF C, R, k, L, T
  \* The copies of a step that is neither a stop nor a restart.
  <1>7. ASSUME k' = k, NEW paid \in Nat, raw'[e] + T' <= raw[e] + T + paid,
               C + L + faults + paid <= C' + L' + faults'
        PROVE  raw'[e] + T' <= C' + R' * k' + L' + faults'
    <2>1. T \in Nat /\ T' \in Nat
      BY <1>1, <1>2
    <2>2. raw[e] + T \in Nat /\ raw'[e] + T' \in Nat
      BY <1>1, <1>2, <2>1, SumType
    <2> DEFINE x == raw[e] + T
               y == raw'[e] + T'
               P == R * k
               Q == R' * k
               c == C'
               l == L'
               f == faults'
    <2>3. x \in Nat /\ y \in Nat /\ P \in Nat /\ Q \in Nat /\ P <= Q
      BY <1>p, <2>2
    <2>4. x <= C + P + L + faults
      BY <1>1
    <2>5. y <= x + paid /\ C + L + faults + paid <= c + l + f /\ R' * k' = Q
      BY <1>7
    <2>6. C \in Nat /\ L \in Nat /\ faults \in Nat /\ c \in Nat /\ l \in Nat /\ f \in Nat
      BY <1>1, <1>2, <1>4
    <2> HIDE DEF x, y, P, Q, c, l, f
    <2>7. y <= c + Q + l + f
      BY <2>3, <2>4, <2>5, <2>6, Balance
    <2> QED BY <2>5, <2>7 DEF y, c, l, f
  <1>8. ASSUME UNCHANGED raw, T' = T, UNCHANGED <<running, crashes, stops>>, processed \subseteq processed', faults <= faults'
        PROVE  raw'[e] + T' <= C' + R' * k' + L' + faults'
    <2>1. k' = k
      BY <1>8 DEF k
    <2>3. L <= L'
      BY <1>6, <1>8
    <2>4. raw'[e] = raw[e]
      BY <1>8
    <2>5. raw'[e] + T' <= raw[e] + T + 0
      BY <1>1, <1>8, <2>4
    <2>2. C + L + faults + 0 <= C' + L' + faults'
      <3>1. C \in Nat /\ L \in Nat /\ faults \in Nat /\ C' \in Nat /\ L' \in Nat /\ faults' \in Nat /\ C <= C'
        BY <1>1, <1>2, <1>4
      <3>2. faults <= faults'
        BY <1>8
      <3> HIDE DEF L
      <3> QED BY <2>3, <3>1, <3>2, Sums
    <2> QED BY <1>7, <2>1, <2>2, <2>5
  <1>g. ASSUME raw'[e] + T' <= C' + R' * k' + L' + faults'
        PROVE  (raw[e] + Late(e) <= Cardinality(Carried(e)) + Cardinality(Records(e)) * (crashes + stops)
                                    + InThisLife(e) + faults)'
    BY <1>g DEF C, R, k, L, T
  <1> SUFFICES raw'[e] + T' <= C' + R' * k' + L' + faults'
    BY <1>g
  <1> USE DEF requestVars, topicVars, dlqVars, bounds
  <1>9. ASSUME NEW r \in Requests, Guard(r) \/ Refuse(r) \/ Finish(r) \/ ClientAborts(r)
        PROVE  raw'[e] + T' <= C' + R' * k' + L' + faults'
    <2>1. UNCHANGED <<raw, pending, running, crashes, stops, processed, faults>>
      BY <1>9 DEF Guard, Refuse, Finish, ClientAborts
    <2> QED BY <1>1, <1>8, <2>1 DEF T, Late
  <1>10. ASSUME NEW r \in Requests, SendValid(r) PROVE raw'[e] + T' <= C' + R' * k' + L' + faults'
    <2>1. k' = k /\ L <= L'
      BY <1>6, <1>10 DEF SendValid, k
    <2>2. CASE e \in Valid[r] /\ raw' = [x \in Events |-> raw[x] + (IF x \in Valid[r] THEN 1 ELSE 0)]
               /\ Goto(r, "routing") /\ NoFault /\ UNCHANGED pending
      <3>1. r \notin Carried(e) /\ r \in Carried(e)'
        BY <1>10, <2>2 DEF SendValid, Carried, Goto, Inv, TypeOK
      <3>2. C + 1 <= C'
        <4>1. Carried(e) \union {r} \subseteq Carried(e)'
          BY <3>1, CarriedGrows
        <4>2. Carried(e)' \in SUBSET Requests
          BY DEF Carried
        <4>3. IsFiniteSet(Carried(e)') /\ Cardinality(Carried(e) \union {r}) <= Cardinality(Carried(e)')
          BY <4>1, <4>2, BatchesAssumption, FS_Subset
        <4>4. Cardinality(Carried(e) \union {r}) = Cardinality(Carried(e)) + 1
          BY <3>1, CarriedType, FS_AddElement
        <4> QED BY <4>3, <4>4 DEF C
      <3>3. raw'[e] = raw[e] + 1 /\ T' = T /\ faults' = faults
        BY <2>2 DEF T, Late, NoFault
      <3> QED BY <1>1, <1>2, <1>4, <1>7, <2>1, <3>2, <3>3
    <2>3. CASE e \notin Valid[r] /\ raw' = [x \in Events |-> raw[x] + (IF x \in Valid[r] THEN 1 ELSE 0)]
               /\ NoFault /\ UNCHANGED pending
      <3>1. raw'[e] = raw[e] /\ T' = T /\ faults' = faults
        BY <1>1, <2>3 DEF T, Late, NoFault
      <3> QED BY <1>1, <1>2, <1>4, <1>7, <2>1, <3>1
    <2>4. CASE Fault /\ UNCHANGED raw
      <3>1. faults' = faults + 1 /\ raw'[e] = raw[e] /\ T' <= T + 1
        BY <1>1, <1>2, <2>4 DEF Fault
      <3> QED BY <1>1, <1>2, <1>4, <1>7, <2>1, <3>1
    <2> QED BY <1>10, <2>2, <2>3, <2>4 DEF SendValid
  <1>11. ASSUME NEW r \in Requests, RouteInvalid(r) PROVE raw'[e] + T' <= C' + R' * k' + L' + faults'
    <2>1. T' = T
      BY <1>11, LateOfSend DEF RouteInvalid, T, Late
    <2>2. UNCHANGED <<raw, running, crashes, stops, processed>> /\ faults <= faults'
      BY <1>1, <1>11 DEF RouteInvalid, Fault, NoFault
    <2> QED BY <1>8, <2>1, <2>2
  <1>12. ASSUME NEW p \in pending, Land(p) PROVE raw'[e] + T' <= C' + R' * k' + L' + faults'
    <2>1. k' = k /\ L <= L' /\ faults' = faults
      BY <1>6, <1>12 DEF Land, k
    <2>2. raw'[e] + T' <= raw[e] + T + 0
      <3>1. CASE p = [to |-> "raw", ev |-> e]
        <4>1. T = 1 /\ T' = 0
          BY <1>12, <3>1 DEF Land, T, Late
        <4>2. raw'[e] = raw[e] + 1
          BY <1>12, <3>1 DEF Land, Inv, TypeOK
        <4> QED BY <1>1, <4>1, <4>2
      <3>2. CASE p # [to |-> "raw", ev |-> e]
        <4>1. T' = T
          BY <1>12, <3>2 DEF Land, T, Late
        <4>2. p \in [to : {"raw", "dlq", "exhausted"}, ev : Events]
          BY DEF Inv, TypeOK
        <4>3. raw'[e] = raw[e]
          BY <1>12, <3>2, <4>2 DEF Land, Inv, TypeOK
        <4> QED BY <1>1, <4>1, <4>3
      <3> QED BY <3>1, <3>2
    <2> QED BY <1>1, <1>2, <1>4, <1>7, <2>1, <2>2
  <1>13. CASE Refill \/ TakeRecord \/ CommitOffset \/ Rebalance \/ UNCHANGED vars
    <2>1. UNCHANGED <<raw, pending, running, crashes, stops, processed, faults>>
      BY <1>13 DEF Refill, TakeRecord, CommitOffset, Rebalance, vars
    <2> QED BY <1>1, <1>8, <2>1 DEF T, Late
  <1>14. CASE Exhaust
    <2>1. T' = T
      BY <1>14, LateOfSend DEF Exhaust, T, Late
    <2>2. UNCHANGED <<raw, running, crashes, stops>> /\ processed \subseteq processed' /\ faults <= faults'
      BY <1>1, <1>14 DEF Exhaust, Fault, NoFault, MarkProcessed
    <2> QED BY <1>8, <2>1, <2>2
  <1>15. CASE Reprocess
    <2>1. next \in 1 .. Len(dlq) /\ next \notin processed /\ dlq \in Seq(Events) /\ UNCHANGED <<dlq, crashes, stops>>
      BY <1>15 DEF Reprocess, Inv, RecordInv, TypeOK
    <2>2. k' = k
      BY <2>1 DEF k
    <2>3. CASE UNCHANGED <<raw, pending, processed>> /\ NoFault
      BY <1>8, <1>15, <2>3, <1>1 DEF Reprocess, NoFault, T, Late
    <2>4. CASE running /\ Republish /\ MarkProcessed /\ NoFault /\ UNCHANGED pending
      <3>1. faults' = faults /\ T' = T /\ UNCHANGED running
        BY <1>15, <2>4 DEF Reprocess, NoFault, T, Late
      <3>2. CASE dlq[next] = e
        <4>1. raw'[e] = raw[e] + 1
          BY <2>4, <3>2 DEF Republish, Inv, TypeOK
        <4>2. /\ (Records(e) \intersect processed)' = (Records(e) \intersect processed) \union {next}
              /\ next \notin Records(e) \intersect processed
          BY <2>1, <2>4, <3>2 DEF Records, MarkProcessed
        <4>3. IsFiniteSet(Records(e) \intersect processed)
          BY RecordsType, FS_Intersection DEF Inv
        <4>4. L' = L + 1
          BY <2>4, <3>1, <4>2, <4>3, FS_AddElement DEF L, InThisLife
        <4> QED BY <1>1, <1>2, <1>4, <1>7, <2>2, <3>1, <4>1, <4>4
      <3>3. CASE dlq[next] # e
        <4>1. raw'[e] = raw[e]
          BY <2>4, <3>3 DEF Republish, Inv, TypeOK
        <4>2. L <= L'
          BY <1>6, <2>4, <3>1 DEF MarkProcessed
        <4> QED BY <1>1, <1>2, <1>4, <1>7, <2>2, <3>1, <4>1, <4>2
      <3> QED BY <3>2, <3>3
    <2>5. CASE Fault /\ UNCHANGED raw
      <3>1. processed \subseteq processed' /\ UNCHANGED running
        BY <1>15 DEF Reprocess, MarkProcessed
      <3>2. faults' = faults + 1 /\ raw'[e] = raw[e] /\ T' <= T + 1
        BY <1>1, <1>2, <2>5 DEF Fault
      <3> QED BY <1>1, <1>2, <1>4, <1>6, <1>7, <2>2, <3>1, <3>2
    <2> QED BY <1>15, <2>3, <2>4, <2>5 DEF Reprocess
  \* A life that ends pays for what it processed: stops and crashes count it.
  <1>16. ASSUME k' = k + 1, UNCHANGED <<raw, pending, faults>> PROVE raw'[e] + T' <= C' + R' * k' + L' + faults'
    <2>1. T' = T /\ R' * k' = R' * k + R'
      BY <1>p, <1>16 DEF T, Late
    <2> QED BY <1>1, <1>2, <1>4, <1>p, <1>16, <2>1
  <1>17. CASE Stop
    <2>1. k' = k + 1 /\ UNCHANGED <<raw, pending, faults>>
      BY <1>17 DEF Stop, k, Inv, TypeOK
    <2> QED BY <1>16, <2>1
  <1>18. CASE Restart
    <2>1. UNCHANGED <<raw, pending, faults>>
      BY <1>18 DEF Restart
    <2>2. CASE crashes' = crashes + 1
      <3>1. k' = k + 1
        BY <1>18, <2>2 DEF Restart, k, Inv, TypeOK
      <3> QED BY <1>16, <2>1, <3>1
    <2>3. CASE ~running /\ UNCHANGED crashes
      <3>1. k' = k
        BY <1>18, <2>3 DEF Restart, k
      <3>2. L = 0 /\ T' = T
        BY <2>1, <2>3 DEF L, InThisLife, T, Late
      <3> QED BY <1>1, <1>2, <1>4, <1>7, <2>1, <3>1, <3>2
    <2> QED BY <1>18, <2>2, <2>3 DEF Restart
  <1> QED BY <1>9, <1>10, <1>11, <1>12, <1>13, <1>14, <1>15, <1>17, <1>18 DEF Next, RequestStep, ConsumerStep

-----------------------------------------------------------------------------
LEMMA Invariance == Spec => [](Inv /\ CopiesInv)
  <1>1. Inv /\ CopiesInv /\ [Next]_vars => (Inv /\ CopiesInv)'
    BY TypeStep, SentStep, SlotsStep, CopiesStep DEF Inv
  <1> QED BY InitInv, <1>1, PTL DEF Spec

\* Type correctness: with any crashes, rebalances and late sends, the slots
\* stay within backpressure.maxConcurrent, the bucket within its burst, and
\* the consumer at a record of the topic or at its end.
THEOREM TypeCorrect == Spec => []TypeOK
  <1>1. Inv => TypeOK
    BY DEF Inv
  <1> QED BY Invariance, <1>1, PTL

\* BackpressureGuard: inFlightRequests is the number of requests in hand and
\* of clients that disconnected, whatever the guard decides.
THEOREM SlotsAreAccounted == Spec => []SlotsMatchRequests
  <1>1. Inv => SlotsMatchRequests
    BY DEF Inv
  <1> QED BY Invariance, <1>1, PTL

\* EventsService.ingest: a 202 means that the valid events are in events.raw.
THEOREM AcceptedBatchesAreInRaw == Spec => []AcceptedIsInRaw
  <1>1. Inv => AcceptedIsInRaw
    BY DEF Inv, TypeOK, SentInv, AcceptedIsInRaw
  <1> QED BY Invariance, <1>1, PTL

\* DlqConsumerService: a record is republished at most once in each life of
\* the consumer, so that the copies of an event in events.raw are bounded.
THEOREM CopiesAreBounded == Spec => []CopiesInRaw
  <1>1. Inv /\ CopiesInv => CopiesInRaw
    <2> SUFFICES ASSUME Inv, CopiesInv, NEW e \in Events
                 PROVE  raw[e] <= Cardinality({r \in Requests : e \in Valid[r]})
                                  + Cardinality(Records(e)) * Lives + faults
      BY DEF CopiesInRaw
    <2> DEFINE C == Cardinality(Carried(e))
               D == Cardinality({r \in Requests : e \in Valid[r]})
               R == Cardinality(Records(e))
               k == crashes + stops
               P == R * k
               L == InThisLife(e)
               T == Late(e)
    <2>1. raw[e] \in Nat /\ k \in Nat /\ faults \in Nat
      BY DEF Inv, TypeOK
    <2>2. C \in Nat /\ R \in Nat /\ Cardinality(Records(e) \intersect processed) \in Nat
          /\ Cardinality(Records(e) \intersect processed) <= R
      BY RecordsType, CarriedType DEF Inv
    <2>3. L \in Nat /\ L <= R
      BY <2>2 DEF InThisLife
    <2>4. T \in Nat
      BY DEF Late
    <2>5. C <= D /\ D \in Nat
      <3>1. IsFiniteSet({r \in Requests : e \in Valid[r]}) /\ Carried(e) \subseteq {r \in Requests : e \in Valid[r]}
        BY BatchesAssumption, FS_Subset DEF Carried
      <3> QED BY <3>1, FS_Subset, FS_CardinalityType
    <2>6. P \in Nat /\ R * Lives = P + R
      <3>1. Lives = k + 1
        BY <2>1 DEF Lives, Inv, TypeOK
      <3> QED BY <2>1, <2>2, <3>1, Product
    <2>7. raw[e] + T <= C + P + L + faults
      BY DEF CopiesInv
    <2> HIDE DEF C, D, R, k, P, L, T
    <2>8. raw[e] <= D + (P + R) + faults
      BY <2>1, <2>2, <2>3, <2>4, <2>5, <2>6, <2>7
    <2> QED BY <2>6, <2>8 DEF D, R
  <1> QED BY Invariance, <1>1, PTL
=============================================================================
