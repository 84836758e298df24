---------------------------- MODULE SignalsProofs ----------------------------
(***************************************************************************)
(* Seven components of the way from a request to its verdict: the circuit  *)
(* breakers, the account graph, the scores, the velocity counters, the      *)
(* devices, the telco enrichments and the behavioral baseline.  For any     *)
(* number of concurrent requests and analyses, any choice of fetches, any   *)
(* answers of the services, any events, windows and faults.                 *)
(***************************************************************************)
EXTENDS SignalFetchers, GraphIntel, SignalPath, VelocityEngine, DeviceIntel, TelcoEnrichment,
        BehavioralBaseline, FiniteSetTheorems, SequenceTheorems, TLAPS

-----------------------------------------------------------------------------
(* decision-service: the circuit breakers *)

\* A breaker that has not opened still forgives a failure: with the third the
\* window starts.
ClosedForgives ==
    \A k \in Circuits : circuits[k].openUntil = "none" => circuits[k].failures < 3

\* A breaker never counts more failures than there were since the last
\* success (the history stops counting at three).
FailuresAreReal ==
    \A k \in Circuits : outage[k] = 3 \/ circuits[k].failures <= outage[k]

Inv == TypeOK /\ ClosedForgives /\ FailuresAreReal /\ OpenOnlyDuringOutage

\* The fetches behind breaker k that the requests can have under way at once.
Slots(k) == Cardinality(Requests) * Cardinality(FetchesOf(k))

-----------------------------------------------------------------------------
LEMMA CircuitOfFetch ==
  ASSUME NEW f \in Fetches, Circuit(f) # "none"
  PROVE  Circuit(f) \in Circuits
  BY DEF Circuits

\* A recorded failure opens the breaker exactly when it is the third.
LEMMA FailureCounts ==
  ASSUME NEW k \in Circuits, TypeOK
  PROVE  LET c == circuits[k]
         IN  /\ RecordFailure(c) \in [failures : Nat, openUntil : {"none", "running", "over"}]
             /\ RecordFailure(c).failures = c.failures + 1
             /\ RecordFailure(c).openUntil = "none" <=> c.openUntil = "none" /\ c.failures + 1 < 3
  BY DEF TypeOK, RecordFailure, CIRCUIT_FAILURE_THRESHOLD

LEMMA InitInv == Init => Inv
  BY DEF Init, Inv, TypeOK, ClosedForgives, FailuresAreReal, OpenOnlyDuringOutage, Closed

LEMMA InvStep == Inv /\ [Next]_vars => Inv'
  <1> SUFFICES ASSUME Inv, [Next]_vars PROVE Inv'
    OBVIOUS
  <1> USE DEF Inv, ClosedForgives, FailuresAreReal, OpenOnlyDuringOutage
  <1>1. ASSUME NEW k \in Circuits, Toggle(k) PROVE Inv'
    BY <1>1 DEF Toggle, TypeOK
  <1>2. ASSUME NEW k \in Circuits, Expire(k) PROVE Inv'
    BY <1>2 DEF Expire, TypeOK
  <1>3. ASSUME NEW r \in Requests, FetchAllSignals(r) PROVE Inv'
    <2>1. TypeOK'
      <3>1. PICK carried \in Offered :
               /\ ids' = [ids EXCEPT ![r] = carried]
               /\ inFlight' = [inFlight EXCEPT ![r] = {f \in Fetches : Made(f, carried) /\ ~Skipped(f)}]
        BY <1>3 DEF FetchAllSignals
      <3>2. carried # {}
        BY OfferedAssumption
      <3>3. /\ ids' \in [Requests -> Offered \union {{}}]
            /\ inFlight' \in [Requests -> SUBSET Fetches]
            /\ \A q \in Requests : ids'[q] = {} => inFlight'[q] = {}
        BY <3>1, <3>2 DEF TypeOK
      <3>4. /\ circuits' \in [Circuits -> [failures : Nat, openUntil : {"none", "running", "over"}]]
            /\ up' = up /\ outage' = outage
        BY <1>3 DEF FetchAllSignals, TypeOK, HalfOpen, Closed
      <3> QED BY <3>3, <3>4 DEF TypeOK
    <2>2. \A k \in Circuits : circuits'[k] = circuits[k] \/ circuits'[k] = Closed
      BY <1>3 DEF FetchAllSignals, HalfOpen
    <2>3. outage' = outage
      BY <1>3 DEF FetchAllSignals
    <2>4. Closed.failures = 0 /\ Closed.openUntil = "none" /\ \A k \in Circuits : outage[k] \in 0 .. 3
      BY DEF Closed, TypeOK
    <2>5. ClosedForgives'
      BY <2>2, <2>4
    <2>6. FailuresAreReal'
      BY <2>2, <2>3, <2>4
    <2>7. OpenOnlyDuringOutage'
      BY <2>2, <2>3, <2>4
    <2> QED BY <2>1, <2>5, <2>6, <2>7
  <1>4. ASSUME NEW r \in Requests, NEW f \in Fetches, EndFetch(r, f) PROVE Inv'
    <2> DEFINE k == Circuit(f)
    <2>1. inFlight' \in [Requests -> SUBSET Fetches] /\ (ids[r] = {} => inFlight'[r] = {})
      BY <1>4 DEF EndFetch, TypeOK
    <2>2. CASE k = "none"
      BY <1>4, <2>1, <2>2 DEF EndFetch, TypeOK
    <2>3. CASE k # "none" /\ circuits' = [circuits EXCEPT ![k] = RecordSuccess(@)]
               /\ outage' = [outage EXCEPT ![k] = 0]
      BY <1>4, <2>1, <2>3, CircuitOfFetch DEF EndFetch, TypeOK, RecordSuccess, Closed
    <2>4. CASE k # "none" /\ circuits' = [circuits EXCEPT ![k] = RecordFailure(@)]
               /\ outage' = [outage EXCEPT ![k] = IF @ = 3 THEN 3 ELSE @ + 1]
      <3>1. k \in Circuits
        BY <2>4, CircuitOfFetch
      <3>2. circuits'[k] = RecordFailure(circuits[k])
            /\ outage'[k] = (IF outage[k] = 3 THEN 3 ELSE outage[k] + 1)
            /\ \A l \in Circuits \ {k} : circuits'[l] = circuits[l] /\ outage'[l] = outage[l]
        BY <2>4, <3>1 DEF TypeOK
      <3>3. TypeOK'
        BY <1>4, <2>1, <2>4, <3>1, FailureCounts DEF EndFetch, TypeOK
      <3>4. outage[k] \in 0 .. 3 /\ circuits[k].failures \in Nat
        BY <3>1 DEF TypeOK
      <3>5. ClosedForgives'
        BY <3>1, <3>2, <3>4, FailureCounts
      <3>6. FailuresAreReal'
        BY <3>1, <3>2, <3>4, FailureCounts
      <3>7. OpenOnlyDuringOutage'
        BY <3>1, <3>2, <3>4, FailureCounts
      <3> QED BY <3>3, <3>5, <3>6, <3>7
    <2> QED BY <1>4, <2>2, <2>3, <2>4 DEF EndFetch
  <1>5. ASSUME NEW r \in Requests, Return(r) PROVE Inv'
    BY <1>5 DEF Return, AllSettled, TypeOK
  <1>6. CASE UNCHANGED vars
    BY <1>6 DEF vars, TypeOK
  <1> QED BY <1>1, <1>2, <1>3, <1>4, <1>5, <1>6 DEF Next

LEMMA Invariance == Spec => []Inv
  BY InitInv, InvStep, PTL DEF Spec

\* The breakers, the requests and their fetches keep their types, for any
\* requests, fetches and outages.
THEOREM TypeCorrect == Spec => []TypeOK
  BY Invariance, PTL DEF Inv

\* The code opens a breaker only after three failures of its signal with no
\* success between them, however the fetches of concurrent requests overlap.
THEOREM OpenMeansOutage == Spec => []OpenOnlyDuringOutage
  BY Invariance, PTL DEF Inv

-----------------------------------------------------------------------------
(* How many fetches a failing service can still get. *)

\* The fetches under way behind a breaker are at most one of each kind per
\* request.
LEMMA FetchesFitSlots ==
  ASSUME NEW k, NEW S \in SUBSET (Requests \X FetchesOf(k))
  PROVE  /\ IsFiniteSet(S)
         /\ Cardinality(S) \in Nat /\ Slots(k) \in Nat
         /\ Cardinality(S) <= Slots(k)
  <1>1. IsFiniteSet(Requests) /\ IsFiniteSet(FetchesOf(k))
    <2>1. FetchesOf(k) \in SUBSET Fetches
      BY DEF FetchesOf
    <2> QED BY <2>1, FetchesAssumption, FS_Subset
  <1>2. /\ IsFiniteSet(Requests \X FetchesOf(k))
        /\ Cardinality(Requests \X FetchesOf(k)) = Slots(k)
    BY <1>1, FS_Product DEF Slots
  <1>3. Slots(k) \in Nat
    BY <1>2, FS_CardinalityType
  <1>4. IsFiniteSet(S) /\ Cardinality(S) <= Slots(k)
    BY <1>2, FS_Subset
  <1> QED BY <1>3, <1>4, FS_CardinalityType

LEMMA BusyFitsSlots ==
  ASSUME NEW k PROVE Busy(k) \in SUBSET (Requests \X FetchesOf(k))
  BY DEF Busy, FetchesOf

LEMMA LoadInit == Init => LoadIsBounded
  <1> SUFFICES ASSUME Init, NEW k \in Circuits
               PROVE  circuits[k].failures + Cardinality(Busy(k)) <= 2 + Slots(k)
    BY DEF LoadIsBounded, CIRCUIT_FAILURE_THRESHOLD, Slots
  <1>1. circuits[k].failures = 0
    BY DEF Init, Closed
  <1> QED BY <1>1, BusyFitsSlots, FetchesFitSlots

LEMMA LoadStep == Inv /\ LoadIsBounded /\ [Next]_vars => LoadIsBounded'
  <1> SUFFICES ASSUME Inv, LoadIsBounded, [Next]_vars, NEW k \in Circuits
               PROVE  circuits'[k].failures + Cardinality(Busy(k)') <= 2 + Slots(k)
    BY DEF LoadIsBounded, CIRCUIT_FAILURE_THRESHOLD, Slots
  <1> USE DEF Inv
  <1> DEFINE before == Busy(k)
             after  == Busy(k)'
  <1>1. /\ before \in SUBSET (Requests \X FetchesOf(k))
        /\ after \in SUBSET (Requests \X FetchesOf(k))
    BY DEF Busy, FetchesOf
  <1>2. /\ IsFiniteSet(before) /\ Cardinality(before) \in Nat /\ Slots(k) \in Nat
        /\ Cardinality(after) \in Nat /\ Cardinality(after) <= Slots(k)
    BY <1>1, FetchesFitSlots
  <1>3. circuits[k].failures + Cardinality(before) <= 2 + Slots(k)
    BY DEF LoadIsBounded, CIRCUIT_FAILURE_THRESHOLD, Slots
  <1>4. circuits[k].failures \in Nat /\ circuits'[k].failures \in Nat
    BY InvStep DEF TypeOK
  <1> DEFINE Goal == circuits'[k].failures + Cardinality(after) <= 2 + Slots(k)
  <1>5. ASSUME circuits'[k].failures <= 2 PROVE Goal
    BY <1>2, <1>4, <1>5
  <1>6. ASSUME circuits'[k].failures = circuits[k].failures, after = before PROVE Goal
    BY <1>3, <1>6
  <1>7. ASSUME NEW l \in Circuits, Toggle(l) \/ Expire(l) PROVE Goal
    <2>1. circuits'[k].failures = circuits[k].failures /\ after = before
      BY <1>7 DEF Toggle, Expire, TypeOK, Busy
    <2> QED BY <2>1, <1>6
  <1>8. ASSUME NEW r \in Requests, FetchAllSignals(r) PROVE Goal
    <2>1. CASE Elapsed(circuits[k]) \/ circuits[k].openUntil = "none"
      <3>1. circuits'[k] = HalfOpen(circuits[k])
        BY <1>8 DEF FetchAllSignals
      <3>2. circuits'[k].failures <= 2
        BY <2>1, <3>1, <1>4 DEF HalfOpen, Closed, ClosedForgives
      <3> QED BY <3>2, <1>5
    <2>2. CASE IsCircuitOpen(circuits[k])
      <3>1. circuits'[k] = circuits[k]
        BY <1>8, <2>2 DEF FetchAllSignals, HalfOpen, IsCircuitOpen
      <3>2. inFlight[r] = {} /\ inFlight \in [Requests -> SUBSET Fetches]
        BY <1>8 DEF FetchAllSignals, TypeOK
      <3>3. \A f \in FetchesOf(k) : Skipped(f)
        BY <2>2 DEF FetchesOf, Skipped, Circuits
      <3>4. \A f \in inFlight'[r] : Circuit(f) # k
        BY <1>8, <3>2, <3>3 DEF FetchAllSignals, FetchesOf
      <3>5. \A q \in Requests \ {r} : inFlight'[q] = inFlight[q]
        BY <1>8, <3>2 DEF FetchAllSignals
      <3>6. after = before
        BY <3>2, <3>4, <3>5 DEF Busy
      <3> QED BY <3>1, <3>6, <1>6
    <2> QED BY <2>1, <2>2 DEF IsCircuitOpen
  <1>9. ASSUME NEW r \in Requests, NEW f \in Fetches, EndFetch(r, f) PROVE Goal
    <2>1. /\ inFlight \in [Requests -> SUBSET Fetches] /\ f \in inFlight[r]
          /\ inFlight' = [inFlight EXCEPT ![r] = @ \ {f}]
      BY <1>9 DEF EndFetch, TypeOK
    <2>2. after = before \ {<<r, f>>}
      BY <2>1 DEF Busy
    <2>3. Cardinality(after) <= Cardinality(before)
      <3>1. after \in SUBSET before
        BY <2>2
      <3> HIDE DEF before, after
      <3> QED BY <3>1, <1>2, FS_Subset
    <2>4. CASE circuits'[k] = circuits[k]
      BY <2>3, <2>4, <1>2, <1>3, <1>4
    <2>5. CASE circuits'[k].failures = 0
      BY <2>5, <1>5
    <2>6. CASE Circuit(f) = k /\ circuits'[k] = RecordFailure(circuits[k])
      <3>1. <<r, f>> \in before
        BY <2>1, <2>6 DEF Busy
      <3>2. Cardinality(after) = Cardinality(before) - 1
        BY <2>2, <3>1, <1>2, FS_RemoveElement
      <3>3. circuits'[k].failures = circuits[k].failures + 1
        BY <2>6, FailureCounts
      <3> QED BY <3>2, <3>3, <1>2, <1>3, <1>4
    <2>7. \/ circuits'[k] = circuits[k]
          \/ circuits'[k].failures = 0
          \/ Circuit(f) = k /\ circuits'[k] = RecordFailure(circuits[k])
      BY <1>9, CircuitOfFetch DEF EndFetch, TypeOK, RecordSuccess, Closed
    <2> QED BY <2>4, <2>5, <2>6, <2>7
  <1>10. ASSUME NEW r \in Requests, Return(r) PROVE Goal
    <2>1. circuits' = circuits /\ after = before
      BY <1>10 DEF Return, Busy
    <2> QED BY <2>1, <1>6
  <1>11. CASE UNCHANGED vars
    <2>1. circuits' = circuits /\ after = before
      BY <1>11 DEF vars, Busy
    <2> QED BY <2>1, <1>6
  <1> QED BY <1>7, <1>8, <1>9, <1>10, <1>11 DEF Next

\* Between two windows of 30 s a failing service gets at most two fetches and
\* those already under way when its breaker opened, however many requests
\* there are: isCircuitOpen lets none of the later ones through.
THEOREM LoadStaysBounded == Spec => []LoadIsBounded
  BY LoadInit, LoadStep, Invariance, PTL DEF Spec

-----------------------------------------------------------------------------
(* The graph: whoever was analysed before is counted *)

IsLabel(label, key, n) == n[1] = label /\ n[2] = key
DeviceOf(c) == Analyses[c].device
AccountOf(c) == Analyses[c].account

\* An account node of the key uses device node n.
Linked(account, n) == \E a : IsLabel("Account", account, a) /\ <<a, n>> \in edges

\* What an analysis saw when it looked: its device node of every analysis that
\* had ended, linked to that account.
SawEarlier(c) ==
    phase[c] # "new" => \A b \in began[c] : DeviceOf(b) = DeviceOf(c) /\ DeviceOf(c) # NoId =>
        \E d \in looked[c] : IsLabel("Device", DeviceOf(c), d) /\ Linked(AccountOf(b), d)

\* What it merged: its account uses a device node of its key, and every device
\* node it had found.
MergedItsOwn(c) ==
    phase[c] \in {"merged", "done"} /\ DeviceOf(c) # NoId =>
        /\ \E d \in nodes : IsLabel("Device", DeviceOf(c), d) /\ Linked(AccountOf(c), d)
        /\ \A d \in looked[c] : IsLabel("Device", DeviceOf(c), d) => Linked(AccountOf(c), d)

GraphFinite ==
    /\ IsFiniteSet(nodes) /\ IsFiniteSet(edges)
    /\ \A c \in Calls \union {Consumer} : looked[c] \subseteq nodes
    /\ looked = [c \in Calls \union {Consumer} |-> looked[c]]

Labels == {"Account", "Device", "Ip", "Merchant", "Session"}

GraphTypes ==
    /\ \A n \in nodes : n[1] \in Labels
    /\ edges \subseteq nodes \X nodes
    /\ DOMAIN trust \subseteq nodes
    /\ phase \in [Calls \union {Consumer} -> {"new", "looked", "merged", "done", "failed"}]
    /\ counted \in [Calls -> [fraud : Nat, device : Nat, ip : Nat]]
    /\ began \in [Calls -> SUBSET Calls]
    /\ position \in 1 .. Len(Messages) + 1 /\ graphFaults \in 0 .. MaxGraphFaults
    /\ phase[Consumer] = "looked" => AtMessage

GraphInv ==
    /\ GraphFinite /\ GraphTypes
    /\ \A c \in Calls : SawEarlier(c) /\ MergedItsOwn(c)
    /\ EarlierSharersAreCounted

\* Finitely many keys.
LEMMA MergedNodes ==
  ASSUME NEW keys, IsFiniteSet(keys), NEW found, IsFiniteSet(found), NEW who,
         \A k \in keys : k[1] \in Labels, \A n \in found : n[1] \in Labels
  PROVE  /\ IsFiniteSet(Merged(keys, found, who)) /\ found \subseteq Merged(keys, found, who)
         /\ \A n \in Merged(keys, found, who) : n[1] \in Labels
         /\ \A k \in keys : \E n \in Merged(keys, found, who) : n[1] = k[1] /\ n[2] = k[2]
  <1> DEFINE missing == {k \in keys : ~\E n \in found : <<n[1], n[2]>> = k}
             new == {<<k[1], k[2], who>> : k \in missing}
             f == [k \in missing |-> <<k[1], k[2], who>>]
  <1>1. IsFiniteSet(missing)
    BY FS_Subset
  <1>2. f \in Surjection(missing, new)
    BY DEF Surjection
  <1>3. IsFiniteSet(new)
    BY <1>1, <1>2, FS_Surjection
  <1>4. Merged(keys, found, who) = found \union new
    BY DEF Merged
  <1>5. \A n \in new : n[1] \in Labels
    OBVIOUS
  <1>6. ASSUME NEW k \in keys PROVE \E n \in found \union new : n[1] = k[1] /\ n[2] = k[2]
    <2>1. CASE k \in missing
      <3>1. PICK n \in new : n = <<k[1], k[2], who>>
        BY <2>1
      <3>2. n[1] = k[1] /\ n[2] = k[2]
        BY <3>1
      <3> QED BY <3>2
    <2>2. CASE k \notin missing
      <3>1. PICK n \in found : <<n[1], n[2]>> = k
        BY <2>2
      <3> QED BY <3>1
    <2> QED BY <2>1, <2>2
  <1> HIDE DEF new
  <1> QED BY <1>3, <1>4, <1>5, <1>6, FS_Union

LEMMA KeysType ==
  ASSUME NEW c \in Calls
  PROVE  /\ IsFiniteSet(KeysOf(c)) /\ \A k \in KeysOf(c) : k[1] \in Labels
         /\ DeviceOf(c) # NoId => <<"Device", DeviceOf(c)>> \in KeysOf(c)
         /\ <<"Account", AccountOf(c)>> \in KeysOf(c)
         /\ \A k \in KeysOf(c) : k[1] \in {"Account", "Device", "Ip"}
         /\ \A k \in KeysOf(c) : k[1] = "Account" => k[2] = AccountOf(c)
  <1> DEFINE a == Analyses[c]
             D == {<<"Device", d>> : d \in {a.device} \ {NoId}}
             I == {<<"Ip", i>> : i \in {a.ip} \ {NoId}}
  <1>1. D \subseteq {<<"Device", a.device>>} /\ I \subseteq {<<"Ip", a.ip>>}
    OBVIOUS
  <1>2. IsFiniteSet(D) /\ IsFiniteSet(I) /\ IsFiniteSet({<<"Account", a.account>>})
    <2> HIDE DEF D, I, a
    <2>1. \A x : IsFiniteSet({x})
      BY FS_Singleton
    <2>2. IsFiniteSet({<<"Device", a.device>>}) /\ IsFiniteSet({<<"Ip", a.ip>>}) /\ IsFiniteSet({<<"Account", a.account>>})
      BY <2>1
    <2> QED BY <1>1, <2>2, FS_Subset
  <1>3. KeysOf(c) = {<<"Account", a.account>>} \union D \union I
    BY DEF KeysOf
  <1>4. IsFiniteSet(KeysOf(c))
    <2> HIDE DEF D, I, a
    <2> QED BY <1>2, <1>3, FS_Union
  <1>5. \A k \in KeysOf(c) : k = <<"Account", a.account>> \/ k = <<"Device", a.device>> \/ k = <<"Ip", a.ip>>
    BY <1>1, <1>3
  <1>6. DeviceOf(c) # NoId => <<"Device", DeviceOf(c)>> \in KeysOf(c)
    BY <1>3 DEF DeviceOf
  <1>7. <<"Account", AccountOf(c)>> \in KeysOf(c)
    BY <1>3 DEF AccountOf
  <1> QED BY <1>4, <1>5, <1>6, <1>7 DEF Labels, AccountOf

LEMMA MessageKeysType ==
  IsFiniteSet(MessageKeys(Message)) /\ \A k \in MessageKeys(Message) : k[1] \in {"Device", "Merchant"}
  <1>1. MessageKeys(Message) = {<<"Device", Message.device>>} \union {<<"Merchant", Message.merchant>>}
    BY DEF MessageKeys
  <1>2. IsFiniteSet(MessageKeys(Message))
    <2>1. \A x : IsFiniteSet({x})
      BY FS_Singleton
    <2> DEFINE D == {<<"Device", Message.device>>}
               M == {<<"Merchant", Message.merchant>>}
    <2>2. IsFiniteSet(D) /\ IsFiniteSet(M) /\ MessageKeys(Message) = D \union M
      BY <1>1, <2>1
    <2> HIDE DEF D, M
    <2> QED BY <2>2, FS_Union
  <1> QED BY <1>1, <1>2

\* Labels and finiteness of a part.
LEMMA LabelledType ==
  ASSUME NEW S, IsFiniteSet(S), NEW label
  PROVE  IsFiniteSet(Labelled(S, label)) /\ Labelled(S, label) \subseteq S /\ \A n \in Labelled(S, label) : n[1] = label
  BY FS_Subset DEF Labelled
\* A step moves one analysis at most; the consumer moves none.
LEMMA CallFrame ==
  ASSUME GraphFinite, GraphTypes, [GraphNext]_graphVars, NEW c \in Calls
  PROVE  \/ Look(c) \/ Merge(c) \/ Count(c) \/ AnalyzeFails(c)
         \/ /\ phase'[c] = phase[c] /\ looked'[c] = looked[c]
            /\ counted'[c] = counted[c] /\ began'[c] = began[c]
  <1> DEFINE Kept == /\ phase'[c] = phase[c] /\ looked'[c] = looked[c]
                     /\ counted'[c] = counted[c] /\ began'[c] = began[c]
  <1>1. c # Consumer
    BY GraphAssumption
  <1>2. ASSUME NEW b \in Calls \ {c}, Look(b) \/ Merge(b) \/ Count(b) \/ AnalyzeFails(b) PROVE Kept
    <2>1. CASE Look(b)
      BY <1>2, <2>1 DEF Look, GraphFinite, GraphTypes
    <2>2. CASE Merge(b)
      BY <1>2, <2>2 DEF Merge, GraphFinite, GraphTypes
    <2>3. CASE Count(b)
      BY <1>2, <2>3 DEF Count, GraphFinite, GraphTypes
    <2>4. CASE AnalyzeFails(b)
      BY <1>2, <2>4 DEF AnalyzeFails, GraphFinite, GraphTypes
    <2> QED BY <1>2, <2>1, <2>2, <2>3, <2>4
  <1>3. CASE UpsertLook
    BY <1>1, <1>3 DEF UpsertLook, GraphFinite, GraphTypes
  <1>4. CASE Upsert \/ UpsertFails
    BY <1>1, <1>4 DEF Upsert, UpsertFails, NextMessage, GraphFinite, GraphTypes
  <1>5. CASE UNCHANGED graphVars
    BY <1>5 DEF graphVars
  <1> QED BY <1>2, <1>3, <1>4, <1>5 DEF GraphNext

\* The sharers are account nodes of edges.
LEMMA SharersFinite ==
  ASSUME IsFiniteSet(edges), NEW c \in Calls, NEW label
  PROVE  IsFiniteSet(Sharers(c, label)) /\ Cardinality(Sharers(c, label)) \in Nat
  <1> DEFINE mine == {e[2] : e \in {x \in edges : x[1][2] = Analyses[c].account /\ x[2][1] = label}}
             through == {x \in edges : x[2] \in mine /\ x[1][1] = "Account" /\ x[1][2] # Analyses[c].account}
             ends == {e[1] : e \in through}
             f == [e \in through |-> e[1]]
  <1> HIDE DEF mine
  <1>1. IsFiniteSet(through)
    BY FS_Subset
  <1>2. f \in Surjection(through, ends)
    BY DEF Surjection
  <1>3. IsFiniteSet(ends)
    BY <1>1, <1>2, FS_Surjection
  <1>4. Sharers(c, label) = ends
    BY DEF Sharers, mine
  <1> QED BY <1>3, <1>4, FS_CardinalityType

\* What a MERGE and the links of its step add.
LEMMA GraphGrows ==
  ASSUME GraphFinite, GraphTypes,
         NEW more, IsFiniteSet(more), \A n \in more : n[1] \in Labels,
         NEW from, from \subseteq more, NEW to, to \subseteq more,
         nodes' = nodes \union more, edges' = edges \union (from \X to)
  PROVE  /\ IsFiniteSet(nodes') /\ IsFiniteSet(edges')
         /\ \A n \in nodes' : n[1] \in Labels
         /\ edges' \subseteq nodes' \X nodes'
         /\ nodes \subseteq nodes' /\ edges \subseteq edges'
  <1>1. IsFiniteSet(from) /\ IsFiniteSet(to)
    BY FS_Subset
  <1>2. IsFiniteSet(from \X to)
    BY <1>1, FS_Product
  <1>3. IsFiniteSet(nodes') /\ IsFiniteSet(edges')
    BY <1>2, FS_Union DEF GraphFinite
  <1>4. edges' \subseteq nodes' \X nodes'
    BY DEF GraphTypes
  <1> QED BY <1>3, <1>4 DEF GraphTypes

\* The type part of every step.
GraphKept ==
    /\ GraphFinite' /\ GraphTypes'
    /\ nodes \subseteq nodes' /\ edges \subseteq edges'

LEMMA AnalysisTypes ==
  ASSUME GraphFinite, GraphTypes, NEW c \in Calls, Look(c) \/ Merge(c) \/ Count(c) \/ AnalyzeFails(c)
  PROVE  GraphKept
  <1>0. graphFaults' \in 0 .. MaxGraphFaults
    BY GraphAssumption DEF GraphTypes, Look, Merge, Count, AnalyzeFails
  <1>9. phase'[Consumer] = "looked" => AtMessage'
    BY GraphAssumption DEF GraphTypes, AtMessage, Look, Merge, Count, AnalyzeFails
  <1>1. CASE Look(c)
    BY <1>0, <1>9, <1>1 DEF Look, Matching, GraphKept, GraphFinite, GraphTypes
  <1>2. CASE Merge(c)
    <2> DEFINE mine == Merged(KeysOf(c), looked[c], c)
               from == Labelled(mine, "Account")
               to == Labelled(mine, "Device") \union Labelled(mine, "Ip")
    <2>1. IsFiniteSet(looked[c]) /\ \A n \in looked[c] : n[1] \in Labels
      BY FS_Subset DEF GraphFinite, GraphTypes
    <2>2. IsFiniteSet(mine) /\ \A n \in mine : n[1] \in Labels
      BY <2>1, KeysType, MergedNodes
    <2>3. from \subseteq mine /\ to \subseteq mine
      BY DEF Labelled
    <2>4. nodes' = nodes \union mine /\ edges' = edges \union (from \X to)
      BY <1>2 DEF Merge
    <2> HIDE DEF mine, from, to
    <2>5. /\ IsFiniteSet(nodes') /\ IsFiniteSet(edges')
          /\ \A n \in nodes' : n[1] \in Labels
          /\ edges' \subseteq nodes' \X nodes'
          /\ nodes \subseteq nodes' /\ edges \subseteq edges'
      BY <2>2, <2>3, <2>4, GraphGrows
    <2>6. UNCHANGED <<trust, looked, counted, began, position, graphFaults>>
          /\ phase' = [phase EXCEPT ![c] = "merged"]
      BY <1>2 DEF Merge
    <2>7. GraphFinite'
      BY <2>5, <2>6 DEF GraphFinite
    <2>8. GraphTypes'
      BY <1>0, <1>9, <2>5, <2>6 DEF GraphTypes
    <2> QED BY <2>5, <2>7, <2>8 DEF GraphKept
  <1>3. CASE Count(c)
    <2>1. \A label : Cardinality(Sharers(c, label)) \in Nat /\ IsFiniteSet(Sharers(c, label))
      BY SharersFinite DEF GraphFinite
    <2> DEFINE onDevice == IF Analyses[c].device = NoId THEN {} ELSE Sharers(c, "Device")
               fraud == Cardinality({n \in onDevice : n[2] \in Fraudsters})
               ip == IF Analyses[c].ip = NoId THEN 0 ELSE Cardinality(Sharers(c, "Ip"))
    <2>2. IsFiniteSet(onDevice)
      BY <2>1, FS_EmptySet
    <2>3. IsFiniteSet({n \in onDevice : n[2] \in Fraudsters})
      <3> HIDE DEF onDevice
      <3> QED BY <2>2, FS_Subset
    <2>4. fraud \in Nat /\ Cardinality(onDevice) \in Nat /\ ip \in Nat
      BY <2>1, <2>2, <2>3, FS_CardinalityType
    <2>5. counted' = [counted EXCEPT ![c] = [fraud |-> fraud, device |-> Cardinality(onDevice), ip |-> ip]]
      BY <1>3 DEF Count
    <2> HIDE DEF onDevice, fraud, ip
    <2>6. counted' \in [Calls -> [fraud : Nat, device : Nat, ip : Nat]]
      BY <2>4, <2>5 DEF GraphTypes
    <2> QED BY <1>0, <1>9, <1>3, <2>6 DEF Count, GraphKept, GraphFinite, GraphTypes
  <1>4. CASE AnalyzeFails(c)
    BY <1>0, <1>9, <1>4 DEF AnalyzeFails, GraphKept, GraphFinite, GraphTypes
  <1> QED BY <1>1, <1>2, <1>3, <1>4
LEMMA ConsumerTypes ==
  ASSUME GraphFinite, GraphTypes, UpsertLook \/ Upsert \/ UpsertFails \/ UNCHANGED graphVars
  PROVE  GraphKept
  <1>0. graphFaults' \in 0 .. MaxGraphFaults
    BY GraphAssumption DEF GraphTypes, UpsertLook, Upsert, UpsertFails, graphVars
  <1>1. CASE UpsertLook
    BY <1>0, <1>1 DEF UpsertLook, Matching, AtMessage, GraphKept, GraphFinite, GraphTypes
  <1>2. ASSUME NextMessage, phase[Consumer] = "looked"
        PROVE  /\ position' \in 1 .. Len(Messages) + 1
               /\ phase' \in [Calls \union {Consumer} -> {"new", "looked", "merged", "done", "failed"}]
               /\ phase'[Consumer] # "looked"
               /\ looked' = [c \in Calls \union {Consumer} |-> looked'[c]]
               /\ \A c \in Calls \union {Consumer} : looked'[c] \subseteq nodes
    <2>1. position' = position + 1 /\ position \in Nat /\ position <= Len(Messages) /\ Len(Messages) \in Nat /\ position >= 1
      BY <1>2, GraphAssumption DEF NextMessage, AtMessage, GraphTypes
    <2>2. position' \in 1 .. Len(Messages) + 1
      BY <2>1
    <2> QED BY <1>2, <2>2 DEF NextMessage, GraphFinite, GraphTypes
  <1>3. CASE Upsert
    <2> DEFINE merged == Merged(MessageKeys(Message), looked[Consumer], Consumer)
               devices == Labelled(merged, "Device")
               session == {<<"Session", s, Consumer>> : s \in {Message.session} \ {NoId}}
               some == IF nodes' = nodes \union merged \union session THEN session ELSE {}
    <2>1. IsFiniteSet(looked[Consumer]) /\ \A n \in looked[Consumer] : n[1] \in Labels
      BY FS_Subset DEF GraphFinite, GraphTypes
    <2>2. IsFiniteSet(merged) /\ \A n \in merged : n[1] \in Labels
      BY <2>1, MessageKeysType, MergedNodes DEF Labels
    <2>3. IsFiniteSet(session) /\ \A n \in session : n[1] \in Labels
      <3>1. \A x : IsFiniteSet({x})
        BY FS_Singleton
      <3>2. session \subseteq {<<"Session", Message.session, Consumer>>}
        OBVIOUS
      <3>3. \A n \in session : n[1] \in Labels
        BY <3>2 DEF Labels
      <3>4. IsFiniteSet({<<"Session", Message.session, Consumer>>})
        BY <3>1
      <3> HIDE DEF session
      <3> QED BY <3>2, <3>3, <3>4, FS_Subset
    <2>4. devices \subseteq merged /\ Labelled(merged, "Merchant") \subseteq merged
      BY DEF Labelled
    <2>5. /\ UNCHANGED <<counted, began>>
          /\ trust' = [n \in DOMAIN trust \union devices |-> IF n \in devices THEN Message.trust ELSE trust[n]]
          /\ NextMessage
      BY <1>3 DEF Upsert
    <2>6. DOMAIN trust' \subseteq nodes \union merged
      BY <2>4, <2>5 DEF GraphTypes
    <2>7. ASSUME NEW more \in {merged, merged \union session},
                 NEW to \in {Labelled(merged, "Merchant"), Labelled(merged, "Merchant") \union session},
                 nodes' = nodes \union more, edges' = edges \union (devices \X to), to \subseteq more
          PROVE  /\ IsFiniteSet(nodes') /\ IsFiniteSet(edges')
                 /\ \A n \in nodes' : n[1] \in Labels
                 /\ edges' \subseteq nodes' \X nodes'
                 /\ nodes \subseteq nodes' /\ edges \subseteq edges' /\ merged \subseteq nodes'
      <3>1. IsFiniteSet(more) /\ \A n \in more : n[1] \in Labels
        <4> HIDE DEF merged, session
        <4> QED BY <2>2, <2>3, FS_Union
      <3>2. devices \subseteq more
        BY <2>4
      <3> HIDE DEF merged, session, devices
      <3> QED BY <2>7, <3>1, <3>2, GraphGrows
    <2>8. /\ IsFiniteSet(nodes') /\ IsFiniteSet(edges')
          /\ \A n \in nodes' : n[1] \in Labels
          /\ edges' \subseteq nodes' \X nodes'
          /\ nodes \subseteq nodes' /\ edges \subseteq edges' /\ merged \subseteq nodes'
      <3>1. CASE /\ nodes' = nodes \union merged \union session
                 /\ edges' = edges \union (devices \X (Labelled(merged, "Merchant") \union session))
        <4>1. nodes' = nodes \union (merged \union session)
          BY <3>1
        <4>2. Labelled(merged, "Merchant") \union session \subseteq merged \union session
          BY <2>4
        <4> HIDE DEF merged, session, devices
        <4> QED BY <2>7, <3>1, <4>1, <4>2
      <3>2. CASE /\ nodes' = nodes \union merged
                 /\ edges' = edges \union (devices \X Labelled(merged, "Merchant"))
        <4> HIDE DEF merged, session, devices
        <4> QED BY <2>4, <2>7, <3>2
      <3> QED BY <1>3, <3>1, <3>2 DEF Upsert
    <2> HIDE DEF merged, session, devices
    <2>9. phase[Consumer] = "looked"
      BY <1>3 DEF Upsert
    <2> QED BY <1>0, <1>2, <2>5, <2>6, <2>8, <2>9 DEF GraphKept, GraphFinite, GraphTypes
  <1>4. CASE UpsertFails
    BY <1>0, <1>2, <1>4 DEF UpsertFails, GraphKept, GraphFinite, GraphTypes
  <1>5. CASE UNCHANGED graphVars
    BY <1>5 DEF graphVars, AtMessage, GraphKept, GraphFinite, GraphTypes
  <1> QED BY <1>1, <1>3, <1>4, <1>5
\* More nodes and edges take no link away.
LEMMA LinksStay ==
  ASSUME edges \subseteq edges', NEW account, NEW n, Linked(account, n)
  PROVE  Linked(account, n)'
  BY DEF Linked

LEMMA SawStep ==
  ASSUME GraphInv, GraphKept, [GraphNext]_graphVars, NEW c \in Calls
  PROVE  SawEarlier(c)'
  <1> USE DEF GraphKept
  <1>1. CASE Look(c)
    <2> SUFFICES ASSUME NEW b \in began'[c], DeviceOf(b) = DeviceOf(c), DeviceOf(c) # NoId
                 PROVE  \E d \in looked'[c] : IsLabel("Device", DeviceOf(c), d) /\ Linked(AccountOf(b), d)'
      BY DEF SawEarlier, IsLabel, DeviceOf, AccountOf, Linked
    <2>1. b \in Calls /\ phase[b] = "done"
      BY <1>1 DEF Look, GraphInv, GraphTypes
    <2>2. PICK d \in nodes : IsLabel("Device", DeviceOf(c), d) /\ Linked(AccountOf(b), d)
      BY <2>1 DEF GraphInv, MergedItsOwn
    <2>3. <<d[1], d[2]>> \in KeysOf(c)
      BY <2>2, KeysType DEF IsLabel
    <2>4. looked'[c] = Matching(KeysOf(c))
      BY <1>1 DEF Look, GraphInv, GraphFinite
    <2>5. d \in looked'[c]
      BY <2>3, <2>4 DEF Matching
    <2> QED BY <2>2, <2>5, LinksStay
  <1>2. CASE ~Look(c)
    <2>1. began'[c] = began[c] /\ looked'[c] = looked[c] /\ (phase'[c] # "new" => phase[c] # "new")
      BY <1>2, CallFrame DEF GraphInv, GraphFinite, GraphTypes, Merge, Count, AnalyzeFails
    <2> SUFFICES ASSUME phase'[c] # "new", NEW b \in began[c], DeviceOf(b) = DeviceOf(c), DeviceOf(c) # NoId
                 PROVE  \E d \in looked[c] : IsLabel("Device", DeviceOf(c), d) /\ Linked(AccountOf(b), d)'
      BY <2>1 DEF SawEarlier, IsLabel, DeviceOf, AccountOf, Linked
    <2>2. PICK d \in looked[c] : IsLabel("Device", DeviceOf(c), d) /\ Linked(AccountOf(b), d)
      BY <2>1 DEF GraphInv, SawEarlier
    <2> QED BY <2>2, LinksStay
  <1> QED BY <1>1, <1>2

\* A MERGE links the account to every device node it found or created.
LEMMA MergeLinks ==
  ASSUME GraphInv, NEW c \in Calls, Merge(c), DeviceOf(c) # NoId
  PROVE  /\ \E d \in nodes' : IsLabel("Device", DeviceOf(c), d) /\ Linked(AccountOf(c), d)'
         /\ \A d \in looked[c] : IsLabel("Device", DeviceOf(c), d) => Linked(AccountOf(c), d)'
  <1> DEFINE mine == Merged(KeysOf(c), looked[c], c)
  <1>1. IsFiniteSet(looked[c]) /\ \A n \in looked[c] : n[1] \in Labels
    BY FS_Subset DEF GraphInv, GraphFinite, GraphTypes
  <1>2. looked[c] \subseteq mine /\ \A k \in KeysOf(c) : \E n \in mine : n[1] = k[1] /\ n[2] = k[2]
    BY <1>1, KeysType, MergedNodes
  <1>3. nodes' = nodes \union mine
        /\ edges' = edges \union (Labelled(mine, "Account") \X (Labelled(mine, "Device") \union Labelled(mine, "Ip")))
    BY DEF Merge
  <1> HIDE DEF mine
  <1>4. PICK a \in mine : IsLabel("Account", AccountOf(c), a)
    <2>1. PICK k \in KeysOf(c) : k = <<"Account", AccountOf(c)>>
      BY KeysType
    <2> QED BY <1>2, <2>1 DEF IsLabel
  <1>5. PICK n \in mine : IsLabel("Device", DeviceOf(c), n)
    <2>1. PICK k \in KeysOf(c) : k = <<"Device", DeviceOf(c)>>
      BY KeysType
    <2> QED BY <1>2, <2>1 DEF IsLabel
  <1>6. ASSUME NEW d \in mine, IsLabel("Device", DeviceOf(c), d) PROVE Linked(AccountOf(c), d)'
    <2>1. a \in Labelled(mine, "Account") /\ d \in Labelled(mine, "Device")
      BY <1>4, <1>6 DEF Labelled, IsLabel
    <2>2. <<a, d>> \in edges'
      BY <1>3, <2>1
    <2> QED BY <1>4, <2>2 DEF Linked, AccountOf
  <1> QED BY <1>2, <1>3, <1>5, <1>6

LEMMA MergedStep ==
  ASSUME GraphInv, GraphKept, [GraphNext]_graphVars, NEW c \in Calls
  PROVE  MergedItsOwn(c)'
  <1> USE DEF GraphKept
  <1>0. CASE ~(phase'[c] \in {"merged", "done"} /\ DeviceOf(c) # NoId)
    BY <1>0 DEF MergedItsOwn, DeviceOf
  <1>1. CASE Merge(c) /\ DeviceOf(c) # NoId
    <2>1. looked' = looked
      BY <1>1 DEF Merge
    <2> QED BY <1>1, <2>1, MergeLinks DEF MergedItsOwn, IsLabel, DeviceOf, AccountOf, Linked
  <1>2. CASE ~Merge(c) /\ phase'[c] \in {"merged", "done"} /\ DeviceOf(c) # NoId
    <2>1. phase[c] \in {"merged", "done"} /\ looked'[c] = looked[c]
      BY <1>2, CallFrame DEF GraphInv, GraphFinite, GraphTypes, Look, Count, AnalyzeFails
    <2>2. PICK d \in nodes : IsLabel("Device", DeviceOf(c), d) /\ Linked(AccountOf(c), d)
      BY <1>2, <2>1 DEF GraphInv, MergedItsOwn
    <2>3. \E n \in nodes' : IsLabel("Device", DeviceOf(c), n) /\ Linked(AccountOf(c), n)'
      BY <2>2, LinksStay
    <2>4. \A n \in looked'[c] : IsLabel("Device", DeviceOf(c), n) => Linked(AccountOf(c), n)'
      BY <1>2, <2>1, LinksStay DEF GraphInv, MergedItsOwn
    <2> QED BY <2>3, <2>4 DEF MergedItsOwn, IsLabel, DeviceOf, AccountOf, Linked
  <1> QED BY <1>0, <1>1, <1>2

\* The count reaches every account that was there when the analysis looked:
\* through the node they share, whichever of two it is.
LEMMA CountFinds ==
  ASSUME GraphInv, NEW c \in Calls, Count(c), DeviceOf(c) # NoId
  PROVE  counted'[c].device >=
             Cardinality({AccountOf(b) : b \in {b \in began[c] : DeviceOf(b) = DeviceOf(c) /\ AccountOf(b) # AccountOf(c)}})
  <1> DEFINE found == Sharers(c, "Device")
             keys == {n[2] : n \in found}
             earlier == {b \in began[c] : DeviceOf(b) = DeviceOf(c) /\ AccountOf(b) # AccountOf(c)}
             accounts == {AccountOf(b) : b \in earlier}
  <1>1. ASSUME NEW b \in earlier PROVE AccountOf(b) \in keys
    <2>1. PICK d \in looked[c] : IsLabel("Device", DeviceOf(c), d) /\ Linked(AccountOf(b), d)
      BY DEF GraphInv, SawEarlier, Count
    <2>2. Linked(AccountOf(c), d)
      BY <2>1 DEF GraphInv, MergedItsOwn, Count
    <2>3. PICK mine : IsLabel("Account", AccountOf(c), mine) /\ <<mine, d>> \in edges
      BY <2>2 DEF Linked
    <2>4. PICK other : IsLabel("Account", AccountOf(b), other) /\ <<other, d>> \in edges
      BY <2>1 DEF Linked
    <2>5. PICK e \in edges : e = <<mine, d>>
      BY <2>3
    <2>6. PICK x \in edges : x = <<other, d>>
      BY <2>4
    <2>7. d \in {y[2] : y \in {z \in edges : z[1][2] = Analyses[c].account /\ z[2][1] = "Device"}}
      BY <2>1, <2>3, <2>5 DEF IsLabel, AccountOf
    <2>8. x[1][1] = "Account" /\ x[1][2] # Analyses[c].account /\ x[2] = d /\ x[1] = other
      BY <2>4, <2>6 DEF IsLabel, AccountOf
    <2>9. other \in found
      BY <2>7, <2>8 DEF Sharers
    <2> QED BY <2>4, <2>9 DEF IsLabel
  <1>2. IsFiniteSet(found)
    BY SharersFinite DEF GraphInv, GraphFinite
  <1>3. IsFiniteSet(keys) /\ Cardinality(keys) <= Cardinality(found)
    <2> DEFINE f == [n \in found |-> n[2]]
    <2>1. f \in Surjection(found, keys)
      BY DEF Surjection
    <2> HIDE DEF found
    <2> QED BY <1>2, <2>1, FS_Surjection
  <1>4. Cardinality(accounts) <= Cardinality(keys) /\ IsFiniteSet(accounts)
    <2>1. accounts \subseteq keys
      BY <1>1
    <2> HIDE DEF accounts, keys
    <2> QED BY <1>3, <2>1, FS_Subset
  <1>5. counted'[c].device = Cardinality(found)
    BY DEF Count, DeviceOf, GraphInv, GraphTypes
  <1>6. Cardinality(found) \in Nat /\ Cardinality(keys) \in Nat /\ Cardinality(accounts) \in Nat
    BY <1>2, <1>3, <1>4, FS_CardinalityType
  <1> HIDE DEF found, keys, accounts
  <1>7. counted'[c].device >= Cardinality(accounts)
    BY <1>3, <1>4, <1>5, <1>6
  <1> QED BY <1>7 DEF accounts

LEMMA CountedStep ==
  ASSUME GraphInv, GraphKept, [GraphNext]_graphVars
  PROVE  EarlierSharersAreCounted'
  <1> SUFFICES ASSUME NEW c \in Calls, phase'[c] = "done", Analyses[c].device # NoId
               PROVE  counted'[c].device >=
                          Cardinality({AccountOf(b) : b \in {b \in began'[c] : DeviceOf(b) = DeviceOf(c) /\ AccountOf(b) # AccountOf(c)}})
    BY DEF EarlierSharersAreCounted, AccountOf, DeviceOf
  <1>1. CASE Count(c)
    <2>1. began' = began
      BY <1>1 DEF Count
    <2> QED BY <1>1, <2>1, CountFinds DEF DeviceOf
  <1>2. CASE ~Count(c)
    <2>1. phase[c] = "done" /\ began'[c] = began[c] /\ counted'[c] = counted[c]
      BY <1>2, CallFrame DEF GraphInv, GraphFinite, GraphTypes, Look, Merge, AnalyzeFails
    <2> QED BY <2>1 DEF GraphInv, EarlierSharersAreCounted, AccountOf, DeviceOf
  <1> QED BY <1>1, <1>2

LEMMA GraphInvariance == GraphSpec => []GraphInv
  <1>1. GraphInit => GraphInv
    <2> SUFFICES ASSUME GraphInit PROVE GraphInv
      OBVIOUS
    <2>1. GraphFinite
      BY FS_EmptySet DEF GraphInit, GraphFinite
    <2>2. GraphTypes
      BY GraphAssumption DEF GraphInit, GraphTypes, Zero
    <2>3. \A c \in Calls : SawEarlier(c) /\ MergedItsOwn(c)
      BY DEF GraphInit, SawEarlier, MergedItsOwn
    <2>4. EarlierSharersAreCounted
      BY DEF GraphInit, EarlierSharersAreCounted
    <2> QED BY <2>1, <2>2, <2>3, <2>4 DEF GraphInv
  <1>2. GraphInv /\ [GraphNext]_graphVars => GraphInv'
    <2> SUFFICES ASSUME GraphInv, [GraphNext]_graphVars PROVE GraphInv'
      OBVIOUS
    <2>1. GraphKept
      BY AnalysisTypes, ConsumerTypes DEF GraphInv, GraphNext
    <2> QED BY <2>1, SawStep, MergedStep, CountedStep DEF GraphInv, GraphKept
  <1> QED BY <1>1, <1>2, PTL DEF GraphSpec

\* GraphIntelService.analyze: an analysis counts every account whose analysis of
\* the same device had ended when it began, also when overlapping MERGEs have
\* created the device, or the account, more than once.
THEOREM SharersAreCounted == GraphSpec => []EarlierSharersAreCounted
  <1>1. GraphInv => EarlierSharersAreCounted
    BY DEF GraphInv
  <1> QED BY GraphInvariance, <1>1, PTL

\* Partners are partners of each other, and edges are between nodes.
THEOREM GraphTypeCorrect == GraphSpec => []GraphTypeOK
  <1>1. GraphInv => GraphTypeOK
    <2> SUFFICES ASSUME GraphInv PROVE GraphTypeOK
      OBVIOUS
    <2>1. \A m1, m2 : Common(m1, m2) = Common(m2, m1)
      BY DEF Common
    <2>2. ASSUME NEW m \in Labelled(nodes, "Merchant"), NEW p \in RingMembers(m[2]) PROVE m[2] \in RingMembers(p)
      <3>1. Common(p, m[2]) = Common(m[2], p)
        BY <2>1
      <3> QED BY <3>1 DEF RingMembers
    <2>3. ASSUME NEW c \in Calls PROVE counted[c] \in [fraud : Nat, device : Nat, ip : Nat] /\ RiskOf(c) \in 0 .. 90
      BY DEF GraphInv, GraphTypes, RiskOf, GraphRisk, Points, UpTo
    <2> QED BY <2>2, <2>3 DEF GraphInv, GraphTypes, GraphTypeOK, Labels
  <1> QED BY GraphInvariance, <1>1, PTL

-----------------------------------------------------------------------------
(* decision-service: from the answers to the verdict *)

\* Whole division rounds down.
LEMMA Quotient ==
  ASSUME NEW a \in Int, NEW b \in Nat \ {0}
  PROVE  a \div b \in Int /\ b * (a \div b) <= a /\ a < b * (a \div b) + b
  OBVIOUS

LEMMA Monotonic ==
  ASSUME NEW a \in Int, NEW b \in Int, NEW c \in Nat, a <= b
  PROVE  c * a <= c * b
  <1>1. PICK d \in Nat : b = a + d
    BY b - a \in Nat
  <1>2. c * d \in Nat
    OBVIOUS
  <1>3. c * (a + d) = c * a + c * d
    OBVIOUS
  <1> QED BY <1>1, <1>2, <1>3

\* Rounding to the nearest number does not leave the whole bounds of a mean.
LEMMA RoundedBetween ==
  ASSUME NEW sum \in Int, NEW total \in Nat \ {0}, NEW low \in Int, NEW high \in Int,
         total * low <= sum, sum <= total * high
  PROVE  RoundedQuotient(sum, total) \in Int /\ low <= RoundedQuotient(sum, total)
         /\ RoundedQuotient(sum, total) <= high
  <1> DEFINE q == (2 * sum + total) \div (2 * total)
  <1>1. q \in Int /\ (2 * total) * q <= 2 * sum + total /\ 2 * sum + total < (2 * total) * q + 2 * total
    <2>1. 2 * sum + total \in Int /\ 2 * total \in Nat \ {0}
      OBVIOUS
    <2> QED BY <2>1, Quotient
  <1> HIDE DEF q
  <1>2. (2 * total) * q = 2 * (total * q) /\ total * q \in Int
    BY <1>1
  <1>3. low <= q
    <2> SUFFICES ASSUME q + 1 <= low PROVE FALSE
      BY <1>1
    <2>1. total * (q + 1) <= total * low
      BY <1>1, Monotonic
    <2>2. total * (q + 1) = total * q + total
      BY <1>1
    <2> QED BY <1>1, <1>2, <2>1, <2>2
  <1>4. q <= high
    <2> SUFFICES ASSUME high + 1 <= q PROVE FALSE
      BY <1>1
    <2>1. total * (high + 1) <= total * q
      BY <1>1, Monotonic
    <2>2. total * (high + 1) = total * high + total /\ total * high \in Int
      OBVIOUS
    <2> QED BY <1>1, <1>2, <2>1, <2>2
  <1> QED BY <1>1, <1>3, <1>4 DEF q, RoundedQuotient

\* The weighted mean lies between any whole bounds of the scores it is taken of.
LEMMA MeanBetween ==
  ASSUME NEW available \in SUBSET Signals, available # {}, NEW scores,
         \A s \in available : scores[s] \in 0 .. 100,
         NEW low \in 0 .. 100, NEW high \in 0 .. 100,
         \A s \in available : low <= scores[s] /\ scores[s] <= high
  PROVE  computeWeightedScore(available, scores) \in low .. high
  <1> DEFINE w(s) == IF s \in available THEN Weight[s] ELSE 0
             p(s) == IF s \in available THEN Weight[s] * scores[s] ELSE 0
             T == w("device") + w("velocity") + w("behavioral") + w("network") + w("telco")
             S == p("device") + p("velocity") + p("behavioral") + p("network") + p("telco")
  <1>0. \A s \in Signals : Weight[s] \in 1 .. 100
    BY DEF Weight, Signals
  <1>1. ASSUME NEW s \in Signals
        PROVE  w(s) \in Nat /\ p(s) \in Int /\ w(s) * low <= p(s) /\ p(s) <= w(s) * high
    <2>1. CASE s \in available
      <3>1. scores[s] \in Nat /\ low <= scores[s] /\ scores[s] <= high /\ Weight[s] \in Nat
        BY <1>0, <2>1
      <3>2. Weight[s] * low <= Weight[s] * scores[s] /\ Weight[s] * scores[s] <= Weight[s] * high
        <4> DEFINE k == Weight[s]
                   m == scores[s]
        <4>1. k \in Nat /\ m \in Int /\ low \in Int /\ high \in Int /\ low <= m /\ m <= high
          BY <3>1
        <4> HIDE DEF k, m
        <4>2. k * low <= k * m /\ k * m <= k * high
          BY <4>1, Monotonic
        <4> QED BY <4>2 DEF k, m
      <3> QED BY <2>1, <3>1, <3>2
    <2>2. CASE s \notin available
      BY <2>2
    <2> QED BY <2>1, <2>2
  <1>2. PICK a \in available : TRUE
    OBVIOUS
  <1>3. w(a) >= 1
    BY <1>0, <1>2
  <1>4. \A s \in {"device", "velocity", "behavioral", "network", "telco"} : s \in Signals
    BY DEF Signals
  <1>5. Signals = {"device", "velocity", "behavioral", "network", "telco"}
    BY DEF Signals
  <1>6. computeWeightedScore(available, scores) = Clamp(RoundedQuotient(S, T))
    BY DEF computeWeightedScore, WeightedSum, TotalWeight
  <1> HIDE DEF w, p
  <1>7. T \in Nat \ {0}
    <2>1. \A i, j, k, l, n \in Nat : i >= 1 \/ j >= 1 \/ k >= 1 \/ l >= 1 \/ n >= 1 => i + j + k + l + n \in Nat \ {0}
      OBVIOUS
    <2>2. \A s \in {"device", "velocity", "behavioral", "network", "telco"} : w(s) \in Nat
      BY <1>1, <1>4
    <2>3. w("device") >= 1 \/ w("velocity") >= 1 \/ w("behavioral") >= 1 \/ w("network") >= 1 \/ w("telco") >= 1
      BY <1>2, <1>3, <1>5
    <2> QED BY <2>1, <2>2, <2>3
  <1>8. S \in Int
    BY <1>1, <1>4
  <1>9. ASSUME NEW m \in Int
        PROVE  T * m = w("device") * m + w("velocity") * m + w("behavioral") * m + w("network") * m + w("telco") * m
    <2>1. \A i, j, k, l, n \in Nat : (i + j + k + l + n) * m = i * m + j * m + k * m + l * m + n * m
      OBVIOUS
    <2> QED BY <1>1, <1>4, <2>1
  <1>10. /\ \A s \in {"device", "velocity", "behavioral", "network", "telco"} :
              w(s) * low \in Int /\ w(s) * high \in Int /\ w(s) * low <= p(s) /\ p(s) <= w(s) * high /\ p(s) \in Int
    <2>1. \A k \in Nat : k * low \in Int /\ k * high \in Int
      OBVIOUS
    <2> QED BY <1>1, <1>4, <2>1
  <1>11. T * low <= S /\ S <= T * high
    BY <1>9, <1>10
  <1> HIDE DEF S, T
  <1>12. RoundedQuotient(S, T) \in Int /\ low <= RoundedQuotient(S, T) /\ RoundedQuotient(S, T) <= high
    <2>1. low \in Int /\ high \in Int
      OBVIOUS
    <2> QED BY <1>7, <1>8, <1>11, <2>1, RoundedBetween
  <1> QED BY <1>6, <1>12 DEF Clamp, AtMost, AtLeast
-----------------------------------------------------------------------------
\* Every score is a number of the scale, or is missing.
Scores == (0 .. 100) \union {NoSignal, NaN}

\* What a fetch may have answered; the bundle holds that or nothing.
BundleInv ==
    /\ bundle.device \in fetchDeviceSignal /\ bundle.velocity \in fetchVelocitySignal
    /\ bundle.behavioral \in fetchBehavioralSignal /\ bundle.network \in fetchNetworkSignal
    /\ bundle.telco \in fetchTelcoSignal

PriorInv == prior.blocks \in Nat /\ prior.reviews \in Nat /\ prior.lists \subseteq {"watchlist", "allowlist"}
ScoreInv == \A s \in Signals : score[s] \in Scores

PathInv == PathTypeOK /\ BundleInv /\ PriorInv /\ ScoreInv /\ VerdictsAreExplained

LEMMA Clamped == \A x \in Int : Clamp(x) \in 0 .. 100
  BY DEF Clamp, AtMost, AtLeast

\* A score of an answer that may come is a number of the scale or NaN.
LEMMA ScoresOfAnswers ==
  ASSUME BundleInv, NEW s \in Signals
  PROVE  ScoreOf(s, bundle[s]) \in Scores
  <1> USE DEF Scores, Points
  <1>0. CASE bundle[s] = NoSignal
    BY <1>0 DEF ScoreOf
  <1>1. CASE s = "device"
    <2>1. bundle[s] = NoSignal
      BY <1>1 DEF BundleInv, fetchDeviceSignal
    <2> QED BY <1>0, <2>1
  <1>2. CASE s = "velocity" /\ bundle[s] # NoSignal
    <2>1. velocityRiskScore(bundle[s]) \in 0 .. 100
      BY Clamped DEF velocityRiskScore
    <2> QED BY <1>2, <2>1 DEF ScoreOf
  <1>3. CASE s = "behavioral" /\ bundle[s] # NoSignal
    <2>1. SessionRisk(NoAttributes) \in Int
      BY DEF SessionRisk
    <2>2. bundle[s].sessionRiskScore \in Int
      BY <1>3, <2>1 DEF BundleInv, fetchBehavioralSignal
    <2>3. behavioralRiskScore(bundle[s]) \in 0 .. 100
      BY <2>2, Clamped DEF behavioralRiskScore
    <2> QED BY <1>3, <2>3 DEF ScoreOf
  <1>4. CASE s = "network" /\ bundle[s] # NoSignal
    <2>1. bundle[s].riskScore = 0
      BY <1>4 DEF BundleInv, fetchNetworkSignal
    <2>2. networkRiskScore(bundle[s]) \in 0 .. 100
      BY <2>1, Clamped DEF networkRiskScore
    <2> QED BY <1>4, <2>2 DEF ScoreOf
  <1>5. CASE s = "telco" /\ bundle[s] # NoSignal
    <2>1. bundle[s].prepaidProbability = NaN
      BY <1>5 DEF BundleInv, fetchTelcoSignal
    <2> QED BY <1>5, <2>1 DEF ScoreOf, telcoRiskScore
  <1> QED BY <1>0, <1>1, <1>2, <1>3, <1>4, <1>5 DEF Signals

\* The signals whose score is a number.
LEMMA NumbersAreAvailable ==
  ASSUME ScoreInv
  PROVE  Available \in SUBSET Signals /\ \A s \in Available : score[s] \in 0 .. 100
  BY DEF ScoreInv, Scores, Available

LEMMA WeightedScoreType == ScoreInv => computeWeightedScore(Available, score) \in 0 .. 100
  <1> SUFFICES ASSUME ScoreInv PROVE computeWeightedScore(Available, score) \in 0 .. 100
    OBVIOUS
  <1>1. CASE Available = {}
    BY <1>1 DEF computeWeightedScore
  <1>2. CASE Available # {}
    <2>1. \A s \in Available : score[s] \in 0 .. 100 /\ 0 <= score[s] /\ score[s] <= 100
      BY NumbersAreAvailable
    <2>2. 0 \in 0 .. 100 /\ 100 \in 0 .. 100
      OBVIOUS
    <2> HIDE DEF computeWeightedScore
    <2> QED BY <1>2, <2>1, <2>2, NumbersAreAvailable, MeanBetween
  <1> QED BY <1>1, <1>2

\* Prior decisions and lists keep the scale, and without the allowlist alone
\* they never lower the score.
LEMMA FinalScoreType ==
  ASSUME NEW base \in 0 .. 100, NEW blocks \in Nat, NEW reviews \in Nat,
         NEW lists \in SUBSET {"watchlist", "allowlist"}
  PROVE  /\ FinalScore(base, blocks, reviews, lists) \in 0 .. 100
         /\ lists # {"allowlist"} => base <= FinalScore(base, blocks, reviews, lists)
  <1>1. WithBlockBoost(base, blocks) \in base .. 100
    BY DEF WithBlockBoost, AtMost
  <1>2. \A x \in base .. 100 : WithReviewBoost(x, reviews) \in base .. 100
    BY DEF WithReviewBoost, AtMost
  <1>3. \A x \in base .. 100 :
            /\ WithLists(x, lists) \in 0 .. 100
            /\ lists # {"allowlist"} => base <= WithLists(x, lists)
    <2>1. lists # {"allowlist"} => "watchlist" \in lists \/ "allowlist" \notin lists
      OBVIOUS
    <2>2. \A x \in base .. 100 :
            /\ WithLists(x, lists) \in 0 .. 100
            /\ "watchlist" \in lists \/ "allowlist" \notin lists => base <= WithLists(x, lists)
      BY DEF WithLists, AtMost, AtLeast
    <2> QED BY <2>1, <2>2
  <1> QED BY <1>1, <1>2, <1>3 DEF FinalScore

\* The scores a wider mean lies between are those of some signals.
LEMMA BetweenScores == ScoreInv => ScoreBetweenSignals
  <1> SUFFICES ASSUME ScoreInv, Available # {}
               PROVE  LET total == computeWeightedScore(Available, score)
                      IN  (\E s \in Available : score[s] <= total) /\ (\E s \in Available : total <= score[s])
    BY DEF ScoreBetweenSignals
  <1> DEFINE total == computeWeightedScore(Available, score)
  <1>1. total \in 0 .. 100
    BY WeightedScoreType
  <1>2. Available \in SUBSET Signals /\ \A s \in Available : score[s] \in 0 .. 100
    BY NumbersAreAvailable
  <1>3. ASSUME \A s \in Available : ~(score[s] <= total) PROVE FALSE
    <2>1. total + 1 \in 0 .. 100 /\ 100 \in 0 .. 100
      <3>1. PICK s \in Available : TRUE
        OBVIOUS
      <3> HIDE DEF total
      <3> QED BY <1>1, <1>2, <1>3, <3>1
    <2>2. \A s \in Available : total + 1 <= score[s] /\ score[s] <= 100
      <3> HIDE DEF total
      <3> QED BY <1>1, <1>2, <1>3
    <2>3. total \in (total + 1) .. 100
      BY <1>2, <2>1, <2>2, MeanBetween
    <2> HIDE DEF total
    <2> QED BY <1>1, <2>3
  <1>4. ASSUME \A s \in Available : ~(total <= score[s]) PROVE FALSE
    <2>1. total - 1 \in 0 .. 100 /\ 0 \in 0 .. 100
      <3>1. PICK s \in Available : TRUE
        OBVIOUS
      <3> HIDE DEF total
      <3> QED BY <1>1, <1>2, <1>4, <3>1
    <2>2. \A s \in Available : 0 <= score[s] /\ score[s] <= total - 1
      <3> HIDE DEF total
      <3> QED BY <1>1, <1>2, <1>4
    <2>3. total \in 0 .. (total - 1)
      BY <1>2, <2>1, <2>2, MeanBetween
    <2> HIDE DEF total
    <2> QED BY <1>1, <2>3
  <1> QED BY <1>3, <1>4

LEMMA PathInitially == PathInit => PathInv
  <1> SUFFICES ASSUME PathInit PROVE PathInv
    OBVIOUS
  <1> USE PathNulls, PathBounds DEF PathInit
  <1>1. BundleInv
    BY DEF BundleInv, NoBundle, Signals, fetchDeviceSignal, fetchVelocitySignal, fetchBehavioralSignal,
           fetchNetworkSignal, fetchTelcoSignal
  <1>2. PathTypeOK /\ PriorInv /\ ScoreInv /\ VerdictsAreExplained
    BY DEF PathTypeOK, PriorInv, ScoreInv, Scores, VerdictsAreExplained
  <1> QED BY <1>1, <1>2 DEF PathInv

\* The verdict of a step is the one its score, its rules and the entity explain.
LEMMA DecideStep ==
  ASSUME PathInv, Decide
  PROVE  PathTypeOK' /\ VerdictsAreExplained'
  <1> DEFINE total == FinalScore(computeWeightedScore(Available, score), prior.blocks, prior.reviews, prior.lists)
  <1>1. PICK matched \in SUBSET DOMAIN Rules :
           /\ verdict'.score = total
           /\ verdict'.action = WithRules(computeAction(total), Outcome(matched))
           /\ verdict'.rules = matched
    BY DEF Decide
  <1>2. /\ stage' = "idle" /\ UNCHANGED <<request, prior, score>>
        /\ emitted' = emitted \/ (emitted' = emitted + 1 /\ ~(emitted >= ThrottleLimit))
    BY DEF Decide
  <1>3. emitted' \in 0 .. ThrottleLimit /\ request \subseteq RequestIds
    BY <1>2, PathBounds DEF PathInv, PathTypeOK
  <1> DEFINE base == computeWeightedScore(Available, score)
  <1>4. /\ base \in 0 .. 100 /\ prior.blocks \in Nat /\ prior.reviews \in Nat
        /\ prior.lists \in SUBSET {"watchlist", "allowlist"}
    BY WeightedScoreType DEF PathInv, PriorInv
  <1>5. total \in 0 .. 100 /\ (prior.lists # {"allowlist"} => base <= total)
    <2> HIDE DEF base
    <2>1. /\ FinalScore(base, prior.blocks, prior.reviews, prior.lists) \in 0 .. 100
          /\ prior.lists # {"allowlist"} => base <= FinalScore(base, prior.blocks, prior.reviews, prior.lists)
      BY <1>4, FinalScoreType
    <2> QED BY <2>1 DEF base
  <1>6. Available = {} => base = 50
    BY DEF computeWeightedScore
  <1>7. Available' = Available
    BY <1>2 DEF Available
  <1> HIDE DEF total, base
  <1>8. verdict'.action \in Actions
    BY <1>1 DEF WithRules, computeAction, Actions
  <1>9. verdict'.action # computeAction(total) => \E r \in matched : Rules[r] = verdict'.action
    BY <1>1 DEF WithRules, computeAction, Outcome
  <1>10. verdict'.action = "ALLOW" => total < 40
    BY <1>1, <1>5 DEF WithRules, computeAction, BLOCK_THRESHOLD, REVIEW_THRESHOLD
  <1>11. verdict'.action = "ALLOW" /\ Available = {} => prior.lists = {"allowlist"}
    BY <1>4, <1>5, <1>6, <1>10
  <1> QED BY <1>1, <1>2, <1>3, <1>5, <1>7, <1>8, <1>9, <1>11 DEF PathTypeOK, VerdictsAreExplained

LEMMA PathStep == PathInv /\ [PathNext]_pathVars => PathInv'
  <1> SUFFICES ASSUME PathInv, [PathNext]_pathVars PROVE PathInv'
    OBVIOUS
  <1> USE DEF PathInv
  <1>1. ASSUME NEW asked \in SUBSET RequestIds, Begin(asked) PROVE PathInv'
    <2>1. /\ bundle' = NoBundle /\ score' = [s \in Signals |-> NoSignal] /\ verdict' = NoSignal
          /\ stage' = "asked" /\ request' = asked /\ emitted' = emitted
      BY <1>1 DEF Begin
    <2>2. PriorInv'
      BY <1>1, PathBounds DEF Begin, PriorInv
    <2>3. BundleInv'
      BY <2>1 DEF BundleInv, NoBundle, Signals, fetchDeviceSignal, fetchVelocitySignal, fetchBehavioralSignal,
                  fetchNetworkSignal, fetchTelcoSignal
    <2>4. PathTypeOK' /\ ScoreInv' /\ VerdictsAreExplained'
      BY <2>1 DEF PathTypeOK, ScoreInv, Scores, VerdictsAreExplained
    <2> QED BY <2>2, <2>3, <2>4
  <1>2. CASE Fetch
    <2>1. UNCHANGED <<request, prior, score, verdict, emitted>> /\ stage' = "fetched"
      BY <1>2 DEF Fetch
    <2>2. PICK device \in Answers.device, velocity \in Answers.velocity, behavioral \in Answers.behavioral,
               network \in Answers.network, telco \in Answers.telco, graph \in Answers.graph :
             bundle' = [device |-> device, velocity |-> velocity, behavioral |-> behavioral,
                        network |-> network, telco |-> telco, graph |-> graph]
      BY <1>2 DEF Fetch
    <2>3. /\ NoSignal \in fetchDeviceSignal /\ NoSignal \in fetchBehavioralSignal
          /\ NoSignal \in fetchNetworkSignal /\ NoSignal \in fetchTelcoSignal
      BY DEF fetchDeviceSignal, fetchBehavioralSignal, fetchNetworkSignal, fetchTelcoSignal
    <2>4. /\ device \in fetchDeviceSignal /\ velocity \in fetchVelocitySignal /\ behavioral \in fetchBehavioralSignal
          /\ network \in fetchNetworkSignal /\ telco \in fetchTelcoSignal
      BY <2>3 DEF Answers
    <2>5. BundleInv'
      BY <2>2, <2>4 DEF BundleInv
    <2>6. PathTypeOK' /\ PriorInv' /\ ScoreInv' /\ VerdictsAreExplained'
      BY <2>1 DEF PathTypeOK, PriorInv, ScoreInv, VerdictsAreExplained
    <2> QED BY <2>5, <2>6
  <1>3. CASE ComputeScores
    <2>1. UNCHANGED <<request, bundle, prior, verdict, emitted>> /\ stage' = "scored"
      BY <1>3 DEF ComputeScores
    <2>2. score' = [s \in Signals |-> ScoreOf(s, bundle[s])]
      BY <1>3 DEF ComputeScores
    <2>3. ScoreInv'
      BY <2>2, ScoresOfAnswers DEF ScoreInv
    <2>4. PathTypeOK' /\ PriorInv' /\ VerdictsAreExplained'
      BY <2>1 DEF PathTypeOK, PriorInv, VerdictsAreExplained
    <2>5. BundleInv'
      BY <2>1 DEF BundleInv
    <2> QED BY <2>3, <2>4, <2>5
  <1>4. CASE Decide
    <2>1. UNCHANGED <<bundle, prior, score>>
      BY <1>4 DEF Decide
    <2>2. BundleInv' /\ PriorInv' /\ ScoreInv'
      BY <2>1 DEF BundleInv, PriorInv, ScoreInv
    <2> QED BY <1>4, <2>2, DecideStep
  <1>5. CASE NewWindow \/ UNCHANGED pathVars
    <2>1. /\ UNCHANGED <<stage, request, bundle, prior, score, verdict>>
          /\ emitted' = 0 \/ emitted' = emitted
      BY <1>5 DEF NewWindow, pathVars
    <2>2. PathTypeOK'
      BY <2>1, PathBounds DEF PathTypeOK
    <2>3. BundleInv' /\ PriorInv' /\ ScoreInv'
      BY <2>1 DEF BundleInv, PriorInv, ScoreInv
    <2>4. VerdictsAreExplained'
      BY <2>1 DEF VerdictsAreExplained, Available
    <2> QED BY <2>2, <2>3, <2>4
  <1> QED BY <1>1, <1>2, <1>3, <1>4, <1>5 DEF PathNext

\* orchestrator: stages, ids, the throttle's counter and the verdict keep
\* their types, and a score never leaves 0 to 100.
THEOREM PathTypeCorrect == PathSpec => []PathTypeOK
  <1>1. PathInv => PathTypeOK
    BY DEF PathInv
  <1> QED BY PathInitially, PathStep, <1>1, PTL DEF PathSpec

\* computeWeightedScore and decide: whichever services answered and whatever
\* they counted, a missing signal neither raises nor lowers the score, and a
\* verdict above its score names the rule that raised it.
THEOREM VerdictsFollow == PathSpec => []VerdictsFollowSignals
  <1>1. PathInv => VerdictsFollowSignals
    BY BetweenScores DEF PathInv, VerdictsFollowSignals
  <1> QED BY PathInitially, PathStep, <1>1, PTL DEF PathSpec

-----------------------------------------------------------------------------
\* The order of severity of the actions, and of what the rules say.
Rank == [ALLOW |-> 0, REVIEW |-> 1, BLOCK |-> 2]
Severity == [none |-> 0, error |-> 0, REVIEW |-> 1, BLOCK |-> 2]

\* decide: a riskier mean, more prior blocks or reviews, a place on the
\* watchlist, one lost on the allowlist or a stricter rule outcome never make
\* the action milder.
THEOREM RiskierIsNeverMilder ==
  ASSUME NEW x \in 0 .. 100, NEW y \in 0 .. 100, x <= y,
         NEW b \in Nat, NEW c \in Nat, b <= c, NEW r \in Nat, NEW q \in Nat, r <= q,
         NEW lists \in SUBSET ListTypes,
         NEW harsher \in {lists, lists \union {"watchlist"}, lists \ {"allowlist"}},
         NEW rules \in RuleOutcomes, NEW stricter \in RuleOutcomes, Severity[rules] <= Severity[stricter]
  PROVE  Rank[ScoredAction(x, b, r, lists, rules)] <= Rank[ScoredAction(y, c, q, harsher, stricter)]
  <1>1. /\ WithBlockBoost(x, b) \in 0 .. 100 /\ WithBlockBoost(y, c) \in 0 .. 100
        /\ WithBlockBoost(x, b) <= WithBlockBoost(y, c)
    BY DEF WithBlockBoost, AtMost
  <1>2. \A i, j \in 0 .. 100 : i <= j =>
            /\ WithReviewBoost(i, r) \in 0 .. 100 /\ WithReviewBoost(j, q) \in 0 .. 100
            /\ WithReviewBoost(i, r) <= WithReviewBoost(j, q)
    BY DEF WithReviewBoost, AtMost
  <1>3. \A i, j \in 0 .. 100 : i <= j =>
            /\ WithLists(i, lists) \in Int /\ WithLists(j, harsher) \in Int
            /\ WithLists(i, lists) <= WithLists(j, harsher)
    <2>1. /\ "watchlist" \in lists => "watchlist" \in harsher
          /\ "allowlist" \in harsher => "allowlist" \in lists
      OBVIOUS
    <2>2. ASSUME NEW i \in 0 .. 100, NEW j \in 0 .. 100, i <= j
          PROVE  /\ WithLists(i, lists) \in Int /\ WithLists(j, harsher) \in Int
                 /\ WithLists(i, lists) <= WithLists(j, harsher)
      BY <2>1, <2>2 DEF WithLists, AtMost, AtLeast
    <2> QED BY <2>2
  <1> DEFINE low == FinalScore(x, b, r, lists)
             high == FinalScore(y, c, q, harsher)
  <1>4. low \in Int /\ high \in Int /\ low <= high
    BY <1>1, <1>2, <1>3 DEF FinalScore
  <1> HIDE DEF low, high
  <1>5. /\ computeAction(low) \in Actions /\ computeAction(high) \in Actions
        /\ Rank[computeAction(low)] <= Rank[computeAction(high)]
    BY <1>4 DEF computeAction, Rank, BLOCK_THRESHOLD, REVIEW_THRESHOLD, Actions
  <1>6. \A a, d \in Actions : Rank[a] <= Rank[d] => Rank[WithRules(a, rules)] <= Rank[WithRules(d, stricter)]
    BY DEF WithRules, Rank, Severity, Actions, RuleOutcomes
  <1> QED BY <1>5, <1>6 DEF ScoredAction, low, high

-----------------------------------------------------------------------------
(* The counters of velocity-service *)

\* The longest window in which a counter of events is read.
WindowOf(c) == IF c = "baseline" THEN BaselineWindow ELSE Window24h

\* Whatever still belongs to a window is in Redis, and its key stays for as
\* long as it does.
Retained ==
    ~farAhead =>
        /\ \A m \in tallied :
               m[2] \in SortedSets /\ ~OlderThan(WindowOf(m[2]), m[3]) => m \in store
        /\ \A m \in store :
               m[2] \in SortedSets => EventOf[m[3]].at + WindowOf(m[2]) <= deadline[<<m[1], m[2]>>]

\* What the counters are, whatever the consumer is doing.
CountersInv ==
    /\ Retained
    /\ farAhead \in BOOLEAN /\ store \subseteq tallied
    /\ \A m \in tallied : m[1] \in Keys /\ m[2] \in Counters /\ (m[2] \in SortedSets => m[3] \in Events)
    /\ \A m \in store : m[1] \in Keys /\ m[2] \in Counters
    /\ deadline \in [Keys \X Counters -> Nat]
    /\ \A l \in Keys, c \in Counters : deadline[<<l, c>>] <= now + TtlOf(c)

\* A message at hand is one of the topic.
VelocityInv == VelocityTypeOK /\ (pc # "idle" => next <= Len(Topic)) /\ CountersInv

-----------------------------------------------------------------------------

LEMMA VelocityNumbers ==
  /\ Topic \in Seq(Events) /\ Len(Topic) \in Nat
  /\ \A i \in 1 .. Len(Topic) : Topic[i] \in Events
  /\ \A e \in Events : EventOf[e].at \in Nat
  /\ \A c \in Counters : WindowOf(c) \in Nat /\ TtlOf(c) \in Nat
  <1>1. /\ Window24h \in Nat /\ BaselineWindow \in Nat /\ KeyTtl \in Nat /\ BaselineTtl \in Nat
    BY WindowsAssumption
  <1>2. Topic \in Seq(Events) /\ \A e \in Events : EventOf[e].at \in Nat
    BY TopicAssumption
  <1> QED BY <1>1, <1>2 DEF WindowOf, TtlOf

\* What a pipeline adds: a key's counters of one event.
LEMMA AdditionsAre ==
  ASSUME NEW k \in Keys, NEW e \in Events, NEW a \in Additions(k, e)
  PROVE  a[1] = k /\ a[2] \in Counters /\ (a[2] \in SortedSets => a[3] = e)
  BY DEF Additions, SortedSets, Counters

LEMMA KeysOfAnEvent ==
  ASSUME NEW e \in Events
  PROVE  EntityKeys(e) \subseteq Keys /\ EntityKeys(e) # {}
  <1>1. <<Merchant(e), "customer", CustomerOf(e)>> \in EntityKeys(e)
    BY DEF EntityKeys
  <1>2. EntityKeys(e) \subseteq Keys
    BY DEF Keys
  <1> QED BY <1>1, <1>2

\* A pipeline resets the deadlines of the keys it adds to, and the longest TTL
\* outlasts what is in them.
LEMMA AddStep ==
  ASSUME VelocityInv, NEW k \in Keys, NEW e \in Events,
         NEW added \in SUBSET Additions(k, e), Add(added), UNCHANGED now
  PROVE  CountersInv'
  <1>1. /\ store' = store \union added /\ tallied' = tallied \union added
        /\ farAhead' = (farAhead \/ \E a \in added : a[2] \in SortedSets /\ AheadOfTime(a[3]))
        /\ deadline' = [kc \in Keys \X Counters |->
               IF \E a \in added : a[1] = kc[1] /\ a[2] = kc[2] THEN now + TtlOf(kc[2]) ELSE deadline[kc]]
    BY DEF Add
  <1>2. /\ now \in Nat /\ now' = now /\ deadline \in [Keys \X Counters -> Nat]
        /\ \A l \in Keys, c \in Counters : deadline[<<l, c>>] <= now + TtlOf(c)
        /\ \A m \in store : m[1] \in Keys /\ m[2] \in Counters
        /\ store \subseteq tallied /\ farAhead \in BOOLEAN
        /\ \A m \in tallied :
              m[1] \in Keys /\ m[2] \in Counters /\ (m[2] \in SortedSets => m[3] \in Events)
    BY DEF VelocityInv, CountersInv, VelocityTypeOK
  <1>3. \A a \in added : a[1] = k /\ a[2] \in Counters /\ (a[2] \in SortedSets => a[3] = e)
    BY AdditionsAre
  <1>4. \A l \in Keys, c \in Counters :
            deadline'[<<l, c>>] = IF \E a \in added : a[1] = l /\ a[2] = c
                                  THEN now + TtlOf(c) ELSE deadline[<<l, c>>]
    BY <1>1
  <1>5. deadline' \in [Keys \X Counters -> Nat]
    BY <1>1, <1>2, VelocityNumbers
  <1>6. ASSUME NEW l \in Keys, NEW c \in Counters PROVE deadline'[<<l, c>>] <= now' + TtlOf(c)
    BY <1>2, <1>4, VelocityNumbers
  <1>7. ASSUME ~farAhead', NEW m \in tallied', m[2] \in SortedSets,
               ~OlderThan(WindowOf(m[2]), m[3])'
        PROVE  m \in store'
    <2>1. CASE m \in added
      BY <2>1, <1>1
    <2>2. CASE m \in tallied
      BY <2>2, <1>1, <1>2, <1>7 DEF VelocityInv, CountersInv, Retained, OlderThan
    <2> QED BY <2>1, <2>2, <1>1
  <1>8. ASSUME ~farAhead', NEW m \in store', m[2] \in SortedSets
        PROVE  EventOf[m[3]].at + WindowOf(m[2]) <= deadline'[<<m[1], m[2]>>]
    <2>1. m[1] \in Keys /\ m[2] \in Counters /\ m[3] \in Events
      BY <1>1, <1>2, <1>3, <1>8
    <2>2. CASE m \in added
      <3>1. ~AheadOfTime(m[3])
        BY <1>1, <1>8, <2>2
      <3>2. EventOf[m[3]].at + WindowOf(m[2]) <= now + TtlOf(m[2])
        <4>0. /\ Window24h \in Nat /\ BaselineWindow \in Nat /\ KeyTtl \in Nat /\ BaselineTtl \in Nat
              /\ EventOf[m[3]].at \in Nat
          BY <2>1, VelocityNumbers, WindowsAssumption
        <4>1. /\ EventOf[m[3]].at + Window24h <= now + KeyTtl
              /\ EventOf[m[3]].at + BaselineWindow <= now + BaselineTtl
          BY <1>2, <3>1, <4>0 DEF AheadOfTime
        <4> QED BY <4>1 DEF WindowOf, TtlOf
      <3> QED BY <1>4, <2>1, <2>2, <3>2
    <2>3. CASE m \in store
      <3>1. EventOf[m[3]].at + WindowOf(m[2]) <= deadline[<<m[1], m[2]>>]
        BY <1>1, <1>8, <2>3 DEF VelocityInv, CountersInv, Retained
      <3>2. deadline[<<m[1], m[2]>>] <= now + TtlOf(m[2]) /\ deadline[<<m[1], m[2]>>] \in Nat
        BY <1>2, <2>1
      <3>3. EventOf[m[3]].at \in Nat /\ WindowOf(m[2]) \in Nat /\ TtlOf(m[2]) \in Nat
        BY <2>1, VelocityNumbers
      <3>4. EventOf[m[3]].at + WindowOf(m[2]) <= now + TtlOf(m[2])
        BY <1>2, <3>1, <3>2, <3>3
      <3> QED BY <1>4, <2>1, <3>1, <3>4
    <2> QED BY <2>2, <2>3, <1>1
  <1>9. Retained'
    BY <1>7, <1>8 DEF Retained
  <1>10. \A m \in tallied' : m[1] \in Keys /\ m[2] \in Counters /\ (m[2] \in SortedSets => m[3] \in Events)
    BY <1>1, <1>2, <1>3
  <1>11. farAhead' \in BOOLEAN
    BY <1>1, <1>2
  <1> QED BY <1>1, <1>2, <1>5, <1>6, <1>9, <1>10, <1>11 DEF CountersInv

\* The counters and the history stand still.
LEMMA VelocityUnchanged ==
  ASSUME VelocityInv, UNCHANGED <<now, store, deadline, tally>>
  PROVE  CountersInv'
  <1>1. /\ now' = now /\ store' = store /\ deadline' = deadline /\ tallied' = tallied
        /\ farAhead' = farAhead
    BY DEF tally
  <1>2. Retained'
    BY <1>1 DEF VelocityInv, CountersInv, Retained, OlderThan
  <1> QED BY <1>1, <1>2 DEF VelocityInv, CountersInv, VelocityTypeOK

\* Steps of the consumer that add to no counter.
LEMMA ConsumerStep ==
  ASSUME VelocityInv,
         \/ Skip \/ Mark \/ MarkFails \/ Unmark \/ UnmarkFails \/ CommitOffset \/ Crash
         \/ \E e \in Events : ExpireMarker(e)
  PROVE  VelocityInv'
  <1>1. UNCHANGED <<now, store, deadline, tally>>
    BY DEF Skip, Mark, MarkFails, Unmark, UnmarkFails, CommitOffset, Crash, ExpireMarker
  <1>2. /\ now \in 0 .. MaxTime
        /\ committed \in 1 .. Len(Topic) + 1 /\ next \in committed .. Len(Topic) + 1
        /\ pc \in {"idle", "counting", "failed"} /\ (pc # "idle" => next <= Len(Topic))
        /\ pending \subseteq Keys /\ (pc = "counting" <=> pending # {})
        /\ stragglers \subseteq Keys \X Events
        /\ markers \subseteq Events /\ excused \subseteq Events
        /\ faults \in 0 .. MaxFaults /\ crashes \in 0 .. MaxCrashes
    BY DEF VelocityInv, CountersInv, VelocityTypeOK
  <1>3. AtEvent \/ pc # "idle" => Current \in Events /\ next <= Len(Topic)
    BY <1>2, VelocityNumbers DEF AtEvent, Current
  <1>4. /\ committed' \in 1 .. Len(Topic) + 1 /\ next' \in committed' .. Len(Topic) + 1
        /\ pc' \in {"idle", "counting", "failed"} /\ (pc' # "idle" => next' <= Len(Topic))
        /\ pending' \subseteq Keys /\ (pc' = "counting" <=> pending' # {})
        /\ stragglers' \subseteq Keys \X Events
        /\ markers' \subseteq Events /\ excused' \subseteq Events
        /\ faults' \in 0 .. MaxFaults /\ crashes' \in 0 .. MaxCrashes
    <2>1. CASE Skip
      BY <2>1, <1>2, <1>3, VelocityNumbers DEF Skip, AtEvent
    <2>2. CASE Mark
      BY <2>2, <1>2, <1>3, KeysOfAnEvent DEF Mark, AtEvent
    <2>3. CASE MarkFails
      BY <2>3, <1>2, <1>3, TimesAssumption DEF MarkFails, AtEvent, Fault
    <2>4. CASE Unmark
      BY <2>4, <1>2 DEF Unmark, RemoveMarker
    <2>5. CASE UnmarkFails
      BY <2>5, <1>2, <1>3, TimesAssumption DEF UnmarkFails, Fault
    <2>6. CASE CommitOffset
      BY <2>6, <1>2, VelocityNumbers DEF CommitOffset
    <2>7. CASE Crash
      <3>1. excused' \subseteq Events
        BY <2>7, <1>2, <1>3 DEF Crash
      <3> QED BY <2>7, <3>1, <1>2, VelocityNumbers, TimesAssumption DEF Crash
    <2>8. CASE \E e \in Events : ExpireMarker(e)
      BY <2>8, <1>2 DEF ExpireMarker
    <2> QED BY <2>1, <2>2, <2>3, <2>4, <2>5, <2>6, <2>7, <2>8
  <1>5. now' \in 0 .. MaxTime
    BY <1>1, <1>2
  <1> QED BY <1>1, <1>4, <1>5, VelocityUnchanged DEF VelocityInv, CountersInv, VelocityTypeOK

\* A pipeline ends.
LEMMA PipelineStep ==
  ASSUME VelocityInv,
         \/ \E k \in pending : Increment(k) \/ IncrementPartly(k) \/ IncrementFails(k)
         \/ \E s \in stragglers : EndStraggler(s)
  PROVE  VelocityInv'
  <1>1. /\ now \in 0 .. MaxTime
        /\ committed \in 1 .. Len(Topic) + 1 /\ next \in committed .. Len(Topic) + 1
        /\ pc \in {"idle", "counting", "failed"} /\ (pc # "idle" => next <= Len(Topic))
        /\ pending \subseteq Keys /\ (pc = "counting" <=> pending # {})
        /\ stragglers \subseteq Keys \X Events
        /\ markers \subseteq Events /\ excused \subseteq Events
        /\ faults \in 0 .. MaxFaults /\ crashes \in 0 .. MaxCrashes
    BY DEF VelocityInv, CountersInv, VelocityTypeOK
  <1>2. pc # "idle" => Current \in Events
    BY <1>1, VelocityNumbers DEF Current
  <1> DEFINE Adds == \/ UNCHANGED <<store, deadline, tally>>
                     \/ \E k \in Keys, e \in Events : \E added \in SUBSET Additions(k, e) : Add(added)
             Moves == /\ pc' \in {"idle", "counting", "failed"} /\ (pc' # "idle" => next' <= Len(Topic))
                      /\ next' \in committed .. Len(Topic) + 1
                      /\ pending' \subseteq Keys /\ (pc' = "counting" <=> pending' # {})
                      /\ stragglers' \subseteq Keys \X Events /\ excused' \subseteq Events
                      /\ faults' \in 0 .. MaxFaults
                      /\ UNCHANGED <<now, committed, markers, crashes>>
  <1>3. ASSUME NEW k \in pending, Settle(k), pc = "counting"
        PROVE  /\ pc' \in {"idle", "counting", "failed"} /\ (pc' # "idle" => next' <= Len(Topic))
               /\ next' \in committed .. Len(Topic) + 1
               /\ pending' \subseteq Keys /\ (pc' = "counting" <=> pending' # {})
    BY <1>1, <1>3, VelocityNumbers DEF Settle
  <1>4. Adds /\ Moves
    <2>1. ASSUME NEW k \in pending, Increment(k) PROVE Adds /\ Moves
      <3>1. Adds
        BY <2>1, <1>1, <1>2 DEF Increment
      <3> QED BY <2>1, <3>1, <1>1, <1>3 DEF Increment
    <2>2. ASSUME NEW k \in pending, IncrementPartly(k) PROVE Adds /\ Moves
      <3>1. Adds
        <4>1. PICK c \in Counters : Add({a \in Additions(k, Current) : a[2] # c})
          BY <2>2 DEF IncrementPartly
        <4> QED BY <2>2, <4>1, <1>1, <1>2 DEF IncrementPartly
      <3>2. faults' \in 0 .. MaxFaults
        BY <2>2, <1>1, TimesAssumption DEF IncrementPartly, Fault
      <3> QED BY <2>2, <3>1, <3>2, <1>1, <1>2, <1>3 DEF IncrementPartly
    <2>3. ASSUME NEW k \in pending, IncrementFails(k) PROVE Adds /\ Moves
      <3>1. Adds
        BY <2>3, <1>1, <1>2 DEF IncrementFails
      <3>2. faults' \in 0 .. MaxFaults
        BY <2>3, <1>1, TimesAssumption DEF IncrementFails, Fault
      <3> QED BY <2>3, <3>1, <3>2, <1>1, <1>2 DEF IncrementFails
    <2>4. ASSUME NEW s \in stragglers, EndStraggler(s) PROVE Adds /\ Moves
      <3>1. Adds
        BY <2>4, <1>1 DEF EndStraggler
      <3> QED BY <2>4, <3>1, <1>1 DEF EndStraggler
    <2> QED BY <2>1, <2>2, <2>3, <2>4
  <1>5. UNCHANGED now
    BY <1>4
  <1>6. CountersInv'
    <2>1. CASE UNCHANGED <<store, deadline, tally>>
      BY <2>1, <1>5, VelocityUnchanged
    <2>2. ASSUME NEW k \in Keys, NEW e \in Events, NEW added \in SUBSET Additions(k, e), Add(added)
          PROVE  CountersInv'
      BY <2>2, <1>5, AddStep
    <2> QED BY <2>1, <2>2, <1>4
  <1> QED BY <1>1, <1>4, <1>6 DEF VelocityInv, CountersInv, VelocityTypeOK

\* Redis drops no key that holds a member.
LEMMA NonEmptyKeysStay ==
  ASSUME VelocityInv, DropEmptyKeys, store' \subseteq store
  PROVE  /\ \A m \in store' : deadline'[<<m[1], m[2]>>] = deadline[<<m[1], m[2]>>]
         /\ deadline' \in [Keys \X Counters -> Nat]
         /\ \A l \in Keys, c \in Counters : deadline'[<<l, c>>] <= now + TtlOf(c)
  <1>1. /\ deadline \in [Keys \X Counters -> Nat] /\ now \in Nat
        /\ \A l \in Keys, c \in Counters : deadline[<<l, c>>] <= now + TtlOf(c)
        /\ \A m \in store' : m[1] \in Keys /\ m[2] \in Counters
    BY DEF VelocityInv, CountersInv, VelocityTypeOK
  <1>2. \A l \in Keys, c \in Counters :
            deadline'[<<l, c>>] = IF \E m \in store' : m[1] = l /\ m[2] = c THEN deadline[<<l, c>>] ELSE 0
    BY DEF DropEmptyKeys
  <1>3. deadline' \in [Keys \X Counters -> Nat]
    BY <1>1 DEF DropEmptyKeys
  <1> QED BY <1>1, <1>2, <1>3, VelocityNumbers

\* Time passes and reads prune: what leaves Redis is in no window any more.
LEMMA ForgettingStep ==
  ASSUME VelocityInv, Tick \/ \E k \in Keys : GetVelocity(k)
  PROVE  VelocityInv'
  <1>1. /\ now \in 0 .. MaxTime /\ deadline \in [Keys \X Counters -> Nat]
        /\ store \subseteq tallied /\ farAhead \in BOOLEAN
        /\ \A m \in store : m[1] \in Keys /\ m[2] \in Counters
        /\ \A m \in tallied : m[1] \in Keys /\ m[2] \in Counters /\ (m[2] \in SortedSets => m[3] \in Events)
    BY DEF VelocityInv, CountersInv, VelocityTypeOK
  <1> DEFINE Drops == /\ DropEmptyKeys /\ store' \subseteq store /\ tallied' = tallied /\ farAhead' = farAhead
                      /\ UNCHANGED <<next, committed, pc, pending, stragglers, markers, faults, crashes, excused>>
                      /\ now' \in 0 .. MaxTime /\ now <= now'
  <1>2. Drops
    <2>1. CASE Tick
      BY <2>1, <1>1, TimesAssumption DEF Tick, tally
    <2>2. ASSUME NEW k \in Keys, GetVelocity(k) PROVE Drops
      BY <2>2, <1>1, TimesAssumption DEF GetVelocity, tally
    <2> QED BY <2>1, <2>2
  <1>3. /\ \A m \in store' : deadline'[<<m[1], m[2]>>] = deadline[<<m[1], m[2]>>]
        /\ deadline' \in [Keys \X Counters -> Nat]
        /\ \A l \in Keys, c \in Counters : deadline'[<<l, c>>] <= now + TtlOf(c)
    BY <1>2, NonEmptyKeysStay
  <1>4. ASSUME ~farAhead', NEW m \in tallied', m[2] \in SortedSets,
               ~OlderThan(WindowOf(m[2]), m[3])'
        PROVE  m \in store'
    <2>1. /\ m \in tallied /\ m[1] \in Keys /\ m[2] \in Counters /\ m[3] \in Events
          /\ EventOf[m[3]].at \in Nat /\ WindowOf(m[2]) \in Nat
      BY <1>1, <1>2, <1>4, VelocityNumbers
    <2>2. EventOf[m[3]].at + WindowOf(m[2]) > now' /\ now \in Nat /\ now' \in Nat
      BY <1>1, <1>2, <1>4, <2>1 DEF OlderThan
    <2>3. ~OlderThan(WindowOf(m[2]), m[3])
      BY <1>2, <2>1, <2>2 DEF OlderThan
    <2>4. m \in store /\ EventOf[m[3]].at + WindowOf(m[2]) <= deadline[<<m[1], m[2]>>]
      BY <1>2, <1>4, <2>1, <2>3 DEF VelocityInv, CountersInv, Retained
    <2>5. CASE Tick
      <3>1. deadline[<<m[1], m[2]>>] > now'
        BY <1>1, <2>1, <2>2, <2>4
      <3> QED BY <2>4, <2>5, <3>1 DEF Tick
    <2>6. ASSUME NEW k \in Keys, GetVelocity(k) PROVE m \in store'
      BY <1>4, <2>3, <2>4, <2>6 DEF GetVelocity, WindowOf, SortedSets
    <2> QED BY <2>5, <2>6
  <1>5. ASSUME ~farAhead', NEW m \in store', m[2] \in SortedSets
        PROVE  EventOf[m[3]].at + WindowOf(m[2]) <= deadline'[<<m[1], m[2]>>]
    BY <1>2, <1>3, <1>5 DEF VelocityInv, CountersInv, Retained
  <1>6. Retained'
    BY <1>4, <1>5 DEF Retained
  <1>7. \A l \in Keys, c \in Counters : deadline'[<<l, c>>] <= now' + TtlOf(c)
    <2> SUFFICES ASSUME NEW l \in Keys, NEW c \in Counters PROVE deadline'[<<l, c>>] <= now' + TtlOf(c)
      OBVIOUS
    <2>1. deadline'[<<l, c>>] \in Nat /\ deadline'[<<l, c>>] <= now + TtlOf(c) /\ TtlOf(c) \in Nat
      BY <1>3, VelocityNumbers
    <2> QED BY <1>1, <1>2, <2>1
  <1> QED BY <1>1, <1>2, <1>3, <1>6, <1>7 DEF VelocityInv, CountersInv, VelocityTypeOK

LEMMA VelocityInvariance == VelocitySpec => []VelocityInv
  <1>1. VelocityInit => VelocityInv
    <2> SUFFICES ASSUME VelocityInit PROVE VelocityInv
      OBVIOUS
    <2>1. deadline = [kc \in Keys \X Counters |-> 0]
      BY DEF VelocityInit
    <2>2. /\ deadline \in [Keys \X Counters -> Nat]
          /\ \A l \in Keys, c \in Counters : deadline[<<l, c>>] <= 0 + TtlOf(c)
      BY <2>1, VelocityNumbers
    <2>3. now = 0 /\ store = {} /\ tallied = {} /\ farAhead \in BOOLEAN
      BY DEF VelocityInit
    <2>4. CountersInv
      BY <2>2, <2>3 DEF CountersInv, Retained
    <2>5. VelocityTypeOK /\ pc = "idle"
      BY <2>2, <2>3, VelocityNumbers, TimesAssumption DEF VelocityInit, VelocityTypeOK
    <2> QED BY <2>4, <2>5 DEF VelocityInv
  <1>2. VelocityInv /\ [VelocityNext]_velocityVars => VelocityInv'
    <2> SUFFICES ASSUME VelocityInv, [VelocityNext]_velocityVars PROVE VelocityInv'
      OBVIOUS
    <2>1. CASE UNCHANGED velocityVars
      <3>1. UNCHANGED <<now, store, deadline, tally>>
        BY <2>1 DEF velocityVars, tally
      <3> QED BY <2>1, <3>1, VelocityUnchanged DEF velocityVars, VelocityInv, CountersInv, VelocityTypeOK
    <2>2. CASE VelocityNext
      BY <2>2, ConsumerStep, PipelineStep, ForgettingStep DEF VelocityNext, Handle
    <2> QED BY <2>1, <2>2
  <1> QED BY <1>1, <1>2, PTL DEF VelocitySpec

\* Every variable of the consumer, the counters and the clock keeps its type,
\* and no key outlives its TTL.
THEOREM VelocityTypeCorrect == VelocitySpec => []VelocityTypeOK
  <1>1. VelocityInv => VelocityTypeOK
    BY DEF VelocityInv
  <1> QED BY <1>1, VelocityInvariance, PTL

\* Pruning and expiry take no event out of a window: the counts and sums that a
\* read answers are those of every event ever counted, for any events, windows
\* within the TTLs, faults and crashes.
THEOREM VelocityReadsAreExact == VelocitySpec => []ReadsAreExact
  <1>1. VelocityInv => ReadsAreExact
    <2> SUFFICES ASSUME VelocityInv, ~farAhead, NEW k \in Keys
                 PROVE  /\ \A f \in {"tx_count_10m", "tx_count_1h", "tx_count_24h",
                                      "amount_sum_1h", "amount_sum_24h"} :
                               VelocitySignals(store, k)[f] = VelocitySignals(tallied, k)[f]
                        /\ BaselineTotal(store, k) = BaselineTotal(tallied, k)
      BY DEF ReadsAreExact
    <2>1. /\ store \subseteq tallied
          /\ \A m \in tallied :
                m[2] \in SortedSets /\ ~OlderThan(WindowOf(m[2]), m[3]) => m \in store
      BY DEF VelocityInv, CountersInv, VelocityTypeOK, Retained
    <2>2. Live(store, k, "tx") = Live(tallied, k, "tx") /\ Live(store, k, "amt") = Live(tallied, k, "amt")
      BY <2>1 DEF Live, Members, WindowOf, SortedSets
    <2>3. {e \in Members(store, k, "baseline") : ~OlderThan(BaselineWindow, e)}
              = {e \in Members(tallied, k, "baseline") : ~OlderThan(BaselineWindow, e)}
      BY <2>1 DEF Members, WindowOf, SortedSets
    <2>4. BaselineTotal(store, k) = BaselineTotal(tallied, k)
      BY <2>3 DEF BaselineTotal
    <2>5. ASSUME NEW f \in {"tx_count_10m", "tx_count_1h", "tx_count_24h", "amount_sum_1h", "amount_sum_24h"}
          PROVE  VelocitySignals(store, k)[f] = VelocitySignals(tallied, k)[f]
      <3>1. /\ VelocitySignals(store, k).tx_count_10m = VelocitySignals(tallied, k).tx_count_10m
            /\ VelocitySignals(store, k).tx_count_1h = VelocitySignals(tallied, k).tx_count_1h
            /\ VelocitySignals(store, k).tx_count_24h = VelocitySignals(tallied, k).tx_count_24h
        BY <2>2 DEF VelocitySignals
      <3>2. /\ VelocitySignals(store, k).amount_sum_1h = VelocitySignals(tallied, k).amount_sum_1h
            /\ VelocitySignals(store, k).amount_sum_24h = VelocitySignals(tallied, k).amount_sum_24h
        BY <2>2 DEF VelocitySignals
      <3> QED BY <3>1, <3>2
    <2> QED BY <2>4, <2>5
  <1> QED BY <1>1, VelocityInvariance, PTL

-----------------------------------------------------------------------------
(* What the consumer leaves behind is counted *)

\* The event is under each of its keys in every counter.
Counted(e) == \A k \in EntityKeys(e) : Additions(k, e) \subseteq tallied

\* Of the message at hand the pipelines that have ended are counted.
AtHandIsCounted ==
    pc = "counting" =>
        \/ Current \in excused
        \/ \A k \in EntityKeys(Current) \ pending : Additions(k, Current) \subseteq tallied

\* Behind the consumer every event is counted, unless a call whose loss no
\* retry can repair was its own.
PassedEventsAreCounted == \A i \in 1 .. next - 1 : Topic[i] \in excused \/ Counted(Topic[i])

\* A marker stands for an event that is counted or at hand: the duplicate that
\* finds it may be skipped.
MarkersAreEarned == \A e \in markers : e \in excused \/ Counted(e) \/ (pc # "idle" /\ e = Current)

PassedInv == AtHandIsCounted /\ PassedEventsAreCounted /\ MarkersAreEarned

\* What was counted or excused stays so.
LEMMA CountedStays ==
  ASSUME tallied \subseteq tallied', excused \subseteq excused', NEW e, e \in excused \/ Counted(e)
  PROVE  e \in excused' \/ Counted(e)'
  BY DEF Counted

LEMMA OneFurther ==
  ASSUME NEW n \in Nat, NEW further \in Nat, further <= n \/ further = n + 1, NEW i \in 1 .. further - 1
  PROVE  i \in 1 .. n - 1 \/ (i = n /\ further = n + 1)
  OBVIOUS

\* The consumer goes on from a message that is counted or excused only, and
\* leaves a marker of no other.
LEMMA PassedStep ==
  ASSUME PassedInv, VelocityInv, VelocityInv', tallied \subseteq tallied', excused \subseteq excused',
         NEW m, m = Current,
         next' <= next \/ (next' = next + 1 /\ (m \in excused' \/ Counted(m)')),
         \A e \in markers' : e \in markers \/ e \in excused' \/ (pc' # "idle" /\ e = Current'),
         pc # "idle" =>
             (pc' # "idle" /\ m = Current') \/ m \in excused' \/ m \notin markers' \/ Counted(m)'
  PROVE  PassedEventsAreCounted' /\ MarkersAreEarned'
  <1>1. next \in Nat /\ next' \in Nat
    BY VelocityNumbers DEF VelocityInv, VelocityTypeOK
  <1>2. ASSUME NEW i, i \in 1 .. next' - 1 PROVE Topic[i] \in excused' \/ Counted(Topic[i])'
    <2>0. next' <= next \/ next' = next + 1
      OBVIOUS
    <2>1. CASE i \in 1 .. next - 1
      BY <2>1, CountedStays DEF PassedInv, PassedEventsAreCounted
    <2>2. CASE i = next /\ next' = next + 1
      <3>1. Topic[i] = m
        BY <2>2 DEF Current
      <3> QED BY <1>1, <2>2, <3>1 DEF Counted
    <2> QED BY <1>1, <1>2, <2>0, <2>1, <2>2, OneFurther
  <1>3. ASSUME NEW e \in markers' PROVE e \in excused' \/ Counted(e)' \/ (pc' # "idle" /\ e = Current')
    <2>1. CASE e \in markers
      <3>1. e \in excused \/ Counted(e) \/ (pc # "idle" /\ e = m)
        BY <2>1 DEF PassedInv, MarkersAreEarned
      <3> QED BY <3>1, CountedStays
    <2>2. CASE e \notin markers
      BY <2>2
    <2> QED BY <2>1, <2>2
  <1>4. PassedEventsAreCounted'
    BY <1>2 DEF PassedEventsAreCounted
  <1> QED BY <1>3, <1>4 DEF MarkersAreEarned

\* Steps that add to no counter.
LEMMA PassedConsumerStep ==
  ASSUME PassedInv, VelocityInv, VelocityInv',
         \/ Skip \/ Mark \/ MarkFails \/ Unmark \/ UnmarkFails \/ CommitOffset \/ Crash
         \/ \E e \in Events : ExpireMarker(e)
         \/ Tick \/ \E k \in Keys : GetVelocity(k)
         \/ UNCHANGED velocityVars
  PROVE  PassedInv'
  <1>1. UNCHANGED tallied /\ excused \subseteq excused'
    BY DEF Skip, Mark, MarkFails, Unmark, UnmarkFails, CommitOffset, Crash, ExpireMarker, Tick,
           GetVelocity, velocityVars, tally
  <1>2. next \in Nat /\ committed <= next /\ pc \in {"idle", "counting", "failed"}
    BY VelocityNumbers DEF VelocityInv, VelocityTypeOK
  <1> SUFFICES ASSUME NEW m, m = Current PROVE PassedInv'
    OBVIOUS
  <1> DEFINE Onwards == next' <= next \/ (next' = next + 1 /\ (m \in excused' \/ Counted(m)'))
             Marked == \A e \in markers' : e \in markers \/ e \in excused' \/ (pc' # "idle" /\ e = Current')
             Left == pc # "idle" => (pc' # "idle" /\ m = Current') \/ m \in excused' \/ m \notin markers'
  <1>3. Onwards /\ Marked /\ Left /\ AtHandIsCounted'
    <2>1. CASE Skip
      <3>1. m \in excused \/ Counted(m)
        BY <2>1 DEF Skip, AtEvent, PassedInv, MarkersAreEarned
      <3>2. m \in excused' \/ Counted(m)'
        BY <3>1, <1>1 DEF Counted
      <3> QED BY <2>1, <3>2 DEF Skip, AtEvent, AtHandIsCounted
    <2>2. CASE Mark
      BY <2>2, <1>2 DEF Mark, AtEvent, AtHandIsCounted, Current
    <2>3. CASE MarkFails
      BY <2>3, <1>2 DEF MarkFails, AtEvent, AtHandIsCounted, Current
    <2>4. CASE Unmark
      BY <2>4, <1>2 DEF Unmark, RemoveMarker, AtHandIsCounted, Current
    <2>5. CASE UnmarkFails
      BY <2>5, <1>2 DEF UnmarkFails, AtHandIsCounted, Current
    <2>6. CASE CommitOffset \/ (\E e \in Events : ExpireMarker(e)) \/ Tick
               \/ (\E k \in Keys : GetVelocity(k)) \/ UNCHANGED velocityVars
      <3>1. UNCHANGED <<next, pc, pending, excused, tallied>> /\ markers' \subseteq markers
        BY <2>6 DEF CommitOffset, ExpireMarker, Tick, GetVelocity, velocityVars, tally
      <3>2. Current' = Current
        BY <3>1 DEF Current
      <3> QED BY <3>1, <3>2, <1>2 DEF AtHandIsCounted, PassedInv
    <2>7. CASE Crash
      BY <2>7, <1>2 DEF Crash, AtHandIsCounted
    <2> QED BY <2>1, <2>2, <2>3, <2>4, <2>5, <2>6, <2>7
  <1> QED BY <1>1, <1>3, PassedStep DEF PassedInv

\* A pipeline ends.
LEMMA PassedPipelineStep ==
  ASSUME PassedInv, VelocityInv, VelocityInv',
         \/ \E k \in pending : Increment(k) \/ IncrementPartly(k) \/ IncrementFails(k)
         \/ \E s \in stragglers : EndStraggler(s)
  PROVE  PassedInv'
  <1> SUFFICES ASSUME NEW m, m = Current PROVE PassedInv'
    OBVIOUS
  <1>1. next \in Nat /\ pc \in {"idle", "counting", "failed"}
    BY VelocityNumbers DEF VelocityInv, VelocityTypeOK
  <1> DEFINE Grown == tallied \subseteq tallied' /\ excused \subseteq excused' /\ UNCHANGED markers
             Onwards == next' <= next \/ (next' = next + 1 /\ (m \in excused' \/ Counted(m)'))
             Left == pc # "idle" => (pc' # "idle" /\ m = Current') \/ m \in excused' \/ Counted(m)'
  <1>2. Grown /\ Onwards /\ Left /\ AtHandIsCounted'
    <2>1. ASSUME NEW k \in pending, Increment(k) PROVE Grown /\ Onwards /\ Left /\ AtHandIsCounted'
      <3>1. /\ pc = "counting" /\ tallied' = tallied \union Additions(k, m) /\ pending' = pending \ {k}
            /\ UNCHANGED <<markers, excused>>
        BY <2>1 DEF Increment, Add, Settle
      <3>2. m \in excused \/ \A l \in EntityKeys(m) \ pending' : Additions(l, m) \subseteq tallied'
        BY <3>1 DEF PassedInv, AtHandIsCounted
      <3>3. CASE pending = {k}
        <4>1. next' = next + 1 /\ pc' = "idle"
          BY <2>1, <3>3 DEF Increment, Settle
        <4>2. m \in excused' \/ Counted(m)'
          BY <3>1, <3>2, <3>3 DEF Counted
        <4> QED BY <3>1, <4>1, <4>2 DEF AtHandIsCounted
      <3>4. CASE pending # {k}
        <4>1. UNCHANGED <<next, pc>>
          BY <2>1, <3>4 DEF Increment, Settle
        <4>2. Current' = m
          BY <4>1 DEF Current
        <4> QED BY <1>1, <3>1, <3>2, <4>1, <4>2 DEF AtHandIsCounted
      <3> QED BY <3>3, <3>4
    <2>2. ASSUME NEW k \in pending, IncrementPartly(k) PROVE Grown /\ Onwards /\ Left /\ AtHandIsCounted'
      <3>1. Grown /\ m \in excused'
        BY <2>2 DEF IncrementPartly, Add
      <3>2. (next' = next + 1 /\ pc' = "idle") \/ UNCHANGED <<next, pc>>
        BY <2>2 DEF IncrementPartly, Settle
      <3>3. UNCHANGED next => Current' = m
        BY DEF Current
      <3> QED BY <1>1, <3>1, <3>2, <3>3 DEF AtHandIsCounted
    <2>3. ASSUME NEW k \in pending, IncrementFails(k) PROVE Grown /\ Onwards /\ Left /\ AtHandIsCounted'
      <3>1. Grown /\ pc' = "failed" /\ UNCHANGED next
        BY <2>3 DEF IncrementFails, Add, tally
      <3>2. Current' = m
        BY <3>1 DEF Current
      <3> QED BY <1>1, <3>1, <3>2 DEF AtHandIsCounted
    <2>4. ASSUME NEW s \in stragglers, EndStraggler(s) PROVE Grown /\ Onwards /\ Left /\ AtHandIsCounted'
      <3>1. Grown /\ UNCHANGED <<next, pc, pending, excused>>
        BY <2>4 DEF EndStraggler, Add
      <3>2. Current' = m
        BY <3>1 DEF Current
      <3> QED BY <1>1, <3>1, <3>2 DEF AtHandIsCounted, PassedInv
    <2> QED BY <2>1, <2>2, <2>3, <2>4
  <1> QED BY <1>2, PassedStep DEF PassedInv

\* The consumer gets past no event that it has not counted under every one of
\* its keys, and a restart begins no later: the safety half of EventsAreCounted,
\* for any topic with its repetitions, failed calls, redeliveries, pipelines
\* that outlive their handler, expired markers and crashes.
THEOREM PassedEventsStayCounted == VelocitySpec => [](PassedEventsAreCounted /\ committed <= next)
  <1>1. VelocityInit => PassedInv
    BY DEF VelocityInit, PassedInv, AtHandIsCounted, PassedEventsAreCounted, MarkersAreEarned
  <1>2. VelocityInv /\ VelocityInv' /\ PassedInv /\ [VelocityNext]_velocityVars => PassedInv'
    BY PassedConsumerStep, PassedPipelineStep DEF VelocityNext, Handle
  <1>3. VelocityInv /\ PassedInv => PassedEventsAreCounted /\ committed <= next
    BY VelocityNumbers DEF VelocityInv, VelocityTypeOK, PassedInv
  <1> QED BY <1>1, <1>2, <1>3, VelocityInvariance, PTL DEF VelocitySpec

-----------------------------------------------------------------------------
(* The devices of device-intel-service *)

Awaits ==
    {"cacheGet", "exact", "fuzzy", "cacheSet", "update", "invalidateGet", "invalidateDel",
     "register", "cacheNew", "idCacheGet", "select", "end"}

\* What the table, Redis or a call under way holds.
Calling == {p \in Procs : ~Idle(p)}
Held ==
    ({rows[f] : f \in Fingerprints} \union {byFp[f] : f \in Fingerprints} \union {byId[i] : i \in DeviceIds}
        \union {call[p].device : p \in Calling} \union {call[p].cached : p \in Calling}) \ {None}

\* A device has an id that was given out, to its fingerprint alone.
Genuine ==
    /\ \A d \in Held : d \in DeviceRecords /\ d.id <= lastId /\ d.first <= d.seen /\ d.seen <= today
    /\ \A d, e \in Held : d.id = e.id => d.fp = e.fp

DeviceShape ==
    /\ rows \in [Fingerprints -> DeviceRecords \union {None}]
    /\ byFp \in [Fingerprints -> DeviceRecords \union {None}]
    /\ byId \in [DeviceIds -> DeviceRecords \union {None}]
    /\ call \in [Procs -> CallRecords \union {None}]
    /\ \A f \in Fingerprints : (rows[f] # None => rows[f].fp = f) /\ (byFp[f] # None => byFp[f].fp = f)
    /\ \A i \in DeviceIds : byId[i] # None => byId[i].id = i

DeviceBounds ==
    /\ lastId \in 0 .. MaxDevices
    /\ offset \in 1 .. Len(DeviceTopic) + 1 /\ (~Idle(Kafka) => offset <= Len(DeviceTopic))
    /\ processed \subseteq {DeviceTopic[i].id : i \in DOMAIN DeviceTopic}
    /\ known \subseteq Fingerprints \X DeviceIds
    /\ today \in Calendar /\ calls \in 0 .. MaxCalls /\ failures \in 0 .. MaxDeviceFaults

\* The row that fuzzyMatch finds for a fingerprint, its own or a similar one.
Near(f, g) == g = f \/ <<f, g>> \in Similar

\* Each step of a call has what the steps before it found.
Ready(c) ==
    /\ c.at \in {"idCacheGet", "select"} => c.op = "get" /\ c.id \in DeviceIds
    /\ c.at \in {"update", "invalidateGet", "invalidateDel", "register", "cacheNew"} => c.op = "identify"
    /\ c.at \in {"cacheSet", "update", "invalidateGet", "invalidateDel", "cacheNew"}
           \/ (c.at = "end" /\ c.op = "identify") => c.device # None
    /\ c.op = "identify" /\ c.device # None => Near(Fingerprint[c.attrs], c.device.fp)

\* A known fingerprint has a row, its own or a similar one, until the purge.
KnownHasRow ==
    \A k \in known : \E g \in Fingerprints : Near(k[1], g) /\ rows[g] # None /\ rows[g].id = k[2]

\* A call that began with its fingerprint known finds that row.
FindsRow(c) ==
    c.op = "identify" /\ c.expected =>
        /\ ~c.new /\ c.at \notin {"register", "cacheNew"}
        /\ c.at \in {"cacheGet", "exact"} =>
              \E g \in Fingerprints : Near(Fingerprint[c.attrs], g) /\ rows[g] # None
        /\ c.at = "fuzzy" => \E g \in Fingerprints : <<Fingerprint[c.attrs], g>> \in Similar /\ rows[g] # None

RecognisedInv == KnownHasRow /\ (\A p \in Calling : Ready(call[p]) /\ FindsRow(call[p])) /\ KnownDeviceIsNotNew

\* What the cache may hold of a device: its row, unless that row is gone.
Fresh(d) == rows[d.fp] \in {d, None} \/ rows[d.fp].id # d.id

\* A call has changed the row of this device and has not yet dropped its keys.
Dropping(d) ==
    \E p \in Calling :
        call[p].at \in {"invalidateGet", "invalidateDel"} /\ call[p].device.id = d.id

Alone == \A p, q \in Calling : p = q

\* What a call alone in the service knows of table and cache.
Knows(c) ==
    /\ c.at \in {"cacheSet", "cacheNew"} => Fresh(c.device)
    /\ c.at \in {"fuzzy", "register"} => rows[Fingerprint[c.attrs]] = None
    /\ c.at = "invalidateDel" => byId[c.device.id] \in {None, c.cached}

QuietInv ==
    ~overlapped /\ failures = 0 =>
        /\ Alone
        /\ \A f \in Fingerprints : byFp[f] # None => byId[byFp[f].id] # None
        /\ \A d \in Cached : Fresh(d) \/ Dropping(d)
        /\ \A p \in Calling : Knows(call[p])

DeviceInv == DeviceShape /\ DeviceBounds /\ Genuine /\ RecognisedInv /\ QuietInv

-----------------------------------------------------------------------------

LEMMA DeviceNumbers ==
  /\ MaxDevices \in Nat /\ MaxCalls \in Nat /\ MaxDeviceFaults \in Nat /\ Calendar \subseteq Nat
  /\ Len(DeviceTopic) \in Nat
  /\ \A i \in 1 .. Len(DeviceTopic) : i \in DOMAIN DeviceTopic /\ DeviceTopic[i].attrs \in Attrs
  /\ \A a \in Attrs : Fingerprint[a] \in Fingerprints
  /\ None \notin DeviceRecords /\ None \notin CallRecords
  <1>1. DOMAIN DeviceTopic = 1 .. Len(DeviceTopic) /\ Len(DeviceTopic) \in Nat
    BY AttrsAssumption
  <1>2. \A a \in Attrs : Fingerprint[a] \in Fingerprints
    BY DEF Fingerprints
  <1> QED BY <1>1, <1>2, DeviceAssumption, AttrsAssumption

\* The calls under way.
LEMMA BusyCalls ==
  ASSUME DeviceInv, NEW p \in Calling
  PROVE  /\ p \in Procs /\ call[p] \in CallRecords /\ ~Idle(p) /\ call[p] # None
         /\ call[p].device \in Held \union {None} /\ call[p].cached \in Held \union {None}
         /\ Ready(call[p]) /\ FindsRow(call[p])
         /\ Fp(p) = Fingerprint[call[p].attrs] /\ Fp(p) \in Fingerprints
  <1>1. p \in Procs /\ ~Idle(p) /\ call[p] # None
    BY DEF Calling, Idle
  <1>2. call[p] \in CallRecords
    BY <1>1 DEF DeviceInv, DeviceShape
  <1>3. call[p].device \in Held \union {None} /\ call[p].cached \in Held \union {None}
    BY DEF Held
  <1>4. call[p].attrs \in Attrs
    BY <1>2 DEF CallRecords
  <1> QED BY <1>1, <1>2, <1>3, <1>4, DeviceNumbers DEF DeviceInv, RecognisedInv, Fp

LEMMA HeldRows ==
  ASSUME DeviceInv
  PROVE  /\ \A f \in Fingerprints : rows[f] # None => rows[f] \in Held
         /\ \A f \in Fingerprints : byFp[f] # None => byFp[f] \in Held
         /\ \A i \in DeviceIds : byId[i] # None => byId[i] \in Held
         /\ Held \subseteq DeviceRecords /\ None \notin Held
         /\ \A d \in Held : d.fp \in Fingerprints /\ d.id \in DeviceIds
  BY DEF Held, DeviceInv, Genuine, DeviceRecords

\* Nothing new is held.
LEMMA GenuineStays ==
  ASSUME DeviceInv, Held' \subseteq Held, lastId' = lastId, today' \in Calendar, today <= today'
  PROVE  Genuine'
  <1>1. \A d \in Held : d \in DeviceRecords /\ d.id <= lastId /\ d.first <= d.seen /\ d.seen <= today
    BY DEF DeviceInv, Genuine
  <1>2. today \in Nat /\ today' \in Nat
    BY DeviceNumbers DEF DeviceInv, DeviceBounds
  <1>3. \A d \in Held : d.seen \in Nat
    BY <1>1 DEF DeviceRecords
  <1>4. \A d \in Held : d.seen <= today'
    BY <1>1, <1>2, <1>3
  <1> QED BY <1>1, <1>4 DEF DeviceInv, Genuine

\* A call moves on, and the others stay where they are.
LEMMA CallMoves ==
  ASSUME DeviceInv, NEW p \in Calling, NEW c \in CallRecords, call' = [call EXCEPT ![p] = c]
  PROVE  /\ Calling' = Calling /\ call' \in [Procs -> CallRecords \union {None}]
         /\ call'[p] = c /\ \A q \in Procs : q # p => call'[q] = call[q]
         /\ \A q \in Procs : Idle(q)' <=> Idle(q)
  <1>1. call \in [Procs -> CallRecords \union {None}] /\ p \in Procs /\ call[p] # None
    BY DEF DeviceInv, DeviceShape, Calling, Idle
  <1>2. call'[p] = c /\ \A q \in Procs : q # p => call'[q] = call[q]
    BY <1>1
  <1>3. \A q \in Procs : Idle(q)' <=> Idle(q)
    BY <1>1, <1>2, DeviceNumbers DEF Idle
  <1> QED BY <1>1, <1>2, <1>3 DEF Calling

LEMMA MoveKeeps ==
  ASSUME DeviceInv, NEW p \in Calling, NEW c \in CallRecords, call' = [call EXCEPT ![p] = c],
         UNCHANGED <<table, redis, outer>>, failures' \in 0 .. MaxDeviceFaults,
         c.device \in Held \union {None}, c.cached \in Held \union {None}, Ready(c), FindsRow(c)
  PROVE  DeviceShape' /\ DeviceBounds' /\ Genuine' /\ RecognisedInv'
  <1>1. /\ Calling' = Calling /\ call' \in [Procs -> CallRecords \union {None}]
        /\ call'[p] = c /\ (\A q \in Procs : q # p => call'[q] = call[q])
        /\ (\A q \in Procs : Idle(q)' <=> Idle(q))
    BY CallMoves
  <1>2. /\ UNCHANGED <<rows, lastId, byFp, byId>>
        /\ UNCHANGED <<answers, offset, processed, today, known, overlapped, calls>>
    BY DEF table, redis, outer
  <1>3. DeviceShape' /\ DeviceBounds'
    BY <1>1, <1>2 DEF DeviceInv, DeviceShape, DeviceBounds, Procs
  <1>4. Held' \subseteq Held
    BY <1>1, <1>2 DEF Held, Calling
  <1>5. Genuine'
    BY <1>2, <1>4, GenuineStays, DeviceNumbers DEF DeviceInv, DeviceBounds
  <1>6. RecognisedInv'
    <2>1. KnownHasRow' /\ KnownDeviceIsNotNew'
      BY <1>2 DEF DeviceInv, RecognisedInv, KnownHasRow, KnownDeviceIsNotNew
    <2>2. ASSUME NEW q \in Calling' PROVE Ready(call[q])' /\ FindsRow(call[q])'
      <3>1. Ready(call'[q]) /\ FindsRow(call'[q])
        BY <1>1, <2>2, BusyCalls DEF Calling
      <3> QED BY <1>2, <3>1 DEF Ready, FindsRow
    <2> QED BY <2>1, <2>2 DEF RecognisedInv
  <1> QED BY <1>3, <1>5, <1>6

LEMMA MoveStep ==
  ASSUME DeviceInv, NEW p \in Calling, NEW c \in CallRecords, call' = [call EXCEPT ![p] = c],
         UNCHANGED <<table, redis, outer, failures>>,
         c.device \in Held \union {None}, c.cached \in Held \union {None},
         Ready(c), FindsRow(c), QuietInv /\ ~overlapped /\ failures = 0 => Knows(c),
         call[p].at \in {"invalidateGet", "invalidateDel"} =>
             c.at \in {"invalidateGet", "invalidateDel"} /\ c.device = call[p].device
  PROVE  DeviceInv'
  <1>1. /\ Calling' = Calling /\ call'[p] = c /\ (\A q \in Procs : q # p => call'[q] = call[q])
    BY CallMoves
  <1>2. UNCHANGED <<rows, byFp, byId, overlapped, failures>>
    BY DEF table, redis, outer
  <1>3. DeviceShape' /\ DeviceBounds' /\ Genuine' /\ RecognisedInv'
    BY <1>2, MoveKeeps DEF DeviceInv, DeviceBounds
  <1>4. QuietInv'
    <2> SUFFICES ASSUME ~overlapped, failures = 0
                 PROVE  /\ Alone'
                        /\ \A f \in Fingerprints : byFp[f] # None => byId[byFp[f].id] # None
                        /\ \A d \in Cached : Fresh(d) \/ Dropping(d)'
                        /\ \A q \in Calling : Knows(call'[q])
      BY <1>1, <1>2 DEF QuietInv, Cached, Fresh, Knows
    <2>1. /\ Alone /\ \A d \in Cached : Fresh(d) \/ Dropping(d)
          /\ \A f \in Fingerprints : byFp[f] # None => byId[byFp[f].id] # None
          /\ \A q \in Calling : q = p
      BY DEF DeviceInv, QuietInv, Alone
    <2>2. Knows(c)
      BY DEF DeviceInv
    <2>3. ASSUME NEW d \in Cached, Dropping(d) PROVE Dropping(d)'
      BY <1>1, <2>1, <2>3 DEF Dropping
    <2>4. Alone'
      BY <1>1, <2>1 DEF Alone
    <2> QED BY <1>1, <2>1, <2>2, <2>3, <2>4
  <1> QED BY <1>3, <1>4 DEF DeviceInv

\* The next await of a call, with a device or with what it had.
LEMMA GotoGoes ==
  ASSUME DeviceInv, NEW p \in Calling, NEW step \in Awaits, Goto(p, step)
  PROVE  \E c \in CallRecords :
            /\ call' = [call EXCEPT ![p] = c] /\ c.at = step /\ c.device = call[p].device
            /\ c.cached = call[p].cached /\ c.new = call[p].new /\ c.op = call[p].op
            /\ c.attrs = call[p].attrs /\ c.id = call[p].id /\ c.expected = call[p].expected
  <1>1. call[p] \in CallRecords
    BY BusyCalls
  <1> DEFINE n == [call[p] EXCEPT !.at = step]
  <1>2. n \in CallRecords /\ n.at = step /\ n.device = call[p].device
        /\ n.cached = call[p].cached /\ n.new = call[p].new /\ n.op = call[p].op
        /\ n.attrs = call[p].attrs /\ n.id = call[p].id /\ n.expected = call[p].expected
    BY <1>1 DEF CallRecords, Awaits
  <1>3. call' = [call EXCEPT ![p] = n]
    BY DEF Goto
  <1> QED BY <1>2, <1>3

LEMMA GotoWithGoes ==
  ASSUME DeviceInv, NEW p \in Calling, NEW step \in Awaits, NEW d \in DeviceRecords \union {None},
         GotoWith(p, step, d)
  PROVE  \E c \in CallRecords :
            /\ call' = [call EXCEPT ![p] = c] /\ c.at = step /\ c.device = d
            /\ c.cached = call[p].cached /\ c.new = call[p].new /\ c.op = call[p].op
            /\ c.attrs = call[p].attrs /\ c.id = call[p].id /\ c.expected = call[p].expected
  <1>1. call[p] \in CallRecords
    BY BusyCalls
  <1> DEFINE n == [call[p] EXCEPT !.at = step, !.device = d]
  <1>2. n \in CallRecords /\ n.at = step /\ n.device = d
        /\ n.cached = call[p].cached /\ n.new = call[p].new /\ n.op = call[p].op
        /\ n.attrs = call[p].attrs /\ n.id = call[p].id /\ n.expected = call[p].expected
    BY <1>1 DEF CallRecords, Awaits
  <1>3. call' = [call EXCEPT ![p] = n]
    BY DEF GotoWith
  <1> QED BY <1>2, <1>3

\* What AfterMatch does with a device, or with none.
LEMMA AfterMatchGoes ==
  ASSUME DeviceInv, NEW p \in Calling, NEW d \in DeviceRecords \union {None}, AfterMatch(p, d)
  PROVE  \E c \in CallRecords :
            /\ call' = [call EXCEPT ![p] = c] /\ c.device = d
            /\ c.at = (IF call[p].op # "identify" THEN "end" ELSE IF d = None THEN "register" ELSE "update")
            /\ c.cached = call[p].cached /\ c.new = call[p].new /\ c.op = call[p].op
            /\ c.attrs = call[p].attrs /\ c.id = call[p].id /\ c.expected = call[p].expected
  <1>1. CASE call[p].op # "identify"
    BY <1>1, GotoWithGoes DEF AfterMatch, Awaits
  <1>2. CASE call[p].op = "identify" /\ d = None
    BY <1>2, GotoWithGoes DEF AfterMatch, Awaits
  <1>3. CASE call[p].op = "identify" /\ d # None
    BY <1>3, GotoWithGoes DEF AfterMatch, Awaits
  <1> QED BY <1>1, <1>2, <1>3

\* The steps that only read.
LEMMA LookStep ==
  ASSUME DeviceInv, NEW p \in Calling,
         \/ CacheGet(p) \/ FindExact(p) \/ FindSimilar(p) \/ InvalidateGet(p) \/ IdCacheGet(p) \/ Select(p)
  PROVE  DeviceInv'
  <1>1. UNCHANGED <<table, redis, outer, failures>>
    BY DEF CacheGet, FindExact, FindSimilar, InvalidateGet, IdCacheGet, Select
  <1>2. /\ p \in Procs /\ call[p] \in CallRecords /\ Ready(call[p]) /\ FindsRow(call[p])
        /\ call[p].device \in Held \union {None} /\ call[p].cached \in Held \union {None}
        /\ Fp(p) = Fingerprint[call[p].attrs] /\ Fp(p) \in Fingerprints
    BY BusyCalls
  <1>3. /\ \A f \in Fingerprints : rows[f] # None => rows[f] \in Held /\ rows[f].fp = f
        /\ \A f \in Fingerprints : byFp[f] # None => byFp[f] \in Held /\ byFp[f].fp = f
        /\ \A i \in DeviceIds : byId[i] # None => byId[i] \in Held
        /\ Held \subseteq DeviceRecords /\ None \notin Held
        /\ \A d \in Held : d.fp \in Fingerprints /\ d.id \in DeviceIds
    BY HeldRows DEF DeviceInv, DeviceShape
  <1>4. CASE CacheGet(p)
    <2>1. call[p].at = "cacheGet"
      BY <1>4 DEF CacheGet, At
    <2>2. CASE byFp[Fp(p)] # None
      <3>1. byFp[Fp(p)] \in Held /\ byFp[Fp(p)].fp = Fp(p) /\ AfterMatch(p, byFp[Fp(p)])
        BY <1>2, <1>3, <1>4, <2>2 DEF CacheGet
      <3>2. PICK c \in CallRecords :
            /\ call' = [call EXCEPT ![p] = c] /\ c.device = byFp[Fp(p)]
            /\ c.at = (IF call[p].op # "identify" THEN "end" ELSE "update")
            /\ c.cached = call[p].cached /\ c.new = call[p].new /\ c.op = call[p].op
            /\ c.attrs = call[p].attrs /\ c.id = call[p].id /\ c.expected = call[p].expected
        BY <1>3, <2>2, <3>1, AfterMatchGoes
      <3>3. Ready(c) /\ FindsRow(c) /\ Knows(c)
        BY <1>2, <2>1, <2>2, <3>1, <3>2 DEF Ready, FindsRow, Knows, Near
      <3> QED BY <1>1, <1>2, <2>1, <3>1, <3>2, <3>3, MoveStep
    <2>3. CASE byFp[Fp(p)] = None
      <3>1. PICK c \in CallRecords :
            /\ call' = [call EXCEPT ![p] = c] /\ c.at = "exact" /\ c.device = call[p].device
            /\ c.cached = call[p].cached /\ c.new = call[p].new /\ c.op = call[p].op
            /\ c.attrs = call[p].attrs /\ c.id = call[p].id /\ c.expected = call[p].expected
        BY <1>4, <2>3, GotoGoes DEF CacheGet, Awaits
      <3>2. Ready(c) /\ FindsRow(c) /\ Knows(c)
        BY <1>2, <2>1, <3>1 DEF Ready, FindsRow, Knows, Near
      <3> QED BY <1>1, <1>2, <2>1, <3>1, <3>2, MoveStep
    <2> QED BY <2>2, <2>3
  <1>5. CASE FindExact(p)
    <2>1. call[p].at = "exact"
      BY <1>5 DEF FindExact, At
    <2>2. CASE rows[Fp(p)] # None
      <3>1. rows[Fp(p)] \in Held /\ rows[Fp(p)].fp = Fp(p) /\ GotoWith(p, "cacheSet", rows[Fp(p)])
        BY <1>2, <1>3, <1>5, <2>2 DEF FindExact
      <3>2. PICK c \in CallRecords :
            /\ call' = [call EXCEPT ![p] = c] /\ c.at = "cacheSet" /\ c.device = rows[Fp(p)]
            /\ c.cached = call[p].cached /\ c.new = call[p].new /\ c.op = call[p].op
            /\ c.attrs = call[p].attrs /\ c.id = call[p].id /\ c.expected = call[p].expected
        BY <1>3, <3>1, GotoWithGoes DEF Awaits
      <3>3. Ready(c) /\ FindsRow(c) /\ Knows(c)
        BY <1>2, <2>1, <2>2, <3>1, <3>2 DEF Ready, FindsRow, Knows, Near, Fresh
      <3> QED BY <1>1, <1>2, <2>1, <3>1, <3>2, <3>3, MoveStep
    <2>3. CASE rows[Fp(p)] = None
      <3>1. PICK c \in CallRecords :
            /\ call' = [call EXCEPT ![p] = c] /\ c.at = "fuzzy" /\ c.device = call[p].device
            /\ c.cached = call[p].cached /\ c.new = call[p].new /\ c.op = call[p].op
            /\ c.attrs = call[p].attrs /\ c.id = call[p].id /\ c.expected = call[p].expected
        BY <1>5, <2>3, GotoGoes DEF FindExact, Awaits
      <3>2. Ready(c) /\ FindsRow(c) /\ Knows(c)
        BY <1>2, <2>1, <2>3, <3>1 DEF Ready, FindsRow, Knows, Near
      <3> QED BY <1>1, <1>2, <2>1, <3>1, <3>2, MoveStep
    <2> QED BY <2>2, <2>3
  <1>6. CASE FindSimilar(p)
    <2>1. call[p].at = "fuzzy"
      BY <1>6 DEF FindSimilar, At
    <2>2. CASE Candidates(p) = {} /\ AfterMatch(p, None)
      <3>1. PICK c \in CallRecords :
            /\ call' = [call EXCEPT ![p] = c] /\ c.device = None
            /\ c.at = (IF call[p].op # "identify" THEN "end" ELSE "register")
            /\ c.cached = call[p].cached /\ c.new = call[p].new /\ c.op = call[p].op
            /\ c.attrs = call[p].attrs /\ c.id = call[p].id /\ c.expected = call[p].expected
        BY <2>2, AfterMatchGoes
      <3>2. ~(call[p].op = "identify" /\ call[p].expected)
        BY <1>2, <2>1, <2>2 DEF FindsRow, Candidates
      <3>3. QuietInv /\ ~overlapped /\ failures = 0 => rows[Fingerprint[call[p].attrs]] = None
        BY <2>1 DEF QuietInv, Knows
      <3>4. Ready(c) /\ FindsRow(c) /\ (QuietInv /\ ~overlapped /\ failures = 0 => Knows(c))
        BY <1>2, <3>1, <3>2, <3>3 DEF Ready, FindsRow, Knows
      <3> QED BY <1>1, <1>2, <2>1, <3>1, <3>4, MoveStep
    <2>3. ASSUME NEW f \in Candidates(p), GotoWith(p, "cacheSet", rows[f]) PROVE DeviceInv'
      <3>1. f \in Fingerprints /\ <<Fp(p), f>> \in Similar /\ rows[f] # None /\ rows[f] \in Held /\ rows[f].fp = f
        BY <1>3, <2>3 DEF Candidates
      <3>2. PICK c \in CallRecords :
            /\ call' = [call EXCEPT ![p] = c] /\ c.at = "cacheSet" /\ c.device = rows[f]
            /\ c.cached = call[p].cached /\ c.new = call[p].new /\ c.op = call[p].op
            /\ c.attrs = call[p].attrs /\ c.id = call[p].id /\ c.expected = call[p].expected
        BY <1>3, <2>3, <3>1, GotoWithGoes DEF Awaits
      <3>3. Ready(c) /\ FindsRow(c) /\ Knows(c)
        BY <1>2, <2>1, <3>1, <3>2 DEF Ready, FindsRow, Knows, Near, Fresh
      <3> QED BY <1>1, <1>2, <2>1, <3>1, <3>2, <3>3, MoveStep
    <2> QED BY <1>6, <2>2, <2>3 DEF FindSimilar
  <1>7. CASE InvalidateGet(p)
    <2>1. call[p].at = "invalidateGet" /\ call[p].device # None /\ call[p].device \in Held
      BY <1>2, <1>7 DEF InvalidateGet, At, Ready
    <2> DEFINE e == byId[call[p].device.id]
    <2>2. e \in Held \union {None}
      BY <1>3, <2>1
    <2> DEFINE n == [call[p] EXCEPT !.at = "invalidateDel", !.cached = e]
    <2>3. /\ n \in CallRecords /\ n.at = "invalidateDel" /\ n.device = call[p].device /\ n.cached = e
          /\ n.new = call[p].new /\ n.op = call[p].op
          /\ n.attrs = call[p].attrs /\ n.id = call[p].id /\ n.expected = call[p].expected
      <3>1. e \in DeviceRecords \union {None}
        BY <1>3, <2>2
      <3> HIDE DEF e
      <3> QED BY <1>2, <3>1 DEF CallRecords
    <2>5. call' = [call EXCEPT ![p] = n]
      BY <1>7 DEF InvalidateGet
    <2>6. Ready(n) /\ FindsRow(n) /\ Knows(n)
      BY <1>2, <2>1, <2>3 DEF Ready, FindsRow, Knows
    <2> HIDE DEF n
    <2> QED BY <1>1, <1>2, <2>1, <2>2, <2>3, <2>5, <2>6, MoveStep
  <1>8. CASE IdCacheGet(p)
    <2>1. call[p].at = "idCacheGet" /\ call[p].op = "get" /\ call[p].id \in DeviceIds
      BY <1>2, <1>8 DEF IdCacheGet, At, Ready
    <2>2. CASE byId[call[p].id] # None
      <3>1. byId[call[p].id] \in Held /\ GotoWith(p, "end", byId[call[p].id])
        BY <1>3, <1>8, <2>1, <2>2 DEF IdCacheGet
      <3>2. PICK c \in CallRecords :
            /\ call' = [call EXCEPT ![p] = c] /\ c.at = "end" /\ c.device = byId[call[p].id]
            /\ c.cached = call[p].cached /\ c.new = call[p].new /\ c.op = call[p].op
            /\ c.attrs = call[p].attrs /\ c.id = call[p].id /\ c.expected = call[p].expected
        BY <1>3, <3>1, GotoWithGoes DEF Awaits
      <3>3. Ready(c) /\ FindsRow(c) /\ Knows(c)
        BY <2>1, <3>2 DEF Ready, FindsRow, Knows
      <3> QED BY <1>1, <1>2, <2>1, <3>1, <3>2, <3>3, MoveStep
    <2>3. CASE byId[call[p].id] = None
      <3>1. PICK c \in CallRecords :
            /\ call' = [call EXCEPT ![p] = c] /\ c.at = "select" /\ c.device = call[p].device
            /\ c.cached = call[p].cached /\ c.new = call[p].new /\ c.op = call[p].op
            /\ c.attrs = call[p].attrs /\ c.id = call[p].id /\ c.expected = call[p].expected
        BY <1>8, <2>3, GotoGoes DEF IdCacheGet, Awaits
      <3>2. Ready(c) /\ FindsRow(c) /\ Knows(c)
        BY <2>1, <3>1 DEF Ready, FindsRow, Knows
      <3> QED BY <1>1, <1>2, <2>1, <3>1, <3>2, MoveStep
    <2> QED BY <2>2, <2>3
  <1>9. CASE Select(p)
    <2>1. call[p].at = "select" /\ call[p].op = "get"
      BY <1>2, <1>9 DEF Select, At, Ready
    <2>2. CASE Goto(p, "end")
      <3>1. PICK c \in CallRecords :
            /\ call' = [call EXCEPT ![p] = c] /\ c.at = "end" /\ c.device = call[p].device
            /\ c.cached = call[p].cached /\ c.new = call[p].new /\ c.op = call[p].op
            /\ c.attrs = call[p].attrs /\ c.id = call[p].id /\ c.expected = call[p].expected
        BY <2>2, GotoGoes DEF Awaits
      <3>2. Ready(c) /\ FindsRow(c) /\ Knows(c)
        BY <2>1, <3>1 DEF Ready, FindsRow, Knows
      <3> QED BY <1>1, <1>2, <2>1, <3>1, <3>2, MoveStep
    <2>3. ASSUME NEW f \in Fingerprints, rows[f] # None, GotoWith(p, "cacheSet", rows[f]) PROVE DeviceInv'
      <3>1. rows[f] \in Held /\ rows[f].fp = f
        BY <1>3, <2>3
      <3>2. PICK c \in CallRecords :
            /\ call' = [call EXCEPT ![p] = c] /\ c.at = "cacheSet" /\ c.device = rows[f]
            /\ c.cached = call[p].cached /\ c.new = call[p].new /\ c.op = call[p].op
            /\ c.attrs = call[p].attrs /\ c.id = call[p].id /\ c.expected = call[p].expected
        BY <1>3, <2>3, <3>1, GotoWithGoes DEF Awaits
      <3>3. Ready(c) /\ FindsRow(c) /\ Knows(c)
        BY <2>1, <2>3, <3>1, <3>2 DEF Ready, FindsRow, Knows, Fresh
      <3> QED BY <1>1, <1>2, <2>1, <3>1, <3>2, <3>3, MoveStep
    <2> QED BY <1>9, <2>2, <2>3 DEF Select
  <1> QED BY <1>4, <1>5, <1>6, <1>7, <1>8, <1>9

\* A call writes to Redis.
LEMMA RedisStep ==
  ASSUME DeviceInv, NEW p \in Calling, NEW c \in CallRecords, call' = [call EXCEPT ![p] = c],
         UNCHANGED <<table, outer, failures>>,
         byFp' \in [Fingerprints -> Held \union {None}], byId' \in [DeviceIds -> Held \union {None}],
         \A f \in Fingerprints : byFp'[f] # None => byFp'[f].fp = f,
         \A i \in DeviceIds : byId'[i] # None => byId'[i].id = i,
         c.device \in Held \union {None}, c.cached \in Held \union {None},
         Ready(c), FindsRow(c), c.at \in {"end", "update"},
         ~overlapped /\ failures = 0 =>
             /\ \A f \in Fingerprints : byFp'[f] # None => byId'[byFp'[f].id] # None
             /\ \A d \in Cached' : Fresh(d)
  PROVE  DeviceInv'
  <1>1. /\ Calling' = Calling /\ call' \in [Procs -> CallRecords \union {None}]
        /\ call'[p] = c /\ (\A q \in Procs : q # p => call'[q] = call[q])
        /\ (\A q \in Procs : Idle(q)' <=> Idle(q))
    BY CallMoves
  <1>2. /\ UNCHANGED <<rows, lastId>>
        /\ UNCHANGED <<answers, offset, processed, today, known, overlapped, calls, failures>>
    BY DEF table, outer
  <1>3. Held \subseteq DeviceRecords
    BY HeldRows
  <1>4. /\ byFp' \in [Fingerprints -> DeviceRecords \union {None}]
        /\ byId' \in [DeviceIds -> DeviceRecords \union {None}]
    BY <1>3
  <1>5. DeviceShape' /\ DeviceBounds'
    BY <1>1, <1>2, <1>4 DEF DeviceInv, DeviceShape, DeviceBounds, Procs
  <1>6. Held' \subseteq Held
    BY <1>1, <1>2 DEF Held, Calling
  <1>7. Genuine'
    BY <1>2, <1>6, GenuineStays, DeviceNumbers DEF DeviceInv, DeviceBounds
  <1>8. RecognisedInv'
    <2>1. KnownHasRow' /\ KnownDeviceIsNotNew'
      BY <1>2 DEF DeviceInv, RecognisedInv, KnownHasRow, KnownDeviceIsNotNew
    <2>2. ASSUME NEW q \in Calling' PROVE Ready(call[q])' /\ FindsRow(call[q])'
      <3>1. Ready(call'[q]) /\ FindsRow(call'[q])
        BY <1>1, <2>2, BusyCalls DEF Calling
      <3> QED BY <1>2, <3>1 DEF Ready, FindsRow
    <2> QED BY <2>1, <2>2 DEF RecognisedInv
  <1>9. QuietInv'
    <2> SUFFICES ASSUME ~overlapped', failures' = 0
                 PROVE  /\ Alone'
                        /\ \A f \in Fingerprints : byFp'[f] # None => byId'[byFp'[f].id] # None
                        /\ (\A d \in Cached : Fresh(d))' /\ (\A q \in Calling : Knows(call[q]))'
      BY DEF QuietInv
    <2>0. ~overlapped /\ failures = 0
      BY <1>2
    <2>1. Alone /\ \A q \in Calling : q = p
      BY <2>0 DEF DeviceInv, QuietInv, Alone
    <2>2. Alone'
      BY <1>1, <2>1 DEF Alone
    <2>3. (\A q \in Calling : Knows(call[q]))'
      BY <1>1, <2>1 DEF Knows
    <2>4. (\A d \in Cached : Fresh(d))'
      BY <1>2, <2>0 DEF Fresh
    <2> QED BY <2>0, <2>2, <2>3, <2>4
  <1> QED BY <1>5, <1>7, <1>8, <1>9 DEF DeviceInv

\* set(): both keys of a device.
LEMMA SetStep ==
  ASSUME DeviceInv, NEW p \in Calling, CacheSet(p) \/ CacheNew(p)
  PROVE  DeviceInv'
  <1> DEFINE d == call[p].device
  <1>1. /\ p \in Procs /\ call[p] \in CallRecords /\ Ready(call[p]) /\ FindsRow(call[p])
        /\ d \in Held \union {None} /\ call[p].cached \in Held \union {None}
    BY BusyCalls
  <1>2. call[p].at \in {"cacheSet", "cacheNew"} /\ SetBoth(d) /\ UNCHANGED <<table, outer, failures>>
    BY DEF CacheSet, CacheNew, At
  <1>3. d # None /\ d \in Held
    BY <1>1, <1>2 DEF Ready
  <1>4. /\ d \in DeviceRecords /\ d.fp \in Fingerprints /\ d.id \in DeviceIds
        /\ Held \subseteq DeviceRecords
        /\ byFp \in [Fingerprints -> Held \union {None}] /\ byId \in [DeviceIds -> Held \union {None}]
    BY <1>3, HeldRows DEF DeviceInv, DeviceShape
  <1>5. /\ byFp' = [byFp EXCEPT ![d.fp] = d] /\ byId' = [byId EXCEPT ![d.id] = d]
        /\ byFp' \in [Fingerprints -> Held \union {None}] /\ byId' \in [DeviceIds -> Held \union {None}]
        /\ \A f \in Fingerprints : byFp'[f] = IF f = d.fp THEN d ELSE byFp[f]
        /\ \A i \in DeviceIds : byId'[i] = IF i = d.id THEN d ELSE byId[i]
    <2> HIDE DEF d
    <2> QED BY <1>2, <1>3, <1>4 DEF SetBoth
  <1>6. /\ \A f \in Fingerprints : byFp'[f] # None => byFp'[f].fp = f
        /\ \A i \in DeviceIds : byId'[i] # None => byId'[i].id = i
    BY <1>5 DEF DeviceInv, DeviceShape
  <1>7. PICK c \in CallRecords :
            /\ call' = [call EXCEPT ![p] = c] /\ c.device = d /\ c.at \in {"end", "update"}
            /\ (c.at = "update" => c.op = "identify")
            /\ c.cached = call[p].cached /\ c.new = call[p].new /\ c.op = call[p].op
            /\ c.attrs = call[p].attrs /\ c.id = call[p].id /\ c.expected = call[p].expected
    <2>1. CASE CacheSet(p)
      BY <1>3, <1>4, <2>1, AfterMatchGoes DEF CacheSet
    <2>2. CASE CacheNew(p)
      BY <2>2, GotoGoes DEF CacheNew, Awaits
    <2> QED BY <2>1, <2>2
  <1>8. Ready(c) /\ FindsRow(c)
    BY <1>1, <1>2, <1>3, <1>7 DEF Ready, FindsRow
  <1>9. ASSUME ~overlapped, failures = 0
        PROVE  /\ \A f \in Fingerprints : byFp'[f] # None => byId'[byFp'[f].id] # None
               /\ \A e \in Cached' : Fresh(e)
    <2>1. /\ \A q \in Calling : q = p
          /\ \A f \in Fingerprints : byFp[f] # None => byId[byFp[f].id] # None
          /\ \A e \in Cached : Fresh(e) \/ Dropping(e)
          /\ Knows(call[p])
      BY <1>9 DEF DeviceInv, QuietInv, Alone
    <2>2. \A e \in Cached : Fresh(e)
      BY <1>2, <2>1 DEF Dropping
    <2>3. Fresh(d)
      BY <1>2, <2>1 DEF Knows
    <2>4. Cached' \subseteq Cached \union {d}
      BY <1>5 DEF Cached
    <2>5. ASSUME NEW f \in Fingerprints, byFp'[f] # None PROVE byId'[byFp'[f].id] # None
      <3>1. CASE f = d.fp
        BY <1>3, <1>4, <1>5, <3>1
      <3>2. CASE f # d.fp
        <4>1. byFp'[f] = byFp[f] /\ byFp[f] \in Held /\ byFp[f].id \in DeviceIds
          BY <1>5, <2>5, <3>2, HeldRows
        <4> QED BY <1>3, <1>5, <2>1, <2>5, <4>1
      <3> QED BY <3>1, <3>2
    <2> QED BY <2>2, <2>3, <2>4, <2>5
  <1> HIDE DEF d
  <1> QED BY <1>1, <1>2, <1>3, <1>5, <1>6, <1>7, <1>8, <1>9, RedisStep

\* invalidate(): the key of the id and the one of the fingerprint it was read with.
LEMMA DropStep ==
  ASSUME DeviceInv, NEW p \in Calling, InvalidateDel(p)
  PROVE  DeviceInv'
  <1> DEFINE d == call[p].device
             k == call[p].cached
  <1>1. /\ p \in Procs /\ call[p] \in CallRecords /\ Ready(call[p]) /\ FindsRow(call[p])
        /\ d \in Held \union {None} /\ k \in Held \union {None}
    BY BusyCalls
  <1>2. /\ call[p].at = "invalidateDel" /\ UNCHANGED <<table, outer, failures>>
        /\ byId' = [byId EXCEPT ![d.id] = None] /\ DropFingerprint(k) /\ Goto(p, "end")
    BY DEF InvalidateDel, At
  <1>3. d # None /\ d \in Held
    BY <1>1, <1>2 DEF Ready
  <1>4. /\ d.id \in DeviceIds /\ (k # None => k.fp \in Fingerprints)
        /\ byFp \in [Fingerprints -> Held \union {None}] /\ byId \in [DeviceIds -> Held \union {None}]
    BY <1>1, <1>3, HeldRows DEF DeviceInv, DeviceShape
  <1>5. /\ byFp' \in [Fingerprints -> Held \union {None}] /\ byId' \in [DeviceIds -> Held \union {None}]
        /\ \A f \in Fingerprints : byFp'[f] = IF k # None /\ f = k.fp THEN None ELSE byFp[f]
        /\ \A i \in DeviceIds : byId'[i] = IF i = d.id THEN None ELSE byId[i]
    <2> HIDE DEF d, k
    <2> QED BY <1>2, <1>3, <1>4 DEF DropFingerprint
  <1>6. /\ \A f \in Fingerprints : byFp'[f] # None => byFp'[f].fp = f
        /\ \A i \in DeviceIds : byId'[i] # None => byId'[i].id = i
    BY <1>5 DEF DeviceInv, DeviceShape
  <1>7. PICK c \in CallRecords :
            /\ call' = [call EXCEPT ![p] = c] /\ c.device = d /\ c.at = "end"
            /\ c.cached = k /\ c.new = call[p].new /\ c.op = call[p].op
            /\ c.attrs = call[p].attrs /\ c.id = call[p].id /\ c.expected = call[p].expected
    BY <1>2, GotoGoes DEF Awaits
  <1>8. Ready(c) /\ FindsRow(c)
    BY <1>1, <1>2, <1>3, <1>7 DEF Ready, FindsRow
  <1>9. ASSUME ~overlapped, failures = 0
        PROVE  /\ \A f \in Fingerprints : byFp'[f] # None => byId'[byFp'[f].id] # None
               /\ \A e \in Cached' : Fresh(e)
    <2>1. /\ \A q \in Calling : q = p
          /\ \A f \in Fingerprints : byFp[f] # None => byId[byFp[f].id] # None
          /\ \A e \in Cached : Fresh(e) \/ Dropping(e)
          /\ byId[d.id] \in {None, k}
      BY <1>2, <1>9 DEF DeviceInv, QuietInv, Alone, Knows
    <2>2. ASSUME NEW f \in Fingerprints, byFp'[f] # None
          PROVE  byFp'[f] = byFp[f] /\ byFp[f] # None /\ byFp[f].id # d.id /\ byFp[f].id \in DeviceIds
      <3>1. byFp'[f] = byFp[f] /\ byFp[f] # None /\ byFp[f] \in Held /\ byFp[f].fp = f /\ byFp[f].id \in DeviceIds
        BY <1>5, <1>6, <2>2, HeldRows
      <3>2. ASSUME byFp[f].id = d.id PROVE FALSE
        <4>1. byId[d.id] = k /\ k # None /\ k.id = d.id /\ k \in Held
          BY <1>1, <1>4, <2>1, <3>1, <3>2 DEF DeviceInv, DeviceShape
        <4>2. k.fp = f
          BY <3>1, <3>2, <4>1 DEF DeviceInv, Genuine
        <4> QED BY <1>5, <2>2, <4>1, <4>2
      <3> QED BY <3>1, <3>2
    <2>3. ASSUME NEW e \in Cached' PROVE e \in Cached /\ e.id # d.id
      <3>1. CASE \E f \in Fingerprints : e = byFp'[f]
        BY <2>2, <2>3, <3>1 DEF Cached
      <3>2. CASE \E i \in DeviceIds : e = byId'[i]
        BY <1>5, <1>6, <2>3, <3>2 DEF Cached
      <3> QED BY <2>3, <3>1, <3>2 DEF Cached
    <2>4. ASSUME NEW e \in Cached' PROVE Fresh(e)
      BY <2>1, <2>3 DEF Dropping
    <2> QED BY <1>5, <2>1, <2>2, <2>4
  <1> HIDE DEF d, k
  <1> QED BY <1>1, <1>2, <1>3, <1>5, <1>6, <1>7, <1>8, <1>9, RedisStep

\* One new state of a row is held, of a device that was held or of a new one.
LEMMA GenuineGrows ==
  ASSUME DeviceInv, NEW r \in DeviceRecords, Held' \subseteq Held \union {r}, UNCHANGED today,
         r.first <= r.seen, r.seen <= today, lastId' \in Nat, lastId <= lastId', r.id <= lastId',
         \A d \in Held : d.id = r.id => d.fp = r.fp
  PROVE  Genuine'
  <1>1. \A d \in Held : d \in DeviceRecords /\ d.id <= lastId /\ d.first <= d.seen /\ d.seen <= today
    BY DEF DeviceInv, Genuine
  <1>2. lastId \in Nat
    BY DeviceNumbers DEF DeviceInv, DeviceBounds
  <1>3. \A d \in Held : d.id \in Nat /\ d.id <= lastId'
    BY <1>1, <1>2 DEF DeviceRecords, DeviceIds
  <1>4. \A d, e \in Held \union {r} : d.id = e.id => d.fp = e.fp
    BY DEF DeviceInv, Genuine
  <1> QED BY <1>1, <1>3, <1>4 DEF Genuine

\* No row goes and none changes its id: what is known stays so.
LEMMA RowsPersist ==
  ASSUME DeviceInv, UNCHANGED <<known, answers>>,
         \A g \in Fingerprints : rows[g] # None => rows'[g] # None /\ rows'[g].id = rows[g].id
  PROVE  KnownHasRow' /\ KnownDeviceIsNotNew' /\ \A c \in CallRecords : FindsRow(c) => FindsRow(c)'
  <1>1. KnownHasRow'
    BY DEF DeviceInv, RecognisedInv, KnownHasRow
  <1>2. KnownDeviceIsNotNew'
    BY DEF DeviceInv, RecognisedInv, KnownDeviceIsNotNew
  <1>3. \A c \in CallRecords : FindsRow(c) => FindsRow(c)'
    BY DEF FindsRow
  <1> QED BY <1>1, <1>2, <1>3

\* Trust scores stay on their scale.
LEMMA TrustIsAScore ==
  ASSUME NEW e \in BOOLEAN, NEW n \in Int, NEW age \in Int, NEW idle \in Int,
         NEW stable \in BOOLEAN, NEW same \in BOOLEAN
  PROVE  InitialTrust(e, n) \in TrustScores /\ ReturningTrust(e, n, age, idle, stable, same) \in TrustScores
  <1> DEFINE penalty == EmulatorPenalty(e, n)
             bonus == (IF age > 30 THEN 10 ELSE Points(age > 7, 5)) + 15 + Points(stable, 10)
             malus == (IF idle > 30 THEN 10 ELSE Points(idle > 7, 5)) + Points(~same, 10)
             initial == 100 * BASE_SCORE - penalty
             later == 100 * (BASE_SCORE + bonus - malus) - penalty
             top == 10000
  <1>1. penalty \in Int /\ bonus \in Int /\ malus \in Int /\ top \in Nat
    BY DEF EmulatorPenalty, Points
  <1>2. /\ InitialTrust(e, n) = Within0To(initial, top)
        /\ ReturningTrust(e, n, age, idle, stable, same) = Within0To(later, top)
        /\ TrustScores = 0 .. top
    BY DEF InitialTrust, ReturningTrust, TrustScores
  <1>3. initial \in Int /\ later \in Int
    <2> HIDE DEF penalty, bonus, malus
    <2> QED BY <1>1 DEF BASE_SCORE
  <1> HIDE DEF initial, later, top
  <1>4. Within0To(initial, top) \in 0 .. top /\ Within0To(later, top) \in 0 .. top
    BY <1>1, <1>3 DEF Within0To, UpTo
  <1> QED BY <1>2, <1>4

\* A row changes, and the call that changed it goes on.
LEMMA RowStep ==
  ASSUME DeviceInv, NEW p \in Calling, NEW c \in CallRecords, call' = [call EXCEPT ![p] = c],
         NEW f \in Fingerprints, NEW r \in DeviceRecords, rows' = [rows EXCEPT ![f] = r],
         UNCHANGED <<redis, outer, failures>>, lastId' \in 0 .. MaxDevices, lastId <= lastId',
         r.fp = f, r.id <= lastId', r.first <= r.seen, r.seen <= today,
         IF rows[f] = None THEN r.id = lastId + 1 ELSE r.id = rows[f].id,
         c.device \in Held \union {r}, c.cached \in Held \union {None}, Ready(c), FindsRow(c),
         c.at \in {"invalidateGet", "cacheNew"},
         c.at = "cacheNew" => c.device = r, c.at = "invalidateGet" => c.device.id = r.id,
         ~overlapped /\ failures = 0 /\ c.at = "cacheNew" => rows[f] = None,
         call[p].at \notin {"invalidateGet", "invalidateDel"}
  PROVE  DeviceInv'
  <1>1. /\ Calling' = Calling /\ call' \in [Procs -> CallRecords \union {None}]
        /\ call'[p] = c /\ (\A q \in Procs : q # p => call'[q] = call[q])
        /\ (\A q \in Procs : Idle(q)' <=> Idle(q))
    BY CallMoves
  <1>2. /\ UNCHANGED <<byFp, byId>>
        /\ UNCHANGED <<answers, offset, processed, today, known, overlapped, calls, failures>>
    BY DEF redis, outer
  <1>3. /\ rows' \in [Fingerprints -> DeviceRecords \union {None}] /\ rows'[f] = r /\ r # None
        /\ \A g \in Fingerprints : g # f => rows'[g] = rows[g]
    BY DeviceNumbers DEF DeviceInv, DeviceShape
  <1>4. DeviceShape' /\ DeviceBounds'
    BY <1>1, <1>2, <1>3 DEF DeviceInv, DeviceShape, DeviceBounds, Procs
  <1>5. Held' \subseteq Held \union {r}
    BY <1>1, <1>2, <1>3 DEF Held, Calling
  <1>6. \A d \in Held : d.id = r.id => d.fp = r.fp
    <2> SUFFICES ASSUME NEW d \in Held, d.id = r.id PROVE d.fp = r.fp
      OBVIOUS
    <2>1. d.id <= lastId /\ lastId \in Nat /\ d.id \in Nat
      BY DeviceNumbers, HeldRows DEF DeviceInv, DeviceBounds, Genuine, DeviceIds
    <2>2. rows[f] # None
      BY <2>1
    <2>3. rows[f] \in Held /\ rows[f].id = r.id /\ rows[f].fp = f
      BY <2>2, HeldRows DEF DeviceInv, DeviceShape
    <2> QED BY <2>3 DEF DeviceInv, Genuine
  <1>7. Genuine'
    BY <1>2, <1>5, <1>6, GenuineGrows
  <1>8. KnownHasRow' /\ KnownDeviceIsNotNew' /\ \A k \in CallRecords : FindsRow(k) => FindsRow(k)'
    BY <1>2, <1>3, RowsPersist
  <1>9. RecognisedInv'
    <2>1. ASSUME NEW q \in Calling' PROVE Ready(call[q])' /\ FindsRow(call[q])'
      <3>1. Ready(call'[q]) /\ FindsRow(call'[q]) /\ call'[q] \in CallRecords
        BY <1>1, <2>1, BusyCalls DEF Calling
      <3> QED BY <1>8, <3>1 DEF Ready, FindsRow
    <2> QED BY <1>8, <2>1 DEF RecognisedInv
  <1>10. QuietInv'
    <2> SUFFICES ASSUME ~overlapped', failures' = 0
                 PROVE  /\ Alone'
                        /\ \A g \in Fingerprints : byFp'[g] # None => byId'[byFp'[g].id] # None
                        /\ (\A d \in Cached : Fresh(d) \/ Dropping(d))' /\ (\A q \in Calling : Knows(call[q]))'
      BY DEF QuietInv
    <2>0. ~overlapped /\ failures = 0
      BY <1>2
    <2>1. /\ Alone /\ \A q \in Calling : q = p
          /\ \A d \in Cached : Fresh(d) \/ Dropping(d)
          /\ \A g \in Fingerprints : byFp[g] # None => byId[byFp[g].id] # None
      BY <2>0 DEF DeviceInv, QuietInv, Alone
    <2>2. \A d \in Cached : Fresh(d)
      BY <2>1 DEF Dropping
    <2>3. ASSUME NEW d \in Cached PROVE Fresh(d)' \/ Dropping(d)'
      <3>1. d \in Held /\ d.fp \in Fingerprints
        BY <2>3, HeldRows DEF Cached
      <3>2. CASE d.fp # f
        BY <1>3, <2>2, <3>1, <3>2 DEF Fresh
      <3>3. CASE d.fp = f /\ d.id # r.id
        BY <1>3, <3>3 DEF Fresh
      <3>4. CASE d.fp = f /\ d.id = r.id
        <4>1. c.at = "invalidateGet"
          <5>1. rows[f] # None
            BY <3>1, <3>4, DeviceNumbers, HeldRows DEF DeviceInv, DeviceBounds, Genuine, DeviceIds
          <5> QED BY <2>0, <5>1
        <4> QED BY <1>1, <3>4, <4>1 DEF Dropping
      <3> QED BY <3>2, <3>3, <3>4
    <2>4. Cached' = Cached
      BY <1>2 DEF Cached
    <2>5. (\A q \in Calling : Knows(call[q]))'
      BY <1>1, <1>3, <2>1 DEF Knows, Fresh
    <2>6. Alone'
      BY <1>1, <2>1 DEF Alone
    <2>7. \A g \in Fingerprints : byFp'[g] # None => byId'[byFp'[g].id] # None
      BY <1>2, <2>1
    <2>8. (\A d \in Cached : Fresh(d) \/ Dropping(d))'
      BY <2>3, <2>4
    <2> QED BY <2>5, <2>6, <2>7, <2>8
  <1> QED BY <1>4, <1>7, <1>9, <1>10 DEF DeviceInv

\* updateDeviceLastSeen.
LEMMA UpdateStep ==
  ASSUME DeviceInv, NEW p \in Calling, Update(p)
  PROVE  DeviceInv'
  <1> DEFINE d == call[p].device
             f == d.fp
             a == call[p].attrs
  <1>1. /\ p \in Procs /\ call[p] \in CallRecords /\ Ready(call[p]) /\ FindsRow(call[p])
        /\ d \in Held \union {None} /\ call[p].cached \in Held \union {None} /\ a \in Attrs
    BY BusyCalls DEF CallRecords
  <1>2. call[p].at = "update" /\ Goto(p, "invalidateGet") /\ UNCHANGED <<lastId, redis, outer, failures>>
    BY DEF Update, At
  <1>3. d # None /\ d \in Held
    BY <1>1, <1>2 DEF Ready
  <1>4. /\ d \in DeviceRecords /\ f \in Fingerprints /\ d.id \in DeviceIds
        /\ d.first \in Nat /\ d.seen \in Nat /\ today \in Nat
    BY <1>3, HeldRows, DeviceNumbers DEF DeviceRecords, DeviceInv, DeviceBounds
  <1>5. PICK c \in CallRecords :
            /\ call' = [call EXCEPT ![p] = c] /\ c.at = "invalidateGet" /\ c.device = d
            /\ c.cached = call[p].cached /\ c.new = call[p].new /\ c.op = call[p].op
            /\ c.attrs = a /\ c.id = call[p].id /\ c.expected = call[p].expected
    BY <1>2, GotoGoes DEF Awaits
  <1>6. Ready(c) /\ FindsRow(c) /\ Knows(c)
    BY <1>1, <1>2, <1>3, <1>5 DEF Ready, FindsRow, Knows
  <1>7. CASE rows[f] # None /\ rows[f].id = d.id
    <2> DEFINE t == TrustNow(p)
               r == [rows[f] EXCEPT !.seen = today, !.attrs = a, !.trust = t]
    <2>1. t \in TrustScores
      <3>1. Emulated[a].emulator \in BOOLEAN /\ Emulated[a].confidence \in Int
        <4> HIDE DEF a
        <4>1. Emulated[a].emulator \in BOOLEAN /\ Emulated[a].confidence \in 0 .. 100
          BY <1>1, AttrsAssumption
        <4> QED BY <4>1
      <3>2. today - d.first \in Int /\ today - d.seen \in Int
        BY <1>4
      <3>3. t = ReturningTrust(Emulated[a].emulator, Emulated[a].confidence, today - d.first, today - d.seen,
                               Fingerprint[a] = Fingerprint[d.attrs], Platform[a] = Platform[d.attrs])
        BY DEF TrustNow
      <3> HIDE DEF t, d, a
      <3> QED BY <3>1, <3>2, <3>3, TrustIsAScore
    <2>2. /\ rows[f] \in DeviceRecords /\ rows[f].fp = f /\ rows[f].id <= lastId
          /\ rows[f].first \in Nat /\ rows[f].first <= rows[f].seen /\ rows[f].seen \in Nat
          /\ rows[f].seen <= today
      <3>1. rows[f] \in Held /\ rows[f].fp = f
        BY <1>4, <1>7, HeldRows DEF DeviceInv, DeviceShape
      <3> QED BY <3>1 DEF DeviceInv, Genuine, DeviceRecords
    <2>3. r \in DeviceRecords /\ r.fp = f /\ r.id = rows[f].id /\ r.first = rows[f].first /\ r.seen = today
      <3> HIDE DEF t, f, a
      <3> QED BY <1>1, <1>4, <2>1, <2>2 DEF DeviceRecords
    <2>4. rows' = [rows EXCEPT ![f] = r]
      BY <1>7 DEF Update
    <2>5. lastId \in 0 .. MaxDevices /\ lastId' = lastId /\ lastId \in Nat
      BY <1>2, DeviceNumbers DEF DeviceInv, DeviceBounds
    <2>6. r.first <= r.seen
      BY <1>4, <2>2, <2>3
    <2> HIDE DEF r, d, f, a
    <2>7. /\ r.id <= lastId' /\ r.seen <= today /\ lastId <= lastId' /\ lastId' \in 0 .. MaxDevices
          /\ IF rows[f] = None THEN r.id = lastId + 1 ELSE r.id = rows[f].id
      BY <1>4, <1>7, <2>2, <2>3, <2>5
    <2>8. /\ c.device \in Held \union {r} /\ c.cached \in Held \union {None}
          /\ c.at \in {"invalidateGet", "cacheNew"} /\ c.at # "cacheNew" /\ c.device.id = r.id
          /\ call[p].at \notin {"invalidateGet", "invalidateDel"}
      BY <1>1, <1>2, <1>3, <1>5, <1>7, <2>3
    <2> QED BY <1>2, <1>4, <1>5, <1>6, <2>3, <2>4, <2>6, <2>7, <2>8, RowStep
  <1>8. CASE ~(rows[f] # None /\ rows[f].id = d.id)
    <2>1. UNCHANGED <<table, redis, outer, failures>>
      BY <1>2, <1>8 DEF Update, table
    <2> QED BY <1>1, <1>2, <1>3, <1>5, <1>6, <2>1, MoveStep
  <1> QED BY <1>7, <1>8

\* registerDevice.
LEMMA RegisterStep ==
  ASSUME DeviceInv, NEW p \in Calling, Register(p)
  PROVE  DeviceInv'
  <1> DEFINE f == Fp(p)
             a == call[p].attrs
             e == Emulated[a].emulator
             t == InitialTrust(e, Emulated[a].confidence)
             n == [fp |-> f, id |-> lastId + 1, attrs |-> a, emulator |-> e, trust |-> t,
                   first |-> today, seen |-> today]
             o == [rows[f] EXCEPT !.attrs = a, !.emulator = e, !.seen = today]
             r == IF rows[f] = None THEN n ELSE o
  <1>1. /\ p \in Procs /\ call[p] \in CallRecords /\ Ready(call[p]) /\ FindsRow(call[p])
        /\ call[p].cached \in Held \union {None} /\ f \in Fingerprints /\ f = Fingerprint[a] /\ a \in Attrs
    BY BusyCalls DEF CallRecords
  <1>2. /\ call[p].at = "register" /\ UNCHANGED <<redis, outer, failures>>
        /\ (rows[f] = None => lastId < MaxDevices)
        /\ rows' = [rows EXCEPT ![f] = r]
        /\ lastId' = (IF rows[f] = None THEN lastId + 1 ELSE lastId)
        /\ call' = [call EXCEPT ![p].at = "cacheNew", ![p].device = r, ![p].new = TRUE]
    BY DEF Register, At
  <1>3. e \in BOOLEAN /\ t \in TrustScores
    <2>1. e \in BOOLEAN /\ Emulated[a].confidence \in 0 .. 100
      <3> HIDE DEF a
      <3> QED BY <1>1, AttrsAssumption
    <2>2. Emulated[a].confidence \in Int
      BY <2>1
    <2> HIDE DEF a, e
    <2> QED BY <2>1, <2>2, TrustIsAScore
  <1>4. today \in Nat /\ lastId \in 0 .. MaxDevices /\ MaxDevices \in Nat
    BY DeviceNumbers DEF DeviceInv, DeviceBounds
  <1>5. rows[f] # None =>
          /\ rows[f] \in DeviceRecords /\ rows[f].fp = f /\ rows[f].id <= lastId
          /\ rows[f].first \in Nat /\ rows[f].first <= rows[f].seen /\ rows[f].seen \in Nat
          /\ rows[f].seen <= today
    <2>1. rows[f] # None => rows[f] \in Held /\ rows[f].fp = f
      BY <1>1, HeldRows DEF DeviceInv, DeviceShape
    <2> QED BY <2>1 DEF DeviceInv, Genuine, DeviceRecords
  <1>6. /\ r \in DeviceRecords /\ r.fp = f /\ r.first <= r.seen /\ r.seen <= today
        /\ IF rows[f] = None THEN r.id = lastId + 1 ELSE r.id = rows[f].id
    <2>1. CASE rows[f] = None
      <3>1. lastId + 1 \in DeviceIds
        BY <1>2, <1>4, <2>1 DEF DeviceIds
      <3> HIDE DEF f, a, e, t
      <3>2. n \in DeviceRecords
        BY <1>1, <1>3, <1>4, <3>1 DEF DeviceRecords
      <3> QED BY <1>4, <2>1, <3>2
    <2>2. CASE rows[f] # None
      <3> HIDE DEF f, a, e, t
      <3>1. /\ o \in DeviceRecords /\ o.fp = f /\ o.id = rows[f].id /\ o.first = rows[f].first
            /\ o.seen = today
        BY <1>1, <1>3, <1>4, <1>5, <2>2 DEF DeviceRecords
      <3> QED BY <1>4, <1>5, <2>2, <3>1
    <2> QED BY <2>1, <2>2
  <1>7. lastId' \in 0 .. MaxDevices /\ lastId <= lastId' /\ r.id <= lastId'
    BY <1>2, <1>4, <1>5, <1>6
  <1> HIDE DEF n, o, r
  <1> DEFINE c == [call[p] EXCEPT !.at = "cacheNew", !.device = r, !.new = TRUE]
  <1>8. /\ c \in CallRecords /\ c.at = "cacheNew" /\ c.device = r /\ c.new = TRUE
        /\ c.cached = call[p].cached /\ c.op = call[p].op
        /\ c.attrs = a /\ c.id = call[p].id /\ c.expected = call[p].expected
    BY <1>1, <1>6 DEF CallRecords
  <1>9. call' = [call EXCEPT ![p] = c]
    BY <1>2
  <1> HIDE DEF c, f, a
  <1>10. Ready(c) /\ FindsRow(c)
    <2>1. c.op = "identify" /\ ~c.expected
      BY <1>1, <1>2, <1>8 DEF Ready, FindsRow
    <2>2. r # None
      BY <1>6, DeviceNumbers
    <2> QED BY <1>1, <1>6, <1>8, <2>1, <2>2 DEF Ready, FindsRow, Near
  <1>11. ~overlapped /\ failures = 0 => rows[f] = None
    BY <1>1, <1>2 DEF DeviceInv, QuietInv, Knows, a
  <1> QED BY <1>1, <1>2, <1>6, <1>7, <1>8, <1>9, <1>10, <1>11, RowStep

\* A call begins.
LEMMA StartStep ==
  ASSUME DeviceInv, NEW p \in Procs, NEW op \in {"identify", "match", "get"},
         NEW step \in {"cacheGet", "idCacheGet"}, NEW a \in Attrs, NEW i \in DeviceIds \union {None},
         Start(p, op, step, a, i), step = "idCacheGet" => op = "get" /\ i \in DeviceIds,
         UNCHANGED <<table, redis, answers, offset, processed, today, known, failures>>,
         calls' \in 0 .. MaxCalls, p = Kafka => offset <= Len(DeviceTopic)
  PROVE  DeviceInv'
  <1> DEFINE x == \E d \in DeviceIds : <<Fingerprint[a], d>> \in known
             c == [op |-> op, at |-> step, attrs |-> a, id |-> i, device |-> None,
                   cached |-> None, new |-> FALSE, expected |-> x]
  <1>1. /\ Idle(p) /\ call' = [call EXCEPT ![p] = c]
        /\ overlapped' = (overlapped \/ \E q \in Procs \ {p} : ~Idle(q))
    BY DEF Start
  <1>2. /\ c \in CallRecords /\ c.op = op /\ c.at = step /\ c.attrs = a /\ c.id = i /\ c.device = None
        /\ c.cached = None /\ c.new = FALSE /\ c.expected = x
    <2>1. x \in BOOLEAN
      OBVIOUS
    <2> HIDE DEF x
    <2> QED BY <2>1 DEF CallRecords
  <1> HIDE DEF c
  <1>3. UNCHANGED <<rows, lastId, byFp, byId, answers, offset, processed, today, known, failures>>
    BY DEF table, redis
  <1>4. call \in [Procs -> CallRecords \union {None}] /\ call[p] = None /\ c # None
    BY <1>1, <1>2, DeviceNumbers DEF DeviceInv, DeviceShape, Idle
  <1>5. /\ call' \in [Procs -> CallRecords \union {None}] /\ call'[p] = c
        /\ \A q \in Procs : q # p => call'[q] = call[q]
    BY <1>1, <1>2, <1>4
  <1>6. Calling' = Calling \union {p} /\ p \notin Calling
    BY <1>4, <1>5 DEF Calling, Idle
  <1>7. DeviceShape'
    BY <1>3, <1>5 DEF DeviceInv, DeviceShape
  <1>8. DeviceBounds'
    <2>1. ~Idle(Kafka)' => offset <= Len(DeviceTopic)
      BY <1>5 DEF DeviceInv, DeviceBounds, Idle, Procs
    <2> QED BY <1>3, <2>1 DEF DeviceInv, DeviceBounds
  <1>9. Held' \subseteq Held
    BY <1>2, <1>3, <1>5, <1>6 DEF Held, Calling
  <1>10. Genuine'
    BY <1>3, <1>9, GenuineStays, DeviceNumbers DEF DeviceInv, DeviceBounds
  <1>11. Ready(c) /\ FindsRow(c)
    <2>1. Ready(c)
      BY <1>2 DEF Ready
    <2>2. x => \E g \in Fingerprints : Near(Fingerprint[a], g) /\ rows[g] # None
      BY DEF DeviceInv, RecognisedInv, KnownHasRow
    <2>3. FindsRow(c)
      BY <1>2, <2>2 DEF FindsRow
    <2> QED BY <2>1, <2>3
  <1>12. RecognisedInv'
    <2>1. KnownHasRow' /\ KnownDeviceIsNotNew'
      BY <1>3 DEF DeviceInv, RecognisedInv, KnownHasRow, KnownDeviceIsNotNew
    <2>2. ASSUME NEW q \in Calling' PROVE Ready(call[q])' /\ FindsRow(call[q])'
      <3>1. Ready(call'[q]) /\ FindsRow(call'[q])
        BY <1>5, <1>6, <1>11, <2>2, BusyCalls DEF Calling
      <3> QED BY <1>3, <3>1 DEF Ready, FindsRow
    <2> QED BY <2>1, <2>2 DEF RecognisedInv
  <1>13. QuietInv'
    <2> SUFFICES ASSUME ~overlapped', failures' = 0
                 PROVE  /\ Alone'
                        /\ \A f \in Fingerprints : byFp'[f] # None => byId'[byFp'[f].id] # None
                        /\ (\A d \in Cached : Fresh(d))' /\ (\A q \in Calling : Knows(call[q]))'
      BY DEF QuietInv
    <2>1. ~overlapped /\ failures = 0 /\ Calling = {}
      BY <1>1, <1>3 DEF Calling
    <2>2. /\ \A d \in Cached : Fresh(d)
          /\ \A f \in Fingerprints : byFp[f] # None => byId[byFp[f].id] # None
      BY <2>1 DEF DeviceInv, QuietInv, Dropping
    <2>3. Calling' = {p} /\ call'[p].at \in {"cacheGet", "idCacheGet"}
      BY <1>2, <1>5, <1>6, <2>1
    <2>4. Alone' /\ (\A q \in Calling : Knows(call[q]))'
      BY <2>3 DEF Alone, Knows
    <2>5. (\A d \in Cached : Fresh(d))'
      BY <1>3, <2>2 DEF Cached, Fresh
    <2> QED BY <1>3, <2>2, <2>4, <2>5
  <1> QED BY <1>7, <1>8, <1>10, <1>12, <1>13 DEF DeviceInv

\* Only the consumer's position changes.
LEMMA PositionStep ==
  ASSUME DeviceInv, UNCHANGED <<table, redis, call, answers, processed, today, known, overlapped, calls, failures>>,
         DeviceBounds'
  PROVE  DeviceInv'
  <1>1. UNCHANGED <<rows, lastId, byFp, byId, call, answers, today, known, overlapped, failures>>
    BY DEF table, redis
  <1>2. DeviceShape' /\ Genuine'
    BY <1>1 DEF DeviceInv, DeviceShape, Genuine, Held, Calling, Idle
  <1>3. RecognisedInv'
    BY <1>1 DEF DeviceInv, RecognisedInv, KnownHasRow, KnownDeviceIsNotNew, Calling, Idle, Ready, FindsRow
  <1>4. QuietInv'
    BY <1>1 DEF DeviceInv, QuietInv, Alone, Cached, Fresh, Dropping, Knows, Calling, Idle
  <1> QED BY <1>2, <1>3, <1>4 DEF DeviceInv

LEMMA BeginStep ==
  ASSUME DeviceInv, Consume \/ \E p \in Procs : Request(p)
  PROVE  DeviceInv'
  <1>1. ASSUME NEW p \in Procs, Request(p) PROVE DeviceInv'
    <2>1. /\ UNCHANGED <<table, redis, answers, offset, processed, today, known, failures>>
          /\ calls' \in 0 .. MaxCalls /\ p # Kafka
      BY <1>1, DeviceNumbers, DeviceAssumption DEF Request, DeviceInv, DeviceBounds
    <2>2. \A d \in 1 .. lastId : d \in DeviceIds
      BY DeviceNumbers DEF DeviceInv, DeviceBounds, DeviceIds
    <2>3. CASE \E a \in Attrs : Start(p, "identify", "cacheGet", a, None)
      BY <2>1, <2>3, StartStep
    <2>4. CASE \E a \in Attrs : \E d \in 1 .. lastId : Start(p, "get", "idCacheGet", a, d)
      BY <2>1, <2>2, <2>4, StartStep
    <2> QED BY <1>1, <2>3, <2>4 DEF Request
  <1>2. ASSUME Consume PROVE DeviceInv'
    <2> DEFINE e == DeviceTopic[offset]
    <2>1. /\ Idle(Kafka) /\ offset \in 1 .. Len(DeviceTopic) /\ offset + 1 \in 1 .. Len(DeviceTopic) + 1
          /\ calls \in 0 .. MaxCalls
          /\ UNCHANGED <<table, redis, answers, processed, today, known, calls, failures>>
      BY <1>2, DeviceNumbers DEF Consume, DeviceInv, DeviceBounds
    <2>2. e.attrs \in Attrs
      BY <2>1, DeviceNumbers
    <2>3. CASE e.id \in processed
      <3>1. offset' = offset + 1 /\ UNCHANGED <<call, overlapped>>
        BY <1>2, <2>3 DEF Consume
      <3>2. DeviceBounds'
        BY <2>1, <3>1 DEF DeviceInv, DeviceBounds, Idle, table
      <3> QED BY <2>1, <3>1, <3>2, PositionStep
    <2>4. CASE e.id \notin processed
      <3> DEFINE op == IF e.full THEN "identify" ELSE "match"
      <3>1. op \in {"identify", "match", "get"} /\ UNCHANGED offset
            /\ Start(Kafka, op, "cacheGet", e.attrs, None)
        BY <1>2, <2>4 DEF Consume
      <3> HIDE DEF op, e
      <3> QED BY <2>1, <2>2, <3>1, StartStep DEF Procs
    <2> QED BY <2>3, <2>4
  <1> QED BY <1>1, <1>2

\* A call is over, and the others stay where they are.
LEMMA CallLeaves ==
  ASSUME DeviceInv, NEW p \in Calling, call' = [call EXCEPT ![p] = None], UNCHANGED <<table, redis, today>>
  PROVE  /\ DeviceShape' /\ Genuine' /\ Calling' = Calling \ {p} /\ call'[p] = None
         /\ \A q \in Procs : q # p => call'[q] = call[q]
         /\ (\A q \in Calling : Ready(call[q]) /\ FindsRow(call[q]))'
  <1>1. call \in [Procs -> CallRecords \union {None}] /\ p \in Procs
    BY DEF DeviceInv, DeviceShape, Calling
  <1>2. /\ call' \in [Procs -> CallRecords \union {None}] /\ call'[p] = None
        /\ \A q \in Procs : q # p => call'[q] = call[q]
    BY <1>1
  <1>3. Calling' = Calling \ {p}
    BY <1>1, <1>2 DEF Calling, Idle
  <1>4. UNCHANGED <<rows, lastId, byFp, byId, today>>
    BY DEF table, redis
  <1>5. DeviceShape'
    BY <1>2, <1>4 DEF DeviceInv, DeviceShape
  <1>6. Held' \subseteq Held
    BY <1>2, <1>3, <1>4 DEF Held, Calling
  <1>7. Genuine'
    BY <1>4, <1>6, GenuineStays, DeviceNumbers DEF DeviceInv, DeviceBounds
  <1>8. ASSUME NEW q \in Calling' PROVE q \in Calling /\ Ready(call'[q]) /\ FindsRow(call'[q])
    BY <1>2, <1>3, <1>8, BusyCalls DEF Calling
  <1> QED BY <1>2, <1>3, <1>4, <1>5, <1>7, <1>8 DEF Ready, FindsRow

\* A call answers, and its caller or the consumer goes on.
LEMMA EndStep ==
  ASSUME DeviceInv, MarkProcessed \/ \E p \in Procs : EndCall(p)
  PROVE  DeviceInv'
  <1>1. PICK p \in Calling :
            /\ call[p].at = "end" /\ call' = [call EXCEPT ![p] = None] /\ Answer(p)
            /\ UNCHANGED <<table, redis, today, overlapped, calls, failures>>
            /\ \/ p \in Callers /\ UNCHANGED <<offset, processed>>
               \/ p = Kafka /\ processed' = processed \union {DeviceTopic[offset].id} /\ offset' = offset + 1
    <2>1. CASE MarkProcessed
      BY <2>1 DEF MarkProcessed, At, Calling, Procs
    <2>2. CASE \E p \in Procs : EndCall(p)
      BY <2>2 DEF EndCall, At, Calling
    <2> QED BY <2>1, <2>2
  <1> DEFINE d == call[p].device
  <1>2. /\ p \in Procs /\ call[p] \in CallRecords /\ ~Idle(p) /\ d \in Held \union {None}
        /\ Ready(call[p]) /\ FindsRow(call[p]) /\ Fp(p) = Fingerprint[call[p].attrs] /\ Fp(p) \in Fingerprints
    BY BusyCalls
  <1>3. UNCHANGED <<rows, lastId, byFp, byId, today, overlapped, calls, failures>>
    BY <1>1 DEF table, redis
  <1>4. /\ DeviceShape' /\ Genuine' /\ Calling' = Calling \ {p} /\ call'[p] = None
        /\ \A q \in Procs : q # p => call'[q] = call[q]
        /\ (\A q \in Calling : Ready(call[q]) /\ FindsRow(call[q]))'
    BY <1>1, CallLeaves
  <1>5. known' = known \/ /\ known' = known \union {<<Fp(p), d.id>>} /\ d \in Held
                          /\ rows[d.fp] # None /\ rows[d.fp].id = d.id /\ Near(Fp(p), d.fp)
    <2>1. CASE call[p].op = "identify"
      <3>1. d # None /\ d \in Held /\ Near(Fp(p), d.fp)
        BY <1>1, <1>2, <2>1 DEF Ready
      <3> QED BY <1>1, <2>1, <3>1 DEF Answer
    <2>2. CASE call[p].op # "identify"
      BY <1>1, <2>2 DEF Answer
    <2> QED BY <2>1, <2>2
  <1>6. d \in Held => d.fp \in Fingerprints /\ d.id \in DeviceIds
    BY HeldRows
  <1>7. DeviceBounds'
    <2>1. known' \subseteq Fingerprints \X DeviceIds
      BY <1>2, <1>5, <1>6 DEF DeviceInv, DeviceBounds
    <2>2. /\ offset' \in 1 .. Len(DeviceTopic) + 1 /\ (~Idle(Kafka)' => offset' <= Len(DeviceTopic))
          /\ processed' \subseteq {DeviceTopic[i].id : i \in DOMAIN DeviceTopic}
      <3>1. CASE p = Kafka /\ processed' = processed \union {DeviceTopic[offset].id} /\ offset' = offset + 1
        <4>1. offset \in 1 .. Len(DeviceTopic) /\ offset' \in 1 .. Len(DeviceTopic) + 1 /\ offset \in DOMAIN DeviceTopic
          BY <1>2, <3>1, DeviceNumbers DEF DeviceInv, DeviceBounds
        <4>2. Idle(Kafka)'
          BY <1>4, <3>1 DEF Idle
        <4> QED BY <3>1, <4>1, <4>2 DEF DeviceInv, DeviceBounds
      <3>2. CASE p \in Callers /\ UNCHANGED <<offset, processed>>
        <4>1. ~Idle(Kafka)' => ~Idle(Kafka)
          BY <1>4, <3>2, DeviceAssumption DEF Idle, Procs
        <4> QED BY <3>2, <4>1 DEF DeviceInv, DeviceBounds
      <3> QED BY <1>1, <3>1, <3>2
    <2> QED BY <1>3, <2>1, <2>2 DEF DeviceInv, DeviceBounds
  <1>8. KnownHasRow'
    <2>1. \A k \in known : \E g \in Fingerprints : Near(k[1], g) /\ rows[g] # None /\ rows[g].id = k[2]
      BY DEF DeviceInv, RecognisedInv, KnownHasRow
    <2>2. \A k \in known' : \E g \in Fingerprints : Near(k[1], g) /\ rows[g] # None /\ rows[g].id = k[2]
      BY <1>5, <1>6, <2>1
    <2> QED BY <1>3, <2>2 DEF KnownHasRow
  <1>9. KnownDeviceIsNotNew'
    <2>1. CASE call[p].op = "identify"
      <3>1. answers' = {[new |-> call[p].new, expected |-> call[p].expected]}
        BY <1>1, <2>1 DEF Answer
      <3>2. call[p].expected => ~call[p].new
        BY <1>2, <2>1 DEF FindsRow
      <3> QED BY <3>1, <3>2 DEF KnownDeviceIsNotNew
    <2>2. CASE call[p].op # "identify"
      BY <1>1, <2>2 DEF Answer, DeviceInv, RecognisedInv, KnownDeviceIsNotNew
    <2> QED BY <2>1, <2>2
  <1>10. QuietInv'
    <2> SUFFICES ASSUME ~overlapped', failures' = 0
                 PROVE  /\ Alone'
                        /\ \A f \in Fingerprints : byFp'[f] # None => byId'[byFp'[f].id] # None
                        /\ (\A e \in Cached : Fresh(e))' /\ (\A q \in Calling : Knows(call[q]))'
      BY DEF QuietInv
    <2>1. /\ \A q \in Calling : q = p
          /\ \A e \in Cached : Fresh(e) \/ Dropping(e)
          /\ \A f \in Fingerprints : byFp[f] # None => byId[byFp[f].id] # None
      BY <1>3 DEF DeviceInv, QuietInv, Alone
    <2>2. \A e \in Cached : Fresh(e)
      BY <1>1, <2>1 DEF Dropping
    <2>3. Calling' = {}
      BY <1>4, <2>1
    <2>4. Alone' /\ (\A q \in Calling : Knows(call[q]))'
      BY <2>3 DEF Alone
    <2>5. (\A e \in Cached : Fresh(e))'
      BY <1>3, <2>2 DEF Cached, Fresh
    <2> QED BY <1>3, <2>1, <2>4, <2>5
  <1> QED BY <1>4, <1>7, <1>8, <1>9, <1>10 DEF DeviceInv, RecognisedInv

\* Redis rejects a command.
LEMMA RedisFailsStep ==
  ASSUME DeviceInv, NEW p \in Procs, RedisFails(p)
  PROVE  DeviceInv'
  <1>1. /\ UNCHANGED <<table, redis, outer>> /\ failures' = failures + 1
        /\ failures' \in 0 .. MaxDeviceFaults /\ failures' # 0
    BY DeviceNumbers DEF RedisFails, DeviceInv, DeviceBounds
  <1>2. p \in Calling
    BY DEF RedisFails, At, Calling
  <1>3. /\ call[p] \in CallRecords /\ Ready(call[p]) /\ FindsRow(call[p])
        /\ call[p].device \in Held \union {None} /\ call[p].cached \in Held \union {None}
        /\ call[p].device \in DeviceRecords \union {None}
    BY <1>2, BusyCalls DEF CallRecords
  <1>4. PICK c \in CallRecords :
            /\ call' = [call EXCEPT ![p] = c] /\ c.device = call[p].device
            /\ c.cached = call[p].cached /\ c.new = call[p].new /\ c.op = call[p].op
            /\ c.attrs = call[p].attrs /\ c.id = call[p].id /\ c.expected = call[p].expected
            /\ \/ call[p].at = "cacheGet" /\ c.at = "exact"
               \/ call[p].at = "idCacheGet" /\ c.at = "select"
               \/ call[p].at = "cacheSet" /\ c.at = (IF c.op = "identify" THEN "update" ELSE "end")
               \/ call[p].at \in {"cacheNew", "invalidateGet", "invalidateDel"} /\ c.at = "end"
    <2>1. CASE At(p, "cacheGet") /\ Goto(p, "exact")
      BY <1>2, <2>1, GotoGoes DEF Awaits, At
    <2>2. CASE At(p, "idCacheGet") /\ Goto(p, "select")
      BY <1>2, <2>2, GotoGoes DEF Awaits, At
    <2>3. CASE At(p, "cacheSet") /\ AfterMatch(p, call[p].device)
      <3>1. call[p].at = "cacheSet" /\ call[p].device # None
        BY <1>3, <2>3 DEF At, Ready
      <3> QED BY <1>2, <1>3, <2>3, <3>1, AfterMatchGoes
    <2>4. CASE (At(p, "cacheNew") \/ At(p, "invalidateGet") \/ At(p, "invalidateDel")) /\ Goto(p, "end")
      BY <1>2, <2>4, GotoGoes DEF Awaits, At
    <2> QED BY <2>1, <2>2, <2>3, <2>4 DEF RedisFails
  <1>5. Ready(c) /\ FindsRow(c)
    BY <1>3, <1>4 DEF Ready, FindsRow
  <1>6. DeviceShape' /\ DeviceBounds' /\ Genuine' /\ RecognisedInv'
    BY <1>1, <1>2, <1>3, <1>4, <1>5, MoveKeeps
  <1> QED BY <1>1, <1>6 DEF DeviceInv, QuietInv

\* PostgreSQL rejects a query and the call throws.
LEMMA CallThrowsStep ==
  ASSUME DeviceInv, NEW p \in Procs, TableFails(p), call[p].op # "match"
  PROVE  DeviceInv'
  <1>1. /\ UNCHANGED <<table, redis, answers, processed, today, known, overlapped, calls>>
        /\ UNCHANGED <<rows, lastId, byFp, byId>> /\ failures' \in 0 .. MaxDeviceFaults /\ failures' # 0
        /\ call' = [call EXCEPT ![p] = None] /\ offset' = (IF p = Kafka THEN offset + 1 ELSE offset)
    BY DeviceNumbers DEF TableFails, DeviceInv, DeviceBounds, table, redis
  <1>2. p \in Calling /\ ~Idle(p)
    BY DEF TableFails, At, Calling
  <1>3. /\ DeviceShape' /\ Genuine' /\ call'[p] = None /\ (\A q \in Procs : q # p => call'[q] = call[q])
        /\ (\A q \in Calling : Ready(call[q]) /\ FindsRow(call[q]))'
    BY <1>1, <1>2, CallLeaves
  <1>4. RecognisedInv'
    BY <1>1, <1>3 DEF DeviceInv, RecognisedInv, KnownHasRow, KnownDeviceIsNotNew
  <1>5. DeviceBounds'
    <2>1. offset' \in 1 .. Len(DeviceTopic) + 1 /\ (~Idle(Kafka)' => offset' <= Len(DeviceTopic))
      <3>1. CASE p = Kafka
        <4>1. offset \in 1 .. Len(DeviceTopic) /\ offset' = offset + 1
          BY <1>1, <1>2, <3>1, DeviceNumbers DEF DeviceInv, DeviceBounds
        <4>2. Idle(Kafka)'
          BY <1>3, <3>1 DEF Idle
        <4> QED BY <4>1, <4>2, DeviceNumbers
      <3>2. CASE p # Kafka
        BY <1>1, <1>3, <3>2 DEF DeviceInv, DeviceBounds, Idle, Procs
      <3> QED BY <3>1, <3>2
    <2> QED BY <1>1, <2>1 DEF DeviceInv, DeviceBounds
  <1> QED BY <1>1, <1>3, <1>4, <1>5 DEF DeviceInv, QuietInv

\* PostgreSQL rejects a query of an event that was only matched: on to its mark.
LEMMA MatchFailsStep ==
  ASSUME DeviceInv, NEW p \in Procs, TableFails(p), call[p].op = "match"
  PROVE  DeviceInv'
  <1>1. /\ UNCHANGED <<table, redis, outer>> /\ failures' = failures + 1
        /\ failures' \in 0 .. MaxDeviceFaults /\ failures' # 0 /\ Goto(p, "end")
    BY DeviceNumbers DEF TableFails, DeviceInv, DeviceBounds, outer
  <1>2. p \in Calling
    BY DEF TableFails, At, Calling
  <1>3. /\ call[p] \in CallRecords /\ Ready(call[p]) /\ FindsRow(call[p])
        /\ call[p].device \in Held \union {None} /\ call[p].cached \in Held \union {None}
    BY <1>2, BusyCalls
  <1>4. PICK c \in CallRecords :
            /\ call' = [call EXCEPT ![p] = c] /\ c.at = "end" /\ c.device = call[p].device
            /\ c.cached = call[p].cached /\ c.op = call[p].op
    BY <1>1, <1>2, GotoGoes DEF Awaits
  <1>5. Ready(c) /\ FindsRow(c)
    BY <1>4 DEF Ready, FindsRow
  <1>6. DeviceShape' /\ DeviceBounds' /\ Genuine' /\ RecognisedInv'
    BY <1>1, <1>2, <1>3, <1>4, <1>5, MoveKeeps
  <1> QED BY <1>1, <1>6 DEF DeviceInv, QuietInv

LEMMA TableFailsStep ==
  ASSUME DeviceInv, NEW p \in Procs, TableFails(p)
  PROVE  DeviceInv'
  BY CallThrowsStep, MatchFailsStep

\* Both keys of a device expire.
LEMMA ExpireStep ==
  ASSUME DeviceInv, NEW i \in DeviceIds, ExpireCached(i)
  PROVE  DeviceInv'
  <1>1. /\ UNCHANGED <<rows, lastId, call, answers, offset, processed, today, known, overlapped, calls, failures>>
        /\ byId' = [byId EXCEPT ![i] = None]
        /\ byFp' = [f \in Fingerprints |-> IF byFp[f] # None /\ byFp[f].id = i THEN None ELSE byFp[f]]
    BY DEF ExpireCached, table, outer
  <1>2. /\ byFp' \in [Fingerprints -> DeviceRecords \union {None}]
        /\ byId' \in [DeviceIds -> DeviceRecords \union {None}]
        /\ \A f \in Fingerprints : byFp'[f] # None => byFp'[f] = byFp[f] /\ byFp[f].id # i
        /\ \A j \in DeviceIds : byId'[j] = IF j = i THEN None ELSE byId[j]
    BY <1>1 DEF DeviceInv, DeviceShape
  <1>3. DeviceShape' /\ DeviceBounds'
    BY <1>1, <1>2 DEF DeviceInv, DeviceShape, DeviceBounds, Idle
  <1>4. Calling' = Calling
    BY <1>1 DEF Calling, Idle
  <1>5. Held' \subseteq Held /\ Cached' \subseteq Cached
    BY <1>1, <1>2, <1>4 DEF Held, Cached
  <1>6. Genuine'
    BY <1>1, <1>5, GenuineStays, DeviceNumbers DEF DeviceInv, DeviceBounds
  <1>7. RecognisedInv'
    BY <1>1, <1>4 DEF DeviceInv, RecognisedInv, KnownHasRow, KnownDeviceIsNotNew, Ready, FindsRow
  <1>8. QuietInv'
    <2> SUFFICES ASSUME ~overlapped', failures' = 0
                 PROVE  /\ Alone'
                        /\ \A f \in Fingerprints : byFp'[f] # None => byId'[byFp'[f].id] # None
                        /\ (\A d \in Cached : Fresh(d) \/ Dropping(d))' /\ (\A q \in Calling : Knows(call[q]))'
      BY DEF QuietInv
    <2>1. /\ Alone /\ \A d \in Cached : Fresh(d) \/ Dropping(d)
          /\ \A f \in Fingerprints : byFp[f] # None => byId[byFp[f].id] # None
          /\ \A q \in Calling : Knows(call[q])
      BY <1>1 DEF DeviceInv, QuietInv
    <2>2. (\A d \in Cached : Fresh(d) \/ Dropping(d))'
      BY <1>1, <1>4, <1>5, <2>1 DEF Fresh, Dropping
    <2>3. \A f \in Fingerprints : byFp'[f] # None => byId'[byFp'[f].id] # None
      <3>1. \A f \in Fingerprints : byFp[f] # None => byFp[f].id \in DeviceIds
        BY HeldRows
      <3> QED BY <1>2, <2>1, <3>1
    <2>4. ASSUME NEW q \in Calling PROVE Knows(call[q])'
      <3>1. call[q].at = "invalidateDel" => call[q].device.id \in DeviceIds
        BY BusyCalls, HeldRows DEF Ready
      <3> QED BY <1>1, <1>2, <2>1, <3>1 DEF Knows, Fresh
    <2>5. Alone'
      BY <1>4, <2>1 DEF Alone
    <2> QED BY <1>1, <1>4, <2>2, <2>3, <2>4, <2>5
  <1> QED BY <1>3, <1>6, <1>7, <1>8 DEF DeviceInv

\* A row is purged: its device is known no more.
LEMMA PurgeStep ==
  ASSUME DeviceInv, NEW f \in Fingerprints, Purge(f)
  PROVE  DeviceInv'
  <1>1. /\ UNCHANGED <<lastId, byFp, byId, answers, offset, processed, today, overlapped, calls, failures>>
        /\ rows[f] # None /\ rows' = [rows EXCEPT ![f] = None]
        /\ known' = {k \in known : k[2] # rows[f].id}
        /\ call' = [p \in Procs |-> IF Idle(p) THEN None ELSE [call[p] EXCEPT !.expected = FALSE]]
    BY DEF Purge, redis
  <1>2. /\ rows' \in [Fingerprints -> DeviceRecords \union {None}] /\ rows'[f] = None
        /\ \A g \in Fingerprints : g # f => rows'[g] = rows[g]
    BY <1>1 DEF DeviceInv, DeviceShape
  <1>3. ASSUME NEW p \in Calling
        PROVE  /\ call'[p] \in CallRecords /\ call'[p].at = call[p].at /\ call'[p].device = call[p].device
               /\ call'[p].cached = call[p].cached /\ call'[p].new = call[p].new /\ call'[p].op = call[p].op
               /\ call'[p].attrs = call[p].attrs /\ call'[p].id = call[p].id /\ call'[p].expected = FALSE
    <2>1. call[p] \in CallRecords /\ p \in Procs /\ ~Idle(p)
      BY BusyCalls
    <2> QED BY <1>1, <2>1 DEF CallRecords
  <1>4. \A p \in Procs : p \notin Calling => call'[p] = None
    BY <1>1 DEF Calling
  <1>5. Calling' = Calling /\ call' \in [Procs -> CallRecords \union {None}]
    <2>1. \A p \in Procs : call'[p] \in CallRecords \union {None} /\ (call'[p] = None <=> p \notin Calling)
      BY <1>3, <1>4, DeviceNumbers
    <2>2. call' = [p \in Procs |-> call'[p]]
      BY <1>1
    <2>3. call' \in [Procs -> CallRecords \union {None}]
      BY <2>1, <2>2
    <2> QED BY <2>1, <2>3 DEF Calling, Idle
  <1>6. DeviceShape' /\ DeviceBounds'
    <2>1. ~Idle(Kafka)' => ~Idle(Kafka)
      BY <1>4 DEF Calling, Idle, Procs
    <2> QED BY <1>1, <1>2, <1>5, <2>1 DEF DeviceInv, DeviceShape, DeviceBounds
  <1>7. Held' \subseteq Held
    <2>1. {rows'[g] : g \in Fingerprints} \subseteq {rows[g] : g \in Fingerprints} \union {None}
      BY <1>2
    <2>2. {call'[p].device : p \in Calling'} = {call[p].device : p \in Calling}
      BY <1>3, <1>5
    <2>3. {call'[p].cached : p \in Calling'} = {call[p].cached : p \in Calling}
      BY <1>3, <1>5
    <2> QED BY <1>1, <2>1, <2>2, <2>3 DEF Held
  <1>8. Genuine'
    BY <1>1, <1>7, GenuineStays, DeviceNumbers DEF DeviceInv, DeviceBounds
  <1>9. RecognisedInv'
    <2>1. KnownHasRow'
      <3>1. \A k \in known' : k \in known /\ k[2] # rows[f].id
        BY <1>1
      <3> QED BY <1>2, <3>1 DEF DeviceInv, RecognisedInv, KnownHasRow
    <2>2. KnownDeviceIsNotNew'
      BY <1>1 DEF DeviceInv, RecognisedInv, KnownDeviceIsNotNew
    <2>3. ASSUME NEW p \in Calling PROVE Ready(call[p])' /\ FindsRow(call[p])'
      <3> DEFINE c == call[p]
                 n == call'[p]
      <3>0. /\ n.at = c.at /\ n.device = c.device /\ n.op = c.op /\ n.attrs = c.attrs /\ n.id = c.id
            /\ Ready(c)
        BY <1>3, BusyCalls
      <3>1. Ready(n)
        <4> HIDE DEF c, n
        <4> QED BY <3>0 DEF Ready
      <3> QED BY <1>3, <3>1 DEF Ready, FindsRow
    <2> QED BY <1>5, <2>1, <2>2, <2>3 DEF RecognisedInv
  <1>10. QuietInv'
    <2> SUFFICES ASSUME ~overlapped', failures' = 0
                 PROVE  /\ Alone'
                        /\ \A g \in Fingerprints : byFp'[g] # None => byId'[byFp'[g].id] # None
                        /\ (\A d \in Cached : Fresh(d) \/ Dropping(d))' /\ (\A q \in Calling : Knows(call[q]))'
      BY DEF QuietInv
    <2>1. /\ Alone /\ \A d \in Cached : Fresh(d) \/ Dropping(d)
          /\ \A g \in Fingerprints : byFp[g] # None => byId[byFp[g].id] # None
          /\ \A q \in Calling : Knows(call[q])
      BY <1>1 DEF DeviceInv, QuietInv
    <2>2. \A d \in Held : Fresh(d) => Fresh(d)'
      BY <1>2, HeldRows DEF Fresh
    <2>3. Cached' = Cached /\ Cached \subseteq Held
      BY <1>1, HeldRows DEF Cached
    <2>4. \A d \in Cached : Dropping(d) => Dropping(d)'
      BY <1>3, <1>5 DEF Dropping
    <2>5. ASSUME NEW q \in Calling PROVE Knows(call[q])'
      <3>1. call[q].at \in {"cacheSet", "cacheNew"} => call[q].device \in Held
        BY BusyCalls DEF Ready
      <3>2. Fingerprint[call[q].attrs] \in Fingerprints
        BY BusyCalls
      <3>3. call[q].at \in {"cacheSet", "cacheNew"} => Fresh(call[q].device)'
        BY <1>3, <2>1, <2>2, <3>1 DEF Knows, Fresh
      <3>4. call[q].at \in {"fuzzy", "register"} => rows'[Fingerprint[call[q].attrs]] = None
        BY <1>2, <2>1, <3>2 DEF Knows
      <3>5. call[q].at = "invalidateDel" => byId'[call[q].device.id] \in {None, call[q].cached}
        BY <1>1, <2>1 DEF Knows
      <3> DEFINE c == call[q]
                 n == call'[q]
      <3>6. n.at = c.at /\ n.device = c.device /\ n.cached = c.cached /\ n.attrs = c.attrs
        BY <1>3
      <3> QED BY <3>3, <3>4, <3>5, <3>6 DEF Knows, Fresh
    <2>6. Alone'
      BY <1>5, <2>1 DEF Alone
    <2> QED BY <1>1, <1>5, <2>1, <2>2, <2>3, <2>4, <2>5, <2>6
  <1> QED BY <1>6, <1>8, <1>9, <1>10 DEF DeviceInv

LEMMA NextDayStep ==
  ASSUME DeviceInv, NextDay
  PROVE  DeviceInv'
  <1>1. /\ UNCHANGED <<rows, lastId, byFp, byId, call, answers, offset, processed, known, overlapped, calls, failures>>
        /\ today' \in Calendar /\ today' > today /\ Cached = {} /\ Calling = {}
    BY DEF NextDay, table, redis, Calling
  <1>2. Calling' = Calling /\ Cached' = Cached
    BY <1>1 DEF Calling, Idle, Cached
  <1>3. Held' = Held
    BY <1>1, <1>2 DEF Held
  <1>4. Genuine'
    <2>1. today \in Nat /\ today' \in Nat
      BY <1>1, DeviceNumbers DEF DeviceInv, DeviceBounds
    <2>2. today <= today'
      BY <1>1, <2>1
    <2> QED BY <1>1, <1>3, <2>2, GenuineStays
  <1>5. DeviceShape' /\ DeviceBounds'
    BY <1>1 DEF DeviceInv, DeviceShape, DeviceBounds, Idle
  <1>6. RecognisedInv'
    BY <1>1, <1>2 DEF DeviceInv, RecognisedInv, KnownHasRow, KnownDeviceIsNotNew
  <1>7. QuietInv'
    BY <1>1, <1>2 DEF DeviceInv, QuietInv, Alone
  <1> QED BY <1>4, <1>5, <1>6, <1>7 DEF DeviceInv

LEMMA DeviceInitInv ==
  ASSUME DeviceInit PROVE DeviceInv
  <1>1. /\ rows = [f \in Fingerprints |-> None] /\ byFp = [f \in Fingerprints |-> None]
        /\ byId = [d \in DeviceIds |-> None] /\ call = [p \in Procs |-> None] /\ answers = {} /\ known = {}
    BY DEF DeviceInit
  <1>2. Calling = {}
    BY <1>1 DEF Calling, Idle
  <1>3. Held = {} /\ Cached = {}
    BY <1>1, <1>2 DEF Held, Cached
  <1>4. Genuine
    BY <1>3 DEF Genuine
  <1>5. DeviceShape
    BY <1>1 DEF DeviceShape
  <1>6. DeviceBounds
    <2>1. Idle(Kafka)
      BY <1>1 DEF Idle, Procs
    <2> QED BY <2>1, DeviceNumbers, DeviceAssumption DEF DeviceInit, DeviceBounds
  <1>7. RecognisedInv
    BY <1>1, <1>2 DEF RecognisedInv, KnownHasRow, KnownDeviceIsNotNew
  <1>8. QuietInv
    BY <1>1, <1>2, <1>3 DEF QuietInv, Alone
  <1> QED BY <1>4, <1>5, <1>6, <1>7, <1>8 DEF DeviceInv

LEMMA DeviceStep ==
  ASSUME DeviceInv, [DeviceNext]_deviceVars PROVE DeviceInv'
  <1>1. ASSUME NEW p \in Procs, Step(p) PROVE DeviceInv'
    <2>1. CASE EndCall(p)
      BY <2>1, EndStep
    <2>2. CASE ~EndCall(p)
      <3>1. p \in Calling
        BY <1>1, <2>2 DEF Step, CacheGet, FindExact, FindSimilar, CacheSet, Update, InvalidateGet, InvalidateDel,
                          Register, CacheNew, IdCacheGet, Select, At, Calling
      <3> QED BY <1>1, <2>2, <3>1, LookStep, SetStep, DropStep, UpdateStep, RegisterStep DEF Step
    <2> QED BY <2>1, <2>2
  <1>2. CASE UNCHANGED deviceVars
    <2>1. /\ UNCHANGED <<table, redis, call, answers, processed, today, known, overlapped, calls, failures>>
          /\ UNCHANGED <<rows, lastId, byFp, byId, offset>>
      BY <1>2 DEF deviceVars, table, redis
    <2>2. DeviceBounds'
      BY <2>1 DEF DeviceInv, DeviceBounds, Idle
    <2> QED BY <2>1, <2>2, PositionStep
  <1>3. ASSUME NEW p \in Procs, Request(p) \/ RedisFails(p) \/ TableFails(p) PROVE DeviceInv'
    BY <1>3, BeginStep, RedisFailsStep, TableFailsStep
  <1> QED BY <1>1, <1>2, <1>3, BeginStep, EndStep, NextDayStep, ExpireStep, PurgeStep DEF DeviceNext

LEMMA DeviceInvariance == DeviceSpec => []DeviceInv
  BY DeviceInitInv, DeviceStep, PTL DEF DeviceSpec

\* What the table, Redis and the calls under way hold has its type: every
\* device has an id that was given out and dates that are in order.
THEOREM DeviceTypeCorrect == DeviceSpec => []DeviceTypeOK
  <1>1. DeviceInv => DeviceTypeOK
    <2> SUFFICES ASSUME DeviceInv PROVE DeviceTypeOK
      OBVIOUS
    <2>1. Devices \subseteq Held
      BY DEF Devices, Cached, Held
    <2>2. \A p \in Procs : ~Idle(p) => call[p] \in CallRecords
      BY DEF DeviceInv, DeviceShape, Idle
    <2>3. \A d \in Devices : d \in DeviceRecords /\ d.id <= lastId /\ d.first <= d.seen /\ d.seen <= today
      BY <2>1 DEF DeviceInv, Genuine
    <2> QED BY <2>2, <2>3 DEF DeviceInv, DeviceShape, DeviceBounds, DeviceTypeOK
  <1> QED BY <1>1, DeviceInvariance, PTL

\* identify(): a fingerprint that was answered for, and whose device was not
\* purged since, is never answered isNew again, whatever Redis loses and
\* whoever runs beside the call; and calls that neither overlap nor lose a
\* Redis command leave no stale device in Redis.
THEOREM KnownDevicesAreRecognised == DeviceSpec => []DevicesAreRecognised
  <1>1. DeviceInv => DevicesAreRecognised
    <2> SUFFICES ASSUME DeviceInv PROVE DevicesAreRecognised
      OBVIOUS
    <2>1. KnownDeviceIsNotNew
      BY DEF DeviceInv, RecognisedInv
    <2>2. QuietCacheIsFresh
      BY DEF DeviceInv, QuietInv, QuietCacheIsFresh, Fresh, Dropping, Calling
    <2> QED BY <2>1, <2>2 DEF DevicesAreRecognised
  <1> QED BY <1>1, DeviceInvariance, PTL
-----------------------------------------------------------------------------
(* The enrichments of telco-intel-service *)

CopiesOf(i) == signalled[i] + letters[i]

\* A message at or after the consumer's position may get one copy more.
MayGet(i) == IF i >= at THEN 1 ELSE 0

\* Nothing more is due to a message: it had no value, its dead letter was given
\* up, or it was answered.
IsAnswered(i) ==
    /\ Enrichments[i].kind # "null"
    /\ Enrichments[i].kind = "empty" \/ i \in unsent \/ CopiesOf(i) > 0

\* Where the consumer is and what it may be at.
TelcoStateOK ==
    /\ at \in 1 .. Len(Enrichments) + 1 /\ committedAt \in 1 .. at
    /\ sending \in {"idle", "signal", "dead"} /\ unsent \subseteq Positions
    /\ sending # "idle" => at \in Positions /\ Enrichments[at].kind # "null"
    /\ signalled \in [Positions -> Nat] /\ letters \in [Positions -> Nat]
    /\ sendFaults \in Nat /\ telcoCrashes \in Nat

CopiesInv == \A i \in Positions : CopiesOf(i) + MayGet(i) <= 1 + sendFaults + telcoCrashes

PassedAreAnswered == \A i \in 1 .. at - 1 : IsAnswered(i)

TelcoInv == TelcoStateOK /\ CopiesInv /\ PassedAreAnswered

LEMMA TelcoPositions == Len(Enrichments) \in Nat /\ \A i \in Positions : Enrichments[i].kind \in Kinds
  <1>1. Enrichments \in Seq(Range(Enrichments))
    BY EnrichmentsAssumption
  <1>2. ASSUME NEW i \in Positions PROVE Enrichments[i] \in Range(Enrichments)
    BY <1>1 DEF Positions, Range
  <1> QED BY <1>1, <1>2, EnrichmentsAssumption

LEMMA TelcoStateStep == TelcoStateOK /\ [TelcoNext]_telcoVars => TelcoStateOK'
  <1> SUFFICES ASSUME TelcoStateOK, [TelcoNext]_telcoVars PROVE TelcoStateOK'
    OBVIOUS
  <1>1. /\ at \in 1 .. Len(Enrichments) + 1 /\ committedAt \in 1 .. at /\ Len(Enrichments) \in Nat
        /\ sending \in {"idle", "signal", "dead"} /\ unsent \subseteq 1 .. Len(Enrichments)
        /\ sending # "idle" => at \in 1 .. Len(Enrichments) /\ Enrichments[at].kind # "null"
    BY TelcoPositions DEF TelcoStateOK, Positions
  <1>2. /\ signalled \in [Positions -> Nat] /\ letters \in [Positions -> Nat]
        /\ sendFaults \in Nat /\ telcoCrashes \in Nat
    BY DEF TelcoStateOK
  <1>3. /\ at' \in 1 .. Len(Enrichments) + 1 /\ committedAt' \in 1 .. at'
        /\ sending' \in {"idle", "signal", "dead"} /\ unsent' \subseteq 1 .. Len(Enrichments)
        /\ sending' # "idle" => at' \in 1 .. Len(Enrichments) /\ Enrichments[at'].kind # "null"
    <2>1. CASE Handling
      BY <1>1, <2>1 DEF Handling, FirstSend, Enrichment, Positions
    <2>2. CASE PublishSignal \/ SendToDlq
      <3>1. /\ at \in 1 .. Len(Enrichments) /\ at' = at + 1 /\ sending' = "idle"
            /\ UNCHANGED <<committedAt, unsent>>
        BY <1>1, <2>2 DEF PublishSignal, SendToDlq, Over
      <3> QED BY <1>1, <3>1
    <2>3. CASE PublishFails
      BY <1>1, <2>3 DEF PublishFails
    <2>4. CASE SendToDlqFails
      BY <1>1, <2>4 DEF SendToDlqFails, Over
    <2>5. CASE CommitPosition
      BY <1>1, <2>5 DEF CommitPosition
    <2>7. CASE TelcoCrash
      <3>1. at' = committedAt /\ sending' = "idle" /\ UNCHANGED <<committedAt, unsent>>
        BY <2>7 DEF TelcoCrash
      <3> QED BY <1>1, <3>1
    <2>6. CASE UNCHANGED telcoVars
      BY <1>1, <2>6 DEF telcoVars
    <2> QED BY <2>1, <2>2, <2>3, <2>4, <2>5, <2>6, <2>7 DEF TelcoNext, Proceed
  <1>4. /\ signalled' \in [Positions -> Nat] /\ letters' \in [Positions -> Nat]
        /\ sendFaults' \in Nat /\ telcoCrashes' \in Nat
    <2>1. CASE UNCHANGED <<signalled, letters, sendFaults>> /\ telcoCrashes' \in {telcoCrashes, telcoCrashes + 1}
      BY <1>2, <2>1
    <2>2. ASSUME NEW f \in [Positions -> Nat], NEW n \in {0, 1} PROVE [f EXCEPT ![at] = @ + n] \in [Positions -> Nat]
      <3>1. \A p \in Positions : f[p] \in Nat /\ f[p] + n \in Nat
        BY <2>2
      <3> QED BY <3>1
    <2>3. CASE PublishSignal
      BY <1>2, <2>2, <2>3 DEF PublishSignal
    <2>4. CASE PublishFails
      BY <1>2, <2>2, <2>4 DEF PublishFails
    <2>5. CASE SendToDlq \/ SendToDlqFails
      BY <1>2, <2>2, <2>5 DEF SendToDlq, SendToDlqFails
    <2>6. CASE Handling \/ CommitPosition \/ TelcoCrash \/ UNCHANGED telcoVars
      BY <2>1, <2>6 DEF Handling, CommitPosition, TelcoCrash, telcoVars
    <2> QED BY <2>2, <2>3, <2>4, <2>5, <2>6 DEF TelcoNext, Proceed
  <1> QED BY <1>3, <1>4 DEF TelcoStateOK, Positions

\* What the steps do to the copies, to the position and to the budget.
TelcoMoves ==
    \/ UNCHANGED <<at, signalled, letters, unsent, sendFaults, telcoCrashes>>
    \/ /\ sending = "idle" /\ at \in Positions /\ Enrichments[at].kind # "null"
       /\ UNCHANGED <<signalled, letters, unsent, sendFaults, telcoCrashes>>
       /\ at' = at \/ (at' = at + 1 /\ Enrichments[at].kind = "empty")
    \/ /\ sending # "idle" /\ UNCHANGED telcoCrashes
       /\ \E reached \in {0, 1} :
             /\ \/ signalled' = [signalled EXCEPT ![at] = @ + reached] /\ UNCHANGED letters
                \/ letters' = [letters EXCEPT ![at] = @ + reached] /\ UNCHANGED signalled
             /\ \/ at' = at + 1 /\ reached = 1 /\ UNCHANGED <<sendFaults, unsent>>
                \/ at' = at + 1 /\ unsent' = unsent \union {at} /\ sendFaults' = sendFaults + 1
                \/ at' = at /\ UNCHANGED unsent /\ sendFaults' = sendFaults + 1
    \/ at' = committedAt /\ telcoCrashes' = telcoCrashes + 1 /\ UNCHANGED <<signalled, letters, unsent, sendFaults>>

LEMMA TelcoStepsMove == TelcoStateOK /\ [TelcoNext]_telcoVars => TelcoMoves
  <1> SUFFICES ASSUME TelcoStateOK, [TelcoNext]_telcoVars PROVE TelcoMoves
    OBVIOUS
  <1>1. CASE Handling
    <2>1. Enrichments[at].kind \in Kinds
      BY <1>1, TelcoPositions DEF Handling
    <2> QED BY <1>1, <2>1 DEF Handling, FirstSend, Enrichment, Kinds, TelcoMoves
  <1>2. CASE PublishSignal
    BY <1>2 DEF PublishSignal, Over, TelcoMoves
  <1>3. CASE PublishFails
    BY <1>3 DEF PublishFails, TelcoMoves
  <1>4. CASE SendToDlq
    BY <1>4 DEF SendToDlq, Over, TelcoMoves
  <1>5. CASE SendToDlqFails
    BY <1>5 DEF SendToDlqFails, Over, TelcoMoves
  <1>6. CASE TelcoCrash
    BY <1>6 DEF TelcoCrash, TelcoMoves
  <1>7. CASE CommitPosition \/ UNCHANGED telcoVars
    BY <1>7 DEF CommitPosition, telcoVars, TelcoMoves
  <1> QED BY <1>1, <1>2, <1>3, <1>4, <1>5, <1>6, <1>7 DEF TelcoNext, Proceed

LEMMA TelcoCopiesStep == TelcoStateOK /\ TelcoStateOK' /\ CopiesInv /\ TelcoMoves => CopiesInv'
  <1> SUFFICES ASSUME TelcoStateOK, TelcoStateOK', CopiesInv, TelcoMoves, NEW i \in Positions
               PROVE  (CopiesOf(i) + MayGet(i) <= 1 + sendFaults + telcoCrashes)'
    BY DEF CopiesInv
  <1>1. /\ i \in Nat /\ at \in Nat /\ at' \in Nat /\ committedAt <= at
        /\ signalled[i] \in Nat /\ letters[i] \in Nat /\ sendFaults \in Nat /\ telcoCrashes \in Nat
        /\ signalled[i] + letters[i] + MayGet(i) <= 1 + sendFaults + telcoCrashes
    <2>1. /\ at \in 1 .. Len(Enrichments) + 1 /\ at' \in 1 .. Len(Enrichments) + 1 /\ committedAt \in 1 .. at
          /\ i \in 1 .. Len(Enrichments) /\ Len(Enrichments) \in Nat
      BY TelcoPositions DEF TelcoStateOK, Positions
    <2>2. signalled[i] \in Nat /\ letters[i] \in Nat /\ sendFaults \in Nat /\ telcoCrashes \in Nat
      BY DEF TelcoStateOK
    <2>3. signalled[i] + letters[i] + MayGet(i) <= 1 + sendFaults + telcoCrashes
      BY DEF CopiesInv, CopiesOf
    <2> QED BY <2>1, <2>2, <2>3
  <1>2. CASE i = at /\ sending # "idle" /\ telcoCrashes' = telcoCrashes
      /\ \E reached \in {0, 1} :
             /\ \/ signalled' = [signalled EXCEPT ![at] = @ + reached] /\ UNCHANGED letters
                \/ letters' = [letters EXCEPT ![at] = @ + reached] /\ UNCHANGED signalled
             /\ \/ at' = at + 1 /\ reached = 1 /\ UNCHANGED <<sendFaults, unsent>>
                \/ at' = at + 1 /\ unsent' = unsent \union {at} /\ sendFaults' = sendFaults + 1
                \/ at' = at /\ UNCHANGED unsent /\ sendFaults' = sendFaults + 1
    <2>1. PICK reached \in {0, 1} :
             /\ \/ signalled' = [signalled EXCEPT ![at] = @ + reached] /\ UNCHANGED letters
                \/ letters' = [letters EXCEPT ![at] = @ + reached] /\ UNCHANGED signalled
             /\ \/ at' = at + 1 /\ reached = 1 /\ UNCHANGED <<sendFaults, unsent>>
                \/ at' = at + 1 /\ unsent' = unsent \union {at} /\ sendFaults' = sendFaults + 1
                \/ at' = at /\ UNCHANGED unsent /\ sendFaults' = sendFaults + 1
      BY <1>2
    <2>2. signalled'[i] + letters'[i] = signalled[i] + letters[i] + reached
      <3>1. CASE signalled' = [signalled EXCEPT ![at] = @ + reached] /\ UNCHANGED letters
        BY <1>1, <1>2, <3>1 DEF TelcoStateOK
      <3>2. CASE letters' = [letters EXCEPT ![at] = @ + reached] /\ UNCHANGED signalled
        BY <1>1, <1>2, <3>2 DEF TelcoStateOK
      <3> QED BY <2>1, <3>1, <3>2
    <2> QED BY <1>1, <1>2, <2>1, <2>2 DEF CopiesOf, MayGet
  <1>3. CASE i # at /\ sending # "idle" /\ telcoCrashes' = telcoCrashes
    <2>1. signalled'[i] = signalled[i] /\ letters'[i] = letters[i]
      BY <1>1, <1>3 DEF TelcoStateOK, TelcoMoves
    <2>2. (at' = at \/ at' = at + 1) /\ sendFaults' >= sendFaults
      BY <1>1, <1>3 DEF TelcoMoves
    <2>3. MayGet(i) \in {0, 1} /\ MayGet(i)' \in {0, 1} /\ MayGet(i)' <= MayGet(i)
      BY <1>1, <1>3, <2>2 DEF MayGet
    <2>4. sendFaults' \in Nat
      BY DEF TelcoStateOK
    <2> QED BY <1>1, <1>3, <2>1, <2>2, <2>3, <2>4 DEF CopiesOf
  <1>4. CASE signalled' = signalled /\ letters' = letters
    BY <1>1, <1>4 DEF CopiesOf, MayGet, TelcoMoves
  <1> QED BY <1>2, <1>3, <1>4 DEF TelcoMoves

LEMMA Behind ==
  ASSUME NEW l \in Nat, NEW p \in 1 .. l + 1, NEW i \in 1 .. p - 1
  PROVE  i \in 1 .. l /\ i < p
  OBVIOUS

LEMMA TelcoAnswersStep ==
  TelcoStateOK /\ TelcoStateOK' /\ PassedAreAnswered /\ TelcoMoves => PassedAreAnswered'
  <1> SUFFICES ASSUME TelcoStateOK, TelcoStateOK', PassedAreAnswered, TelcoMoves, NEW i \in Positions, i < at'
               PROVE  IsAnswered(i)'
    <2>1. ASSUME TelcoStateOK', NEW i \in 1 .. at' - 1 PROVE i \in Positions /\ i < at'
      <3>1. Len(Enrichments) \in Nat /\ at' \in 1 .. Len(Enrichments) + 1
        BY <2>1, TelcoPositions DEF TelcoStateOK
      <3> QED BY <3>1, Behind DEF Positions
    <2> QED BY <2>1 DEF PassedAreAnswered
  <1>1. /\ i \in Nat /\ i >= 1 /\ at \in Nat /\ at' \in Nat /\ committedAt <= at /\ committedAt \in Nat
        /\ signalled[i] \in Nat /\ letters[i] \in Nat /\ signalled'[i] \in Nat /\ letters'[i] \in Nat
        /\ sending # "idle" => Enrichments[at].kind # "null"
    BY TelcoPositions DEF TelcoStateOK, Positions
  <1>2. signalled'[i] >= signalled[i] /\ letters'[i] >= letters[i] /\ unsent \subseteq unsent'
    <2>1. CASE UNCHANGED <<signalled, letters, unsent>>
      BY <1>1, <2>1
    <2>2. ASSUME NEW reached \in {0, 1}, unsent \subseteq unsent',
                 \/ signalled' = [signalled EXCEPT ![at] = @ + reached] /\ UNCHANGED letters
                 \/ letters' = [letters EXCEPT ![at] = @ + reached] /\ UNCHANGED signalled
          PROVE  signalled'[i] >= signalled[i] /\ letters'[i] >= letters[i]
      BY <1>1, <2>2 DEF TelcoStateOK
    <2>3. CASE \E reached \in {0, 1} :
                   /\ \/ signalled' = [signalled EXCEPT ![at] = @ + reached] /\ UNCHANGED letters
                      \/ letters' = [letters EXCEPT ![at] = @ + reached] /\ UNCHANGED signalled
                   /\ unsent \subseteq unsent'
      BY <2>2, <2>3
    <2> QED BY <2>1, <2>3 DEF TelcoMoves
  <1>3. CASE i < at
    <2>1. IsAnswered(i)
      BY <1>1, <1>3 DEF PassedAreAnswered
    <2> QED BY <1>1, <1>2, <2>1 DEF IsAnswered, CopiesOf
  <1>4. CASE i >= at
    <2>1. at' = at + 1 /\ i = at
      BY <1>1, <1>4 DEF TelcoMoves
    <2>2. CASE sending = "idle"
      BY <1>1, <2>1, <2>2 DEF TelcoMoves, IsAnswered
    <2>3. CASE sending # "idle" /\ i \notin unsent'
      <3>1. \/ signalled' = [signalled EXCEPT ![at] = @ + 1]
            \/ letters' = [letters EXCEPT ![at] = @ + 1]
        BY <1>1, <2>1, <2>3 DEF TelcoMoves
      <3>2. signalled'[i] + letters'[i] > 0
        BY <1>1, <2>1, <3>1 DEF TelcoStateOK
      <3> QED BY <1>1, <2>1, <2>3, <3>2 DEF IsAnswered, CopiesOf
    <2>4. CASE sending # "idle" /\ i \in unsent'
      BY <1>1, <2>1, <2>4 DEF IsAnswered
    <2> QED BY <2>2, <2>3, <2>4
  <1> QED BY <1>1, <1>3, <1>4

LEMMA TelcoInvariance == TelcoSpec => []TelcoInv
  <1>1. TelcoInit => TelcoInv
    BY TelcoPositions DEF TelcoInit, TelcoInv, TelcoStateOK, CopiesInv, PassedAreAnswered, CopiesOf, MayGet,
                          Positions
  <1>2. TelcoInv /\ [TelcoNext]_telcoVars => TelcoInv'
    BY TelcoStateStep, TelcoStepsMove, TelcoCopiesStep, TelcoAnswersStep DEF TelcoInv
  <1> QED BY <1>1, <1>2, PTL DEF TelcoSpec

\* Behind the consumer of payguru.enrichment.events every message that has a
\* value was answered, by a signal or by a dead letter, unless the send of that
\* letter failed; and it is past no JSON null.  The safety half of
\* EnrichmentsAreAnswered, for any partition, failed sends and crashes.
THEOREM NoEnrichmentIsSwallowed ==
  TelcoSpec => [](\A i \in 1 .. at - 1 :
                      /\ Enrichments[i].kind # "null"
                      /\ Enrichments[i].kind # "empty" => i \in unsent \/ signalled[i] + letters[i] > 0)
  <1>1. TelcoInv => \A i \in 1 .. at - 1 :
                        /\ Enrichments[i].kind # "null"
                        /\ Enrichments[i].kind # "empty" => i \in unsent \/ signalled[i] + letters[i] > 0
    BY DEF TelcoInv, PassedAreAnswered, IsAnswered, CopiesOf
  <1> QED BY <1>1, TelcoInvariance, PTL

\* A prefix of one character is the first character.
LEMMA PrefixOfOne ==
  ASSUME NEW S, NEW s \in Seq(S), NEW c
  PROVE  IsPrefix(<<c>>, s) <=> Len(s) >= 1 /\ s[1] = c
  <1>1. Len(s) \in Nat
    OBVIOUS
  <1>2. Len(<<c>>) = 1 /\ SubSeq(<<c>>, 1, 1)[1] = c
    OBVIOUS
  <1>3. CASE Len(s) >= 1
    <2>1. s[1] = SubSeq(s, 1, 1)[1]
      BY <1>1, <1>3
    <2>2. ASSUME s[1] = c PROVE SubSeq(<<c>>, 1, 1) = SubSeq(s, 1, 1)
      <3>1. SubSeq(<<c>>, 1, 1) \in Seq({c}) /\ SubSeq(s, 1, 1) \in Seq(S)
        BY <1>1, <1>3, <2>2
      <3>2. Len(SubSeq(<<c>>, 1, 1)) = 1 /\ Len(SubSeq(s, 1, 1)) = 1
        BY <1>1, <1>3
      <3> QED BY <1>2, <2>1, <2>2, <3>1, <3>2, SeqEqual
    <2> QED BY <1>1, <1>2, <1>3, <2>1, <2>2 DEF IsPrefix
  <1> QED BY <1>1, <1>2, <1>3 DEF IsPrefix

LEMMA PrefixOfTwo ==
  ASSUME NEW S, NEW s \in Seq(S), NEW c, IsPrefix(<<c, c>>, s)
  PROVE  Len(s) >= 2 /\ s[1] = c
  <1>1. Len(s) \in Nat /\ Len(<<c, c>>) = 2
    OBVIOUS
  <1>2. Len(s) >= 2 /\ SubSeq(<<c, c>>, 1, 2) = SubSeq(s, 1, 2)
    BY <1>1 DEF IsPrefix
  <1>3. SubSeq(<<c, c>>, 1, 2)[1] = c
    OBVIOUS
  <1>4. SubSeq(s, 1, 2)[1] = s[1]
    BY <1>2
  <1> QED BY <1>2, <1>3, <1>4

\* A number whose first character is a digit other than zero is left as it is.
LEMMA NormalStays ==
  ASSUME NEW S, NEW n \in Seq(S), \A i \in DOMAIN n : n[i] \in Digits, Len(n) >= 1 => n[1] # "0"
  PROVE  normalize(n) = n
  <1>1. Len(n) \in Nat /\ DOMAIN n = 1 .. Len(n)
    OBVIOUS
  <1>2. Len(n) >= 1 => n[1] # "+"
    BY <1>1 DEF Digits
  <1>3. ~IsPrefix(<<"+">>, n) /\ ~IsPrefix(<<"0", "0">>, n) /\ ~IsPrefix(<<"0">>, n)
    BY <1>1, <1>2, PrefixOfOne, PrefixOfTwo
  <1> QED BY <1>3 DEF normalize

\* Normalizing once is normalizing for good: of any sequence of characters, the
\* number that normalize makes is one that it leaves as it is.
LEMMA NormalizeOnce ==
  ASSUME NEW S, NEW msisdn \in Seq(S)
  PROVE  normalize(normalize(msisdn)) = normalize(msisdn)
  <1> DEFINE plus == IF IsPrefix(<<"+">>, msisdn) THEN Tail(msisdn) ELSE msisdn
             zeros == IF IsPrefix(<<"0", "0">>, plus) THEN After(<<"0", "0">>, plus) ELSE plus
             local == IF IsPrefix(<<"0">>, zeros) THEN TR_COUNTRY_CODE \o Tail(zeros) ELSE zeros
  <1>1. plus \in Seq(S)
    BY PrefixOfOne
  <1>2. zeros \in Seq(S)
    <2> HIDE DEF plus
    <2>1. CASE IsPrefix(<<"0", "0">>, plus)
      <3>1. Len(plus) \in Nat /\ Len(plus) >= 2
        BY <1>1, <2>1, PrefixOfTwo
      <3>2. SubSeq(plus, 3, Len(plus)) \in Seq(S)
        BY <1>1, <3>1
      <3> QED BY <2>1, <3>2 DEF After
    <2> QED BY <1>1, <2>1
  <1>3. local \in Seq(S \union {"0", "9"}) /\ (Len(local) >= 1 => local[1] # "0")
    <2> HIDE DEF zeros
    <2>1. CASE IsPrefix(<<"0">>, zeros)
      <3>1. Len(zeros) >= 1 /\ Tail(zeros) \in Seq(S)
        BY <1>2, <2>1, PrefixOfOne
      <3>2. TR_COUNTRY_CODE \in Seq(S \union {"0", "9"}) /\ TR_COUNTRY_CODE[1] = "9" /\ Len(TR_COUNTRY_CODE) = 2
        BY DEF TR_COUNTRY_CODE
      <3>3. Tail(zeros) \in Seq(S \union {"0", "9"})
        BY <3>1
      <3>4. /\ TR_COUNTRY_CODE \o Tail(zeros) \in Seq(S \union {"0", "9"})
            /\ (TR_COUNTRY_CODE \o Tail(zeros))[1] = "9"
        <4>1. Len(Tail(zeros)) \in Nat
          BY <3>3
        <4> DEFINE rest == Tail(zeros)
        <4> HIDE DEF rest
        <4>2. rest \in Seq(S \union {"0", "9"}) /\ Len(rest) \in Nat
          BY <3>3, <4>1 DEF rest
        <4>3. /\ TR_COUNTRY_CODE \o rest \in Seq(S \union {"0", "9"})
              /\ \A i \in 1 .. 2 + Len(rest) :
                    (TR_COUNTRY_CODE \o rest)[i] = IF i <= 2 THEN TR_COUNTRY_CODE[i] ELSE rest[i - 2]
          <5> DEFINE T == S \union {"0", "9"}
          <5>1. TR_COUNTRY_CODE \in Seq(T) /\ rest \in Seq(T)
            BY <3>2, <4>2
          <5> HIDE DEF T
          <5>2. /\ TR_COUNTRY_CODE \o rest \in Seq(T)
                /\ \A i \in 1 .. Len(TR_COUNTRY_CODE) + Len(rest) :
                      (TR_COUNTRY_CODE \o rest)[i] =
                          IF i <= Len(TR_COUNTRY_CODE) THEN TR_COUNTRY_CODE[i] ELSE rest[i - Len(TR_COUNTRY_CODE)]
            BY <5>1, ConcatProperties, Zenon
          <5> QED BY <3>2, <5>2 DEF T
        <4>4. 1 \in 1 .. 2 + Len(rest)
          BY <4>2
        <4> QED BY <3>2, <4>3, <4>4 DEF rest
      <3> QED BY <2>1, <3>4
    <2>2. CASE ~IsPrefix(<<"0">>, zeros)
      <3>1. Len(zeros) >= 1 => zeros[1] # "0"
        BY <1>2, <2>2, PrefixOfOne
      <3>2. zeros \in Seq(S \union {"0", "9"})
        BY <1>2
      <3> QED BY <2>2, <3>1, <3>2
    <2> QED BY <2>1, <2>2
  <1>4. normalize(msisdn) = IF \A i \in DOMAIN local : local[i] \in Digits THEN local ELSE NoNumber
    BY DEF normalize
  <1> HIDE DEF local
  <1>5. CASE \A i \in DOMAIN local : local[i] \in Digits
    BY <1>3, <1>4, <1>5, NormalStays
  <1>6. CASE ~(\A i \in DOMAIN local : local[i] \in Digits)
    <2>1. normalize(<<>>) = <<>>
      <3> DEFINE none == <<>>
      <3>1. none \in Seq(S) /\ Len(none) = 0
        OBVIOUS
      <3> HIDE DEF none
      <3>2. DOMAIN none = {}
        BY <3>1
      <3>3. (\A i \in DOMAIN none : none[i] \in Digits) /\ (Len(none) >= 1 => none[1] # "0")
        BY <3>1, <3>2
      <3>4. normalize(none) = none
        BY <3>1, <3>3, NormalStays
      <3> QED BY <3>4 DEF none
    <2> QED BY <1>4, <1>6, <2>1 DEF NoNumber
  <1> QED BY <1>5, <1>6

\* The position never passes the partition's end, a message is answered at most
\* once more than sends failed and the consumer crashed, and a number that was
\* normalized stays as it is.
THEOREM TelcoTypeCorrect == TelcoSpec => []TelcoTypeOK
  <1>1. ASSUME NEW i \in Positions
        PROVE  /\ Enrichments[i].lineType \in {"none", "prepaid", "postpaid"}
               /\ Enrichments[i].msisdn \in Seq(Range(Enrichments[i].msisdn))
    <2>1. Enrichments \in Seq(Range(Enrichments))
      BY EnrichmentsAssumption
    <2>2. Enrichments[i] \in Range(Enrichments)
      BY <2>1 DEF Positions, Range
    <2> QED BY <2>2, EnrichmentsAssumption
  <1>2. ASSUME NEW i \in Positions
        PROVE  TelcoSignalOf(Enrichments[i]).lineType \in {"prepaid", "postpaid", "unknown"}
    BY <1>1 DEF TelcoSignalOf, LineType, PrefixLineType
  <1>3. ASSUME NEW i \in Positions
        PROVE  normalize(normalize(Enrichments[i].msisdn)) = normalize(Enrichments[i].msisdn)
    BY <1>1, NormalizeOnce
  <1>4. TelcoInv => TelcoTypeOK
    <2> SUFFICES ASSUME TelcoInv PROVE TelcoTypeOK
      OBVIOUS
    <2>1. ASSUME NEW i \in Positions PROVE signalled[i] + letters[i] <= 1 + sendFaults + telcoCrashes
      <3>1. /\ signalled[i] \in Nat /\ letters[i] \in Nat /\ MayGet(i) \in {0, 1}
            /\ sendFaults \in Nat /\ telcoCrashes \in Nat
            /\ signalled[i] + letters[i] + MayGet(i) <= 1 + sendFaults + telcoCrashes
        BY DEF TelcoInv, TelcoStateOK, CopiesInv, CopiesOf, MayGet
      <3> QED BY <3>1
    <2>2. /\ at \in 1 .. Len(Enrichments) + 1 /\ committedAt \in 1 .. at
          /\ sending \in {"idle", "signal", "dead"} /\ unsent \subseteq Positions
      BY DEF TelcoInv, TelcoStateOK
    <2> QED BY <1>2, <1>3, <2>1, <2>2 DEF TelcoTypeOK
  <1> QED BY <1>4, TelcoInvariance, PTL

-----------------------------------------------------------------------------
(* The baseline of behavioral-service *)

\* A decimal for each session to come: the average of a baseline can be taken
\* without a remainder.
Decimals(b, n) ==
    \E q, f, g \in Nat :
        Scale = q * TenTo[n] /\ b.fill = f * TenTo[n] /\ b.scroll = g * TenTo[n]

FillSpeed(s) == SpeedOf(s.fill)
ScrollSpeed(s) == SpeedOf(s.scroll)

AnalysisOK ==
    analysis # Missing =>
        analysis.risk \in 0 .. 90 /\ analysis.bot \in 0 .. 100 /\ analysis.ml \in 0 .. 100

BaselineOK(b) ==
    /\ b \in [samples : 0 .. MaxSessions, fill : Nat, scroll : Nat]
    /\ b.samples > 0 =>
          /\ Decimals(b, MaxSessions - b.samples + 1)
          /\ \E s, t \in Humans : FillSpeed(s) <= b.fill /\ b.fill <= FillSpeed(t)
          /\ \E s, t \in Humans : ScrollSpeed(s) <= b.scroll /\ b.scroll <= ScrollSpeed(t)

BehavioralInv == restarts \in 0 .. MaxRestarts /\ AnalysisOK /\ BaselineOK(baseline)

LEMMA BehavioralNumbers ==
  /\ MaxSessions \in Nat /\ MaxRestarts \in Nat
  /\ \A n \in 0 .. MaxSessions : TenTo[n] \in Nat /\ TenTo[n] > 0
  /\ Scale \in Nat /\ Scale > 0
  /\ \A s \in Shoppers : FillSpeed(s) \in Nat /\ ScrollSpeed(s) \in Nat
  <1>1. MaxSessions \in Nat /\ MaxRestarts \in Nat
    BY SessionsAssumption
  <1>2. \A n \in 0 .. MaxSessions : TenTo[n] \in Nat /\ TenTo[n] > 0
    BY PowersAssumption
  <1>3. Scale \in Nat /\ Scale > 0
    BY <1>1, <1>2 DEF Scale
  <1>4. ASSUME NEW s \in Shoppers PROVE FillSpeed(s) \in Nat /\ ScrollSpeed(s) \in Nat
    <2>1. (s.fill # Missing => s.fill \in Nat) /\ (s.scroll # Missing => s.scroll \in Nat)
      BY ShoppersAssumption
    <2> QED BY <1>3, <2>1 DEF FillSpeed, ScrollSpeed, SpeedOf
  <1> QED BY <1>1, <1>2, <1>3, <1>4

\* The moving average of multiples of ten lies between them.
LEMMA AverageIsBetween ==
  ASSUME NEW a \in Nat, NEW b \in Nat, NEW old, old = 10 * a, NEW new, new = 10 * b
  PROVE  /\ ema(old, new) = b + 9 * a
         /\ \/ old <= ema(old, new) /\ ema(old, new) <= new
            \/ new <= ema(old, new) /\ ema(old, new) <= old
  <1>1. old \div 10 = a /\ new \div 10 = b
    OBVIOUS
  <1> QED BY <1>1 DEF ema

LEMMA TensOut ==
  ASSUME NEW f \in Nat, NEW v \in Nat
  PROVE  f * v \in Nat /\ f * (10 * v) = 10 * (f * v) /\ f * (10 * v) = (10 * f) * v
  OBVIOUS

LEMMA UnitsOut ==
  ASSUME NEW f \in Nat, NEW w \in Nat, NEW v \in Nat
  PROVE  (w + 9 * f) * v = w * v + 9 * (f * v)
  OBVIOUS

\* A session of a person moves the averages within the speeds of people.
LEMMA AveragedStep ==
  ASSUME BaselineOK(baseline), baseline.samples < MaxSessions, NEW s \in Humans, baseline' = Averaged(s)
  PROVE  BaselineOK(baseline')
  <1>1. /\ s \in Shoppers /\ s.fill # Missing /\ s.scroll # Missing /\ s.fill \in Nat /\ s.scroll \in Nat
        /\ FillSpeed(s) = s.fill * Scale /\ ScrollSpeed(s) = s.scroll * Scale
    BY ShoppersAssumption DEF Humans, Anything, FillSpeed, ScrollSpeed, SpeedOf
  <1>2. FillSpeed(s) \in Nat /\ ScrollSpeed(s) \in Nat
    BY <1>1, BehavioralNumbers
  <1>3. /\ baseline \in [samples : 0 .. MaxSessions, fill : Nat, scroll : Nat]
        /\ baseline.samples \in 0 .. MaxSessions /\ baseline.fill \in Nat /\ baseline.scroll \in Nat
    BY DEF BaselineOK
  <1>4. CASE baseline.samples = 0
    <2>1. baseline' = [samples |-> 1, fill |-> FillSpeed(s), scroll |-> ScrollSpeed(s)]
      BY <1>4 DEF Averaged, FillSpeed, ScrollSpeed
    <2>2. baseline'.samples = 1 /\ baseline'.fill = FillSpeed(s) /\ baseline'.scroll = ScrollSpeed(s)
      BY <2>1
    <2>3. MaxSessions - 1 + 1 = MaxSessions /\ 1 \in 0 .. MaxSessions
      BY <1>3, BehavioralNumbers
    <2>4. Scale = 1 * TenTo[MaxSessions]
      BY BehavioralNumbers DEF Scale
    <2>5. Decimals(baseline', MaxSessions - baseline'.samples + 1)
      <3>1. Decimals(baseline', MaxSessions)
        BY <1>1, <2>2, <2>4 DEF Decimals, Scale
      <3> QED BY <2>2, <2>3, <3>1
    <2>6. baseline' \in [samples : 0 .. MaxSessions, fill : Nat, scroll : Nat]
      BY <1>2, <2>1, <2>3
    <2> QED BY <1>2, <2>2, <2>5, <2>6 DEF BaselineOK
  <1>5. CASE baseline.samples # 0
    <2> DEFINE n == MaxSessions - baseline.samples
               v == TenTo[n]
    <2>1. n \in 0 .. MaxSessions /\ n + 1 \in 1 .. MaxSessions /\ v \in Nat /\ TenTo[n + 1] = 10 * v
      <3>1. n \in 0 .. MaxSessions /\ n + 1 \in 1 .. MaxSessions /\ (n + 1) - 1 = n
        BY <1>3, <1>5, BehavioralNumbers
      <3>2. TenTo[n + 1] = 10 * TenTo[(n + 1) - 1]
        BY <3>1, PowersAssumption
      <3> QED BY <3>1, <3>2, BehavioralNumbers
    <2>2. Decimals(baseline, n + 1)
      BY <1>3, <1>5 DEF BaselineOK
    <2>3. baseline' = [samples |-> baseline.samples + 1,
                       fill    |-> ema(baseline.fill, FillSpeed(s)),
                       scroll  |-> ema(baseline.scroll, ScrollSpeed(s))]
      BY <1>5 DEF Averaged, FillSpeed, ScrollSpeed
    <2>4. /\ baseline'.samples = baseline.samples + 1
          /\ baseline'.fill = ema(baseline.fill, FillSpeed(s))
          /\ baseline'.scroll = ema(baseline.scroll, ScrollSpeed(s))
      BY <2>3
    <2> HIDE DEF v, n
    <2>5. PICK q \in Nat, f \in Nat, g \in Nat :
              Scale = q * (10 * v) /\ baseline.fill = f * (10 * v) /\ baseline.scroll = g * (10 * v)
      BY <2>1, <2>2 DEF Decimals
    <2>6. PICK w \in Nat, z \in Nat : w = s.fill * q /\ z = s.scroll * q
      BY <1>1
    <2>7. FillSpeed(s) = w * (10 * v) /\ ScrollSpeed(s) = z * (10 * v)
      BY <1>1, <2>1, <2>5, <2>6
    <2>8. PICK a \in Nat, b \in Nat, c \in Nat, d \in Nat : a = f * v /\ b = w * v /\ c = g * v /\ d = z * v
      BY <2>1, TensOut
    <2>9. /\ baseline.fill = 10 * a /\ FillSpeed(s) = 10 * b
           /\ baseline.scroll = 10 * c /\ ScrollSpeed(s) = 10 * d
      BY <2>1, <2>5, <2>7, <2>8, TensOut
    <2>10. /\ baseline'.fill = b + 9 * a /\ baseline'.scroll = d + 9 * c
           /\ \/ baseline.fill <= baseline'.fill /\ baseline'.fill <= FillSpeed(s)
              \/ FillSpeed(s) <= baseline'.fill /\ baseline'.fill <= baseline.fill
           /\ \/ baseline.scroll <= baseline'.scroll /\ baseline'.scroll <= ScrollSpeed(s)
              \/ ScrollSpeed(s) <= baseline'.scroll /\ baseline'.scroll <= baseline.scroll
      BY <2>4, <2>8, <2>9, AverageIsBetween
    <2>11. /\ baseline'.fill = (w + 9 * f) * v /\ baseline'.scroll = (z + 9 * g) * v
           /\ Scale = (10 * q) * v
      BY <2>1, <2>5, <2>8, <2>10, TensOut, UnitsOut
    <2>12. w + 9 * f \in Nat /\ z + 9 * g \in Nat /\ 10 * q \in Nat
      OBVIOUS
    <2>13. baseline'.fill \in Nat /\ baseline'.scroll \in Nat
      BY <2>8, <2>10
    <2>14. Decimals(baseline', MaxSessions - baseline'.samples + 1)
      <3>1. MaxSessions - baseline'.samples + 1 = n
        BY <1>3, <2>4, BehavioralNumbers DEF n
      <3>2. Decimals(baseline', n)
        BY <2>12, <2>11 DEF Decimals, v
      <3> QED BY <3>1, <3>2
    <2>15. \E lo, hi \in Humans : FillSpeed(lo) <= baseline'.fill /\ baseline'.fill <= FillSpeed(hi)
      <3>1. PICK lo \in Humans, hi \in Humans : FillSpeed(lo) <= baseline.fill /\ baseline.fill <= FillSpeed(hi)
        BY <1>3, <1>5 DEF BaselineOK
      <3>2. FillSpeed(lo) \in Nat /\ FillSpeed(hi) \in Nat
        BY BehavioralNumbers DEF Humans
      <3>3. \/ FillSpeed(lo) <= baseline'.fill /\ baseline'.fill <= FillSpeed(s)
            \/ FillSpeed(s) <= baseline'.fill /\ baseline'.fill <= FillSpeed(hi)
        BY <1>2, <1>3, <2>13, <2>10, <3>1, <3>2
      <3> QED BY <3>3
    <2>16. \E lo, hi \in Humans : ScrollSpeed(lo) <= baseline'.scroll /\ baseline'.scroll <= ScrollSpeed(hi)
      <3>1. PICK lo \in Humans, hi \in Humans :
                ScrollSpeed(lo) <= baseline.scroll /\ baseline.scroll <= ScrollSpeed(hi)
        BY <1>3, <1>5 DEF BaselineOK
      <3>2. ScrollSpeed(lo) \in Nat /\ ScrollSpeed(hi) \in Nat
        BY BehavioralNumbers DEF Humans
      <3>3. \/ ScrollSpeed(lo) <= baseline'.scroll /\ baseline'.scroll <= ScrollSpeed(s)
            \/ ScrollSpeed(s) <= baseline'.scroll /\ baseline'.scroll <= ScrollSpeed(hi)
        BY <1>2, <1>3, <2>13, <2>10, <3>1, <3>2
      <3> QED BY <3>3
    <2>17. baseline' \in [samples : 0 .. MaxSessions, fill : Nat, scroll : Nat]
      <3>1. baseline.samples + 1 \in 0 .. MaxSessions
        BY <1>3, BehavioralNumbers
      <3> QED BY <2>3, <2>4, <2>13, <3>1
    <2> QED BY <2>14, <2>15, <2>16, <2>17 DEF BaselineOK
  <1> QED BY <1>4, <1>5

\* A session is analysed, whoever it is of.
LEMMA AnalyzeStep ==
  ASSUME BehavioralInv, NEW s \in Shoppers, AnalyzeSession(s)
  PROVE  BehavioralInv'
  <1>1. SessionRisk(s.attributes) \in 0 .. 90
    BY DEF SessionRisk, Points
  <1>2. BotConfidence(s.attributes) \in Nat
    BY DEF BotConfidence, Points
  <1>3. UpTo(BotConfidence(s.attributes), 100) \in 0 .. 100
    BY <1>2 DEF UpTo
  <1>4. FillSpeed(s) \in Nat /\ ScrollSpeed(s) \in Nat /\ Scale \in Nat /\ Scale > 0
    BY BehavioralNumbers
  <1>5. baseline.samples \in Nat /\ baseline.fill \in Nat /\ baseline.scroll \in Nat
    BY DEF BehavioralInv, BaselineOK
  <1>6. AnomalyScore(s) \in Nat
    BY <1>4, <1>5 DEF AnomalyScore, FillSpeed, ScrollSpeed, Larger, Away
  <1>7. MlRisk(AnomalyScore(s)) \in 0 .. 100
    <2>1. ASSUME NEW x \in Nat, NEW y \in Nat, y > 0 PROVE x \div y \in Nat
      BY <2>1
    <2>2. 50 * AnomalyScore(s) + Scale \in Nat /\ 2 * Scale \in Nat /\ 2 * Scale > 0
      BY <1>4, <1>6
    <2>3. (50 * AnomalyScore(s) + Scale) \div (2 * Scale) \in Nat
      BY <2>1, <2>2
    <2> QED BY <2>3 DEF MlRisk, UpTo
  <1>8. heuristicScore(s) \in 0 .. 100
    BY DEF heuristicScore
  <1>9. analysis' = [risk |-> SessionRisk(s.attributes), bot |-> UpTo(BotConfidence(s.attributes), 100),
                     anomaly |-> IF UsedMl THEN AnomalyScore(s) ELSE 0,
                     ml |-> IF UsedMl THEN MlRisk(AnomalyScore(s)) ELSE heuristicScore(s),
                     usedMl |-> UsedMl]
    BY DEF AnalyzeSession
  <1>10. AnalysisOK'
    BY <1>1, <1>3, <1>7, <1>8, <1>9 DEF AnalysisOK
  <1>11. BaselineOK(baseline')
    <2>1. CASE IsHuman(s)
      BY <2>1, AveragedStep DEF AnalyzeSession, BehavioralInv, Humans, IsHuman, Anything
    <2>2. CASE ~IsHuman(s)
      BY <2>2 DEF AnalyzeSession, BehavioralInv
    <2> QED BY <2>1, <2>2
  <1>12. BaselineOK(baseline)'
    BY <1>11 DEF BaselineOK, Decimals, FillSpeed, ScrollSpeed, SpeedOf, Scale, Humans
  <1> QED BY <1>10, <1>12 DEF BehavioralInv, AnalyzeSession

LEMMA BehavioralInvariance == BehavioralSpec => []BehavioralInv
  <1>1. BaselineOK(NoBaseline)
    BY BehavioralNumbers DEF BaselineOK, NoBaseline
  <1>2. BehavioralInit => BehavioralInv
    BY <1>1, BehavioralNumbers DEF BehavioralInit, BehavioralInv, AnalysisOK
  <1>3. BehavioralInv /\ [BehavioralNext]_behavioralVars => BehavioralInv'
    <2> SUFFICES ASSUME BehavioralInv, [BehavioralNext]_behavioralVars PROVE BehavioralInv'
      OBVIOUS
    <2>1. CASE \E s \in Shoppers : AnalyzeSession(s)
      BY <2>1, AnalyzeStep
    <2>2. CASE RestartBehavioral
      <3>1. restarts' \in 0 .. MaxRestarts
        BY <2>2, BehavioralNumbers DEF RestartBehavioral, BehavioralInv
      <3> QED BY <1>1, <2>2, <3>1 DEF RestartBehavioral, BehavioralInv, AnalysisOK
    <2>3. CASE UNCHANGED behavioralVars
      BY <2>3 DEF behavioralVars, BehavioralInv, AnalysisOK
    <2> QED BY <2>1, <2>2, <2>3 DEF BehavioralNext
  <1> QED BY <1>2, <1>3, PTL DEF BehavioralSpec

\* The averages stay between the speeds of people: whatever bots send, in
\* whatever order with people's sessions and restarts, they never move a
\* merchant's baseline to where a bot looks normal; and every score keeps its
\* scale.
THEOREM BaselineStaysHuman == BehavioralSpec => []BehavioralTypeOK
  <1>1. BehavioralInv => BehavioralTypeOK
    BY DEF BehavioralInv, AnalysisOK, BaselineOK, BehavioralTypeOK, FillSpeed, ScrollSpeed
  <1> QED BY <1>1, BehavioralInvariance, PTL
=============================================================================
