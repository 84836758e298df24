---------------------------- MODULE SignalFetchers ----------------------------
(***************************************************************************)
(* decision-service: SignalFetcher.fetchAllSignals sends the fetches of a   *)
(* request in parallel, those of one signal behind a circuit breaker that   *)
(* all requests of the process share.  A fetch ends within the timeout of   *)
(* 150 ms; a breaker that opened skips its signal for 30 s.  What the       *)
(* signals say is not modelled here: DecisionPipeline lets every score      *)
(* occur.                                                                   *)
(***************************************************************************)
EXTENDS Naturals, FiniteSets

CONSTANTS
    Requests,   \* calls of fetchAllSignals that may run at the same time
    Fetches,    \* the fetches of a request that are modelled
    Offered     \* the sets of identifiers a request may carry

\* Every fetch of fetchAllSignals: five signals, the stateful context's three
\* velocity fetches, and the graph fetch, which has no breaker.
SignalFetches == {"device", "behavioral", "network", "telco", "velocity"}
StatefulFetches == {"customerVelocity", "deviceVelocity", "ipVelocity", "graph"}

Circuit(f) ==
    CASE f \in {"customerVelocity", "deviceVelocity", "ipVelocity"} -> "velocity"
      [] f = "graph" -> "none"
      [] OTHER -> f
Id(f) ==
    CASE f \in {"device", "deviceVelocity", "graph"} -> "deviceId"
      [] f = "behavioral" -> "sessionId"
      [] f \in {"network", "ipVelocity"} -> "ip"
      [] f = "telco" -> "msisdn"
      [] OTHER -> "entityId"

Ids == {"deviceId", "sessionId", "ip", "msisdn", "entityId"}
Circuits == {Circuit(f) : f \in Fetches} \ {"none"}

CIRCUIT_FAILURE_THRESHOLD == 3

ASSUME FetchesAssumption ==
    /\ IsFiniteSet(Requests) /\ IsFiniteSet(Fetches)
    /\ Fetches \subseteq SignalFetches \union StatefulFetches
ASSUME OfferedAssumption == Offered \subseteq {ids \in SUBSET Ids : "entityId" \in ids}

VARIABLES
    up,         \* [Circuits -> whether the service answers in time]
    circuits,   \* [Circuits -> consecutiveFailures, and openUntil: "none", "running" or "over"]
    ids,        \* [Requests -> the identifiers of the call under way, {} when there is none]
    inFlight,   \* [Requests -> its fetches that have not ended]
    outage      \* history: [Circuits -> fetches that failed since one succeeded, up to 3]

vars == <<up, circuits, ids, inFlight, outage>>

Closed == [failures |-> 0, openUntil |-> "none"]
FetchesOf(k) == {f \in Fetches : Circuit(f) = k}
Busy(k) == {rf \in Requests \X Fetches : rf[2] \in inFlight[rf[1]] /\ Circuit(rf[2]) = k}

Init ==
    /\ up \in [Circuits -> BOOLEAN]
    /\ circuits = [k \in Circuits |-> Closed]
    /\ ids = [r \in Requests |-> {}]
    /\ inFlight = [r \in Requests |-> {}]
    /\ outage = [k \in Circuits |-> 0]

\* A service goes down or comes back.
Toggle(k) ==
    /\ up' = [up EXCEPT ![k] = ~@]
    /\ UNCHANGED <<circuits, ids, inFlight, outage>>

\* 30 s pass.  Whatever was in flight when the breaker opened has ended long
\* before, and nothing of its signal started since.
Expire(k) ==
    /\ circuits[k].openUntil = "running"
    /\ Busy(k) = {}
    /\ circuits' = [circuits EXCEPT ![k].openUntil = "over"]
    /\ UNCHANGED <<up, ids, inFlight, outage>>

-----------------------------------------------------------------------------
(* The circuit breaker *)

NeverElapsed(c) == FALSE
Elapsed(c) == c.openUntil = "over"

NeverOpen(c) == FALSE
IsCircuitOpen(c) == c.openUntil # "none" /\ ~Elapsed(c)

\* isCircuitOpen resets a breaker whose 30 s are over.
HalfOpen(c) == IF Elapsed(c) THEN Closed ELSE c

CountReset(c) == [c EXCEPT !.failures = 0]
RecordSuccess(c) == Closed

RecordFailure(c) ==
    [failures  |-> c.failures + 1,
     openUntil |-> IF c.failures + 1 >= CIRCUIT_FAILURE_THRESHOLD THEN "running" ELSE c.openUntil]

-----------------------------------------------------------------------------
(* fetchAllSignals *)

\* The five signals go through their breakers with or without their
\* identifier; the stateful fetches are made only when there is one.
Made(f, carried) == f \in SignalFetches \/ Id(f) \in carried
Skipped(f) == Circuit(f) # "none" /\ IsCircuitOpen(circuits[Circuit(f)])

\* Everything up to the first await: all breakers are looked at, all fetches
\* sent.
FetchAllSignals(r) ==
    /\ ids[r] = {}
    /\ \E carried \in Offered :
         /\ ids' = [ids EXCEPT ![r] = carried]
         /\ inFlight' = [inFlight EXCEPT ![r] = {f \in Fetches : Made(f, carried) /\ ~Skipped(f)}]
    /\ circuits' = [k \in Circuits |-> HalfOpen(circuits[k])]
    /\ UNCHANGED <<up, outage>>

\* A fetch that has its identifier ends with a signal when the service
\* answers in time and with null when it does not; without the identifier
\* it is null at once, and withCircuitBreaker counts that as a failure.
Answered(r, f) == Id(f) \in ids[r] /\ (Circuit(f) = "none" \/ up[Circuit(f)])
Null(r, f) == Id(f) \notin ids[r] \/ Circuit(f) = "none" \/ ~up[Circuit(f)]

EndFetch(r, f) ==
    /\ f \in inFlight[r]
    /\ inFlight' = [inFlight EXCEPT ![r] = @ \ {f}]
    /\ \/ /\ Circuit(f) = "none"
          /\ UNCHANGED <<circuits, outage>>
       \/ /\ Circuit(f) # "none" /\ Answered(r, f)
          /\ circuits' = [circuits EXCEPT ![Circuit(f)] = RecordSuccess(@)]
          /\ outage' = [outage EXCEPT ![Circuit(f)] = 0]
       \/ /\ Circuit(f) # "none" /\ Null(r, f)
          /\ circuits' = [circuits EXCEPT ![Circuit(f)] = RecordFailure(@)]
          /\ outage' = [outage EXCEPT ![Circuit(f)] = IF @ = 3 THEN 3 ELSE @ + 1]
    /\ UNCHANGED <<up, ids>>

\* Promise.allSettled: the bundle is returned when every fetch has ended.
AllSettled(r) == inFlight[r] = {}

Return(r) ==
    /\ ids[r] # {} /\ AllSettled(r)
    /\ ids' = [ids EXCEPT ![r] = {}]
    /\ UNCHANGED <<up, circuits, inFlight, outage>>

-----------------------------------------------------------------------------
Next ==
    \/ \E k \in Circuits : Toggle(k) \/ Expire(k)
    \/ \E r \in Requests : FetchAllSignals(r) \/ Return(r) \/ \E f \in Fetches : EndFetch(r, f)

Spec == Init /\ [][Next]_vars

\* Fetches time out, promises continue and the clock runs; requests and the
\* services are not fair.
FairSpec ==
    /\ Spec
    /\ \A r \in Requests : WF_vars(Return(r)) /\ \A f \in Fetches : WF_vars(EndFetch(r, f))
    /\ \A k \in Circuits : WF_vars(Expire(k))
-----------------------------------------------------------------------------
(* Properties *)

TypeOK ==
    /\ up \in [Circuits -> BOOLEAN]
    /\ circuits \in [Circuits -> [failures : Nat, openUntil : {"none", "running", "over"}]]
    /\ ids \in [Requests -> Offered \union {{}}]
    /\ inFlight \in [Requests -> SUBSET Fetches]
    /\ \A r \in Requests : ids[r] = {} => inFlight[r] = {}
    /\ outage \in [Circuits -> 0 .. 3]

\* A service that keeps failing gets, between two windows of 30 s, no more
\* than the two fetches a closed breaker forgives and those that were in
\* flight when it opened; no later request adds to them.
LoadIsBounded ==
    \A k \in Circuits :
        circuits[k].failures + Cardinality(Busy(k))
            <= CIRCUIT_FAILURE_THRESHOLD - 1 + Cardinality(Requests) * Cardinality(FetchesOf(k))

\* A breaker is open only during an outage: since the last fetch of its
\* signal that succeeded, three have failed.  A late success of a fetch sent
\* before it opened closes it.
OpenOnlyDuringOutage ==
    \A k \in Circuits : circuits[k].openUntil # "none" => outage[k] = 3

\* A breaker locks no signal out: as long as requests keep coming, its
\* fetches are sent again, however the service behaves.
BreakerNeverLocksOut ==
    \A k \in Circuits :
        []<>(\E r \in Requests : ids[r] # {}) => []<>(Busy(k) # {})

=============================================================================
