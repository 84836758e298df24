------------------------------ MODULE SignalPath ------------------------------
(***************************************************************************)
(* decision-service: from the ids of a request to the answers of the signal *)
(* services, the scores, the risk factors, the verdict and its broadcast.   *)
(* The services answer what they compute from the requests this service     *)
(* really sends: the device path is one device-intel does not serve, and    *)
(* the bodies carry ids only, so some evidence is always missing.           *)
(***************************************************************************)
EXTENDS Integers, Sequences, FiniteSets, SequencesExt, Scoring, RiskScores

CONSTANTS
    NoSignal,           \* null: no id, no answer, an error status or a timeout
    NaN,                \* the result of arithmetic on an absent field
    VelocityCounts,     \* the transactions of an hour velocity-service may answer
    DeviceCounts,       \* the devices of a day it may answer
    Blocks, Reviews,    \* prior decisions of the entity
    Rules,              \* [rule id -> action] of default.rules
    ThrottleLimit,      \* broadcasts per window
    TimingBuffer,       \* fetch timings kept
    MaxDecisions        \* bound on decisions

\* The null and the NaN of JavaScript are no numbers and no answers.
ASSUME PathNulls ==
    /\ {NoSignal, NaN} \intersect Int = {} /\ NoSignal # NaN
ASSUME PathBounds ==
    /\ VelocityCounts \subseteq Nat /\ DeviceCounts \subseteq Nat
    /\ Blocks \subseteq Nat /\ Reviews \subseteq Nat
    /\ ThrottleLimit \in Nat /\ TimingBuffer \in Nat /\ MaxDecisions \in Nat

VARIABLES
    stage,              \* "idle", "asked", "fetched" or "scored"
    request,            \* the ids it carries
    bundle,             \* [signal -> answer or NoSignal]
    prior,              \* [blocks, reviews, lists]
    score,              \* [Signals -> number, NaN or NoSignal]
    verdict,            \* [score, action, factors, rules] or NoSignal
    feed,               \* the last broadcast of this window
    emitted,            \* emitCount
    timings,            \* number of entries of fetchTimings
    decisions

pathVars == <<stage, request, bundle, prior, score, verdict, feed, emitted, timings, decisions>>

RequestIds == {"device", "session", "ip", "msisdn"}

NoBundle == [s \in Signals \union {"graph"} |-> NoSignal]

PathInit ==
    /\ stage = "idle" /\ request = {} /\ bundle = NoBundle
    /\ prior = [blocks |-> 0, reviews |-> 0, lists |-> {}]
    /\ score = [s \in Signals |-> NoSignal] /\ verdict = NoSignal
    /\ feed = NoSignal /\ emitted = 0 /\ timings = 0 /\ decisions = 0

-----------------------------------------------------------------------------
(* The answers *)

\* fetchDeviceSignal asks for /v1/fingerprint/devices/:id; device-intel
\* serves /v1/devices/:id, and its 404 is a null signal.
fetchDeviceSignal == {NoSignal}

\* The merchant's counters of the customer, and a burst; no ratio.
fetchVelocitySignal ==
    {NoSignal} \union [txCount1h : VelocityCounts, uniqueDevices24h : DeviceCounts, burstDetected : BOOLEAN]

\* The body has no behavioural attributes.
fetchBehavioralSignal ==
    {NoSignal} \union {[sessionRiskScore |-> SessionRisk(NoAttributes), isBot |-> IsBot(NoAttributes),
                        botProbability |-> UpTo(BotConfidence(NoAttributes), 100)]}

\* The body names the address "ip", which the service does not read; the
\* answer has an ipRiskScore, and neither riskScore nor geoMismatchScore.
fetchNetworkSignal ==
    {NoSignal} \union {[isTor |-> FALSE, isProxy |-> FALSE, isVpn |-> FALSE, isDatacenter |-> FALSE,
                        riskScore |-> 0, geoMismatchScore |-> 0, ipRiskScore |-> IpRisk(
                            [ip |-> "absent", datacenter |-> FALSE])]}

\* The body names the number "msisdn", which the service does not read; its
\* answer has no prepaidProbability.
fetchTelcoSignal ==
    {NoSignal} \union {[prepaidProbability |-> NaN, isPorted |-> FALSE, lineType |-> "unknown"]}

\* The request carries no account: graph-intel answers zeros.
fetchGraphContext ==
    {NoSignal} \union {[sharedDeviceCount |-> 0, fraudRingDetected |-> FALSE, fraudRingScore |-> 0]}

Answers ==
    [device     |-> IF "device" \in request THEN fetchDeviceSignal ELSE {NoSignal},
     velocity   |-> fetchVelocitySignal,
     behavioral |-> IF "session" \in request THEN fetchBehavioralSignal ELSE {NoSignal},
     network    |-> IF "ip" \in request THEN fetchNetworkSignal ELSE {NoSignal},
     telco      |-> IF "msisdn" \in request THEN fetchTelcoSignal ELSE {NoSignal},
     graph      |-> IF "device" \in request THEN fetchGraphContext ELSE {NoSignal}]

\* decide() up to the bundle: the prior decisions, then all fetches.
Begin(ids) ==
    /\ stage = "idle" /\ decisions < MaxDecisions
    /\ decisions' = decisions + 1
    /\ stage' = "asked" /\ request' = ids
    /\ \E blocks \in Blocks, reviews \in Reviews, lists \in SUBSET {"watchlist", "allowlist"} :
           prior' = [blocks |-> blocks, reviews |-> reviews, lists |-> lists]
    /\ bundle' = NoBundle /\ score' = [s \in Signals |-> NoSignal] /\ verdict' = NoSignal
    /\ UNCHANGED <<feed, emitted, timings>>

Fetch ==
    /\ stage = "asked"
    /\ \E device \in Answers.device, velocity \in Answers.velocity, behavioral \in Answers.behavioral,
          network \in Answers.network, telco \in Answers.telco, graph \in Answers.graph :
           bundle' = [device |-> device, velocity |-> velocity, behavioral |-> behavioral,
                      network |-> network, telco |-> telco, graph |-> graph]
    /\ stage' = "fetched"
    /\ timings' = UpTo(timings + 1, TimingBuffer)
    /\ UNCHANGED <<request, prior, score, verdict, feed, emitted, decisions>>

-----------------------------------------------------------------------------
(* Scores *)

\* Trust 0-100; an emulator adds 30 and up to 30 for its confidence (percent).
deviceRiskScore(d) ==
    Clamp(100 - d.trustScore + (IF d.isEmulator THEN 30 + (3 * d.emulatorConfidence) \div 10 ELSE 0))

velocityRiskScore(v) ==
    Clamp((IF v.txCount1h > 20 THEN 50 ELSE IF v.txCount1h > 10 THEN 30 ELSE Points(v.txCount1h > 5, 10))
          + (IF v.uniqueDevices24h > 5 THEN 20 ELSE Points(v.uniqueDevices24h > 2, 10))
          + Points(v.burstDetected, 20))

behavioralRiskScore(b) ==
    Clamp(b.sessionRiskScore + (IF b.isBot THEN 40 ELSE Points(b.botProbability > 70, 20)))

networkRiskScore(n) ==
    Clamp(n.riskScore + Points(n.isTor, 40) + Points(n.isProxy, 20) + Points(n.isVpn, 15)
          + Points(n.isDatacenter, 10) + Points(n.geoMismatchScore > 70, 15))

\* An absent probability makes the score NaN.
telcoRiskScore(t) ==
    IF t.prepaidProbability = NaN
      THEN NaN
      ELSE Clamp((2 * t.prepaidProbability) \div 5 + Points(t.isPorted, 20) + Points(t.lineType = "prepaid", 15))

ScoreOf(signal, answer) ==
    IF answer = NoSignal THEN NoSignal
    ELSE CASE signal = "device" -> deviceRiskScore(answer)
           [] signal = "velocity" -> velocityRiskScore(answer)
           [] signal = "behavioral" -> behavioralRiskScore(answer)
           [] signal = "network" -> networkRiskScore(answer)
           [] signal = "telco" -> telcoRiskScore(answer)

\* The filter of computeWeightedScore.
Available == {s \in Signals : score[s] \notin {NoSignal, NaN}}

ComputeScores ==
    /\ stage = "fetched"
    /\ score' = [s \in Signals |-> ScoreOf(s, bundle[s])]
    /\ stage' = "scored"
    /\ UNCHANGED <<request, bundle, prior, verdict, feed, emitted, timings, decisions>>

-----------------------------------------------------------------------------
(* Verdict *)

Factor(signal, contribution) == [signal |-> signal, contribution |-> contribution]

\* One factor per signal that answered, and one for an emulator or a burst;
\* a NaN contribution is served as null.
SignalFactors ==
    {Factor(s, score[s]) : s \in {t \in Signals : score[t] # NoSignal}}
        \union {Factor("isEmulator", UpTo(score.device + 20, 100)) :
                    d \in {e \in {bundle.device} \ {NoSignal} : e.isEmulator}}
        \union {Factor("burst", UpTo(score.velocity + 15, 100)) :
                    v \in {w \in {bundle.velocity} \ {NoSignal} : w.burstDetected}}

\* Factors added after the sort: prior decisions and lists.  The graph and
\* the sequence factors need flags that no answer carries.
AddedFactors ==
    (IF prior.blocks > 0 THEN <<Factor("previousBlocks", UpTo(5 * prior.blocks, 15))>> ELSE <<>>)
    \o (IF prior.reviews > 2 THEN <<Factor("previousReviews", UpTo(3 * (prior.reviews - 2), 10))>> ELSE <<>>)
    \o (IF "watchlist" \in prior.lists THEN <<Factor("watchlist", 20)>> ELSE <<>>)
    \o (IF prior.lists = {"allowlist"} THEN <<Factor("allowlist", -15)>> ELSE <<>>)

SortedFactors ==
    LET sortable == {f \in SignalFactors : f.contribution # NaN}
    IN  SetToSortSeq(sortable, LAMBDA f, g : f.contribution > g.contribution)
            \o SetToSeq(SignalFactors \ sortable)

Outcome(matched) ==
    IF \E r \in matched : Rules[r] = "BLOCK" THEN "BLOCK"
    ELSE IF \E r \in matched : Rules[r] = "REVIEW" THEN "REVIEW" ELSE "none"

\* Cached, saved and broadcast; a full window drops the broadcast.
Decide ==
    /\ stage = "scored"
    /\ \E matched \in SUBSET DOMAIN Rules :
           LET total == FinalScore(computeWeightedScore(Available, score), prior.blocks, prior.reviews, prior.lists)
               action == WithRules(computeAction(total), Outcome(matched))
               factors == SortedFactors \o AddedFactors
           IN  /\ verdict' = [score |-> total, action |-> action, factors |-> factors, rules |-> matched]
               /\ IF emitted >= ThrottleLimit
                    THEN UNCHANGED <<feed, emitted>>
                    ELSE /\ feed' = [action |-> action,
                                     top |-> {factors[i].signal : i \in 1 .. UpTo(Len(factors), 3)}]
                         /\ emitted' = emitted + 1
    /\ stage' = "idle"
    /\ UNCHANGED <<request, bundle, prior, score, timings, decisions>>

\* A second later the throttle counts from zero.
NewWindow ==
    /\ emitted > 0
    /\ emitted' = 0 /\ feed' = NoSignal
    /\ UNCHANGED <<stage, request, bundle, prior, score, verdict, timings, decisions>>

PathNext == (\E ids \in SUBSET RequestIds : Begin(ids)) \/ Fetch \/ ComputeScores \/ Decide \/ NewWindow
PathSpec == PathInit /\ [][PathNext]_pathVars
-----------------------------------------------------------------------------
(* Properties *)

PathTypeOK ==
    /\ stage \in {"idle", "asked", "fetched", "scored"} /\ request \subseteq RequestIds
    /\ emitted \in 0 .. ThrottleLimit
    /\ verdict # NoSignal => verdict.score \in 0 .. 100 /\ verdict.action \in Actions

\* Before prior decisions and lists are added, the score lies between the
\* lowest and the highest of the signals that did answer with a number: a
\* service that is down, or answers without the field that is read, neither
\* raises nor lowers it, and cannot make it NaN.
ScoreBetweenSignals ==
    stage = "scored" /\ Available # {} =>
        LET total == computeWeightedScore(Available, score)
        IN  /\ \E s \in Available : score[s] <= total
            /\ \E s \in Available : total <= score[s]

\* A verdict above what its score says names the rule that raised it, and a
\* verdict without any signal is never ALLOW unless the entity is allowlisted.
VerdictsAreExplained ==
    verdict # NoSignal /\ stage = "idle" =>
        /\ verdict.action # computeAction(verdict.score) =>
               \E r \in verdict.rules : Rules[r] = verdict.action
        /\ verdict.action = "ALLOW" /\ Available = {} => prior.lists = {"allowlist"}

\* A signal that is missing neither raises nor lowers the score, and a verdict
\* above its score names the rule that raised it.
VerdictsFollowSignals == ScoreBetweenSignals /\ VerdictsAreExplained
=============================================================================
