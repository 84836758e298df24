------------------------------- MODULE Scoring -------------------------------
(***************************************************************************)
(* The arithmetic of decision-orchestrator.service.ts: how the signals, the *)
(* entity's prior decisions, its watchlist entries and the DSL rules become *)
(* a score and an action.  Scores are integers; the weights, given in the   *)
(* code as fractions of one, are percentages here, so a weighted average is *)
(* exact where the code rounds a double.                                    *)
(***************************************************************************)
EXTENDS Integers

Actions == {"ALLOW", "REVIEW", "BLOCK"}
ListTypes == {"denylist", "watchlist", "allowlist"}
RuleOutcomes == {"none", "REVIEW", "BLOCK", "error"}
Signals == {"device", "velocity", "behavioral", "network", "telco"}

BLOCK_THRESHOLD == 70
REVIEW_THRESHOLD == 40

AtMost(x, top) == IF x > top THEN top ELSE x
AtLeast(x, bottom) == IF x < bottom THEN bottom ELSE x
Clamp(x) == AtLeast(AtMost(x, 100), 0)

Weight ==
    [device |-> 35, velocity |-> 25, behavioral |-> 20, network |-> 15, telco |-> 5]

FullWeight(available) == 100

\* available: the signals that were fetched; score: their risk scores.
TotalWeight(available) ==
    LET w(s) == IF s \in available THEN Weight[s] ELSE 0
    IN  w("device") + w("velocity") + w("behavioral") + w("network") + w("telco")

WeightedSum(available, score) ==
    LET w(s) == IF s \in available THEN Weight[s] * score[s] ELSE 0
    IN  w("device") + w("velocity") + w("behavioral") + w("network") + w("telco")

\* Math.round(sum / total), halves up.
RoundedQuotient(sum, total) == (2 * sum + total) \div (2 * total)

computeWeightedScore(available, score) ==
    IF available = {}
      THEN 50
      ELSE Clamp(RoundedQuotient(WeightedSum(available, score), TotalWeight(available)))

computeAction(riskScore) ==
    IF riskScore >= BLOCK_THRESHOLD THEN "BLOCK"
    ELSE IF riskScore >= REVIEW_THRESHOLD THEN "REVIEW"
    ELSE "ALLOW"

\* Prior-decision memory (ADR-011).
WithBlockBoost(riskScore, blocks) ==
    IF blocks > 0 THEN AtMost(riskScore + AtMost(5 * blocks, 15), 100) ELSE riskScore
WithReviewBoost(riskScore, reviews) ==
    IF reviews > 2 THEN AtMost(riskScore + AtMost(3 * (reviews - 2), 10), 100) ELSE riskScore

\* Watchlist adjustment (FD-2): the watchlist wins over the allowlist.
WithLists(riskScore, lists) ==
    IF "watchlist" \in lists THEN AtMost(riskScore + 20, 100)
    ELSE IF "allowlist" \in lists THEN AtLeast(riskScore - 15, 0)
    ELSE riskScore

FinalScore(signalScore, blocks, reviews, lists) ==
    WithLists(WithReviewBoost(WithBlockBoost(signalScore, blocks), reviews), lists)

\* The DSL may only raise the threshold action; an evaluation error keeps it.
WithRules(action, rules) ==
    IF rules = "BLOCK" THEN "BLOCK"
    ELSE IF rules = "REVIEW" /\ action = "ALLOW" THEN "REVIEW"
    ELSE action

ScoredAction(signalScore, blocks, reviews, lists, rules) ==
    WithRules(computeAction(FinalScore(signalScore, blocks, reviews, lists)), rules)
=============================================================================
