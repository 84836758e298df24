-------------------------- MODULE BehavioralBaseline --------------------------
(***************************************************************************)
(* behavioral-service: a session is scored for risk, for being a bot and    *)
(* against the merchant's baseline, an exponential moving average of the    *)
(* sessions that were not bots, which is kept in memory.  Averages are in   *)
(* units of 1 / Scale.  A session brings one interval and one velocity, so  *)
(* every deviation the code averages is 1 and the z-score is a difference.  *)
(***************************************************************************)
EXTENDS RiskScores, Naturals

CONSTANTS
    Shoppers,               \* sessions: [attributes, fill, scroll], a speed or Missing
    Missing,
    MIN_SAMPLES_FOR_ML,     \* 10 in the code
    TenTo,                  \* the powers of ten: averages have a decimal for each session
    MaxSessions,            \* bound on sessions of a life of the service
    MaxRestarts             \* bound on restarts

ASSUME PowersAssumption ==
    /\ TenTo \in [0 .. MaxSessions -> Nat \ {0}] /\ TenTo[0] = 1
    /\ \A n \in 1 .. MaxSessions : TenTo[n] = 10 * TenTo[n - 1]
ASSUME ShoppersAssumption ==
    \A s \in Shoppers : {s.fill, s.scroll} \ {Missing} \subseteq Nat
ASSUME SessionsAssumption == {MIN_SAMPLES_FOR_ML, MaxSessions, MaxRestarts} \subseteq Nat

Scale == TenTo[MaxSessions]

VARIABLES
    baseline,               \* [samples, fill, scroll]; no sample: no baseline
    analysis,               \* the answer to the last session
    restarts

behavioralVars == <<baseline, analysis, restarts>>

NoBaseline == [samples |-> 0, fill |-> 0, scroll |-> 0]

BehavioralInit == baseline = NoBaseline /\ analysis = Missing /\ restarts = 0

\* mean() of at most one value.
SpeedOf(x) == IF x = Missing THEN 0 ELSE x * Scale
Away(a, b) == IF a > b THEN a - b ELSE b - a
Larger(a, b) == IF a > b THEN a ELSE b

ema(previous, current) == current \div 10 + 9 * (previous \div 10)

AnomalyScore(s) ==
    Larger(Away(SpeedOf(s.fill), baseline.fill), Away(SpeedOf(s.scroll), baseline.scroll))

\* z = 0 is no risk, z = 4 and more is 100.
MlRisk(anomaly) == UpTo((50 * anomaly + Scale) \div (2 * Scale), 100)

\* Before there are enough samples: more than three intervals never come.
heuristicScore(s) == IF SpeedOf(s.fill) < 30 * Scale THEN 90 ELSE 10

UsedMl == baseline.samples >= MIN_SAMPLES_FOR_ML

Anything(s) == s.fill # Missing /\ s.scroll # Missing
IsHuman(s) == ~IsBot(s.attributes) /\ s.fill # Missing /\ s.scroll # Missing

Averaged(s) ==
    IF baseline.samples = 0
      THEN [samples |-> 1, fill |-> SpeedOf(s.fill), scroll |-> SpeedOf(s.scroll)]
      ELSE [samples |-> baseline.samples + 1,
            fill    |-> ema(baseline.fill, SpeedOf(s.fill)),
            scroll  |-> ema(baseline.scroll, SpeedOf(s.scroll))]

AnalyzeSession(s) ==
    /\ baseline.samples < MaxSessions
    /\ analysis' = [risk    |-> SessionRisk(s.attributes),
                   bot     |-> UpTo(BotConfidence(s.attributes), 100),
                   anomaly |-> IF UsedMl THEN AnomalyScore(s) ELSE 0,
                   ml      |-> IF UsedMl THEN MlRisk(AnomalyScore(s)) ELSE heuristicScore(s),
                   usedMl  |-> UsedMl]
    /\ baseline' = IF IsHuman(s) THEN Averaged(s) ELSE baseline
    /\ UNCHANGED restarts

RestartBehavioral ==
    /\ restarts < MaxRestarts /\ restarts' = restarts + 1
    /\ baseline' = NoBaseline /\ analysis' = Missing

BehavioralNext == (\E s \in Shoppers : AnalyzeSession(s)) \/ RestartBehavioral
BehavioralSpec == BehavioralInit /\ [][BehavioralNext]_behavioralVars
-----------------------------------------------------------------------------
(* Properties *)

Humans == {s \in Shoppers : ~IsBot(s.attributes) /\ Anything(s)}

\* The type invariant.  The averages stay between the speeds of people: no
\* sequence of bots moves a baseline to where a bot looks normal.
BehavioralTypeOK ==
    /\ baseline.samples \in 0 .. MaxSessions /\ restarts \in 0 .. MaxRestarts
    /\ analysis # Missing =>
          analysis.risk \in 0 .. 90 /\ analysis.bot \in 0 .. 100 /\ analysis.ml \in 0 .. 100
    /\ baseline.samples > 0 =>
          /\ \E s, t \in Humans : SpeedOf(s.fill) <= baseline.fill /\ baseline.fill <= SpeedOf(t.fill)
          /\ \E s, t \in Humans :
                SpeedOf(s.scroll) <= baseline.scroll /\ baseline.scroll <= SpeedOf(t.scroll)
=============================================================================
