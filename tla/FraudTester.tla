------------------------------ MODULE FraudTester ------------------------------
(***************************************************************************)
(* fraud-tester: a server that runs battles one at a time.  A battle is an  *)
(* agent whose runner submits the events of its scenarios to an adapter and *)
(* sums the decisions up in a report.  Stopping is a request: the event     *)
(* under way ends first, while the server already accepts the next battle.  *)
(***************************************************************************)
EXTENDS Integers, Sequences, FiniteSets, SequencesExt

CONSTANTS
    Scenarios,          \* sequence of [events, expected, minimum (percent)]
    maxPollAttempts,    \* 30 in the code
    MaxEntries,         \* 100 in the code: battles the server remembers
    MaxBattles,         \* bound on battles started
    MaxTesterErrors     \* bound on submissions that fail

VARIABLES
    battles,            \* sequence of battles, oldest first: see NewBattle
    forgotten,          \* number of battles dropped from the front
    emitted,            \* [battle -> what its room was sent]
    stoppedAt,          \* history: [battle -> how much had been sent when it was first stopped]
    testerErrors

testerVars == <<battles, forgotten, emitted, stoppedAt, testerErrors>>

Decisions == {"ALLOW", "REVIEW", "BLOCK"}
Positive == {"REVIEW", "BLOCK"}
NotStopped == -1

-----------------------------------------------------------------------------
(* The catalogue: how many events of how many devices and users a scenario  *)
(* generates, and what is expected of the system; minRiskScore is not read. *)

deviceFarm      == [events |-> 50, devices |-> 1,  users |-> 50, expected |-> "BLOCK",  minimum |-> 80]
botCheckout     == [events |-> 50, devices |-> 1,  users |-> 50, expected |-> "BLOCK",  minimum |-> 85]
emulatorSpoof   == [events |-> 50, devices |-> 5,  users |-> 50, expected |-> "BLOCK",  minimum |-> 80]
simSwap         == [events |-> 50, devices |-> 1,  users |-> 1,  expected |-> "REVIEW", minimum |-> 75]
velocityEvasion == [events |-> 50, devices |-> 10, users |-> 10, expected |-> "REVIEW", minimum |-> 70]
emulatorBypass  == [events |-> 30, devices |-> 10, users |-> 30, expected |-> "ALLOW",  minimum |-> 0]
slowFraud       == [events |-> 24, devices |-> 8,  users |-> 24, expected |-> "REVIEW", minimum |-> 30]
botEvasion      == [events |-> 20, devices |-> 6,  users |-> 20, expected |-> "ALLOW",  minimum |-> 20]

DEFAULT_SCENARIOS == <<deviceFarm, botCheckout, velocityEvasion, emulatorSpoof, simSwap>>
CHAOS_SCENARIOS == <<deviceFarm, botCheckout>>
getScenarios(pattern) ==
    CASE pattern = "emulator-bypass" -> <<emulatorBypass>>
      [] pattern = "slow-fraud" -> <<slowFraud>>
      [] pattern = "bot-evasion" -> <<botEvasion>>
      [] OTHER -> <<emulatorBypass, slowFraud, botEvasion>>

-----------------------------------------------------------------------------
(* Adapters *)

\* MockAdapter, with risk scores in percent.
MockDecision(mode, risk) ==
    CASE mode = "always-block" -> "BLOCK"
      [] mode = "always-allow" -> "ALLOW"
      [] mode = "always-review" -> "REVIEW"
      [] OTHER -> IF risk > 70 THEN "BLOCK" ELSE IF risk > 40 THEN "REVIEW" ELSE "ALLOW"

\* GenericHttpAdapter: the words of other systems.
normalizeDecision(word) ==
    CASE word \in {"BLOCK", "DENY", "REJECT", "FRAUD"} -> "BLOCK"
      [] word \in {"REVIEW", "CHALLENGE", "MANUAL", "PENDING"} -> "REVIEW"
      [] OTHER -> "ALLOW"

\* What submitEvent may answer at once, by adapter; the SignalRisk one polls.
Immediate ==
    {MockDecision(mode, risk) : mode \in {"always-block", "always-review", "threshold"}, risk \in {10, 50, 90}}
        \union {normalizeDecision(word) : word \in {"DENY", "PENDING", "approved"}}

-----------------------------------------------------------------------------
(* DetectionReporter *)

Rate(part, whole) == IF whole = 0 THEN 0 ELSE (100 * part) \div whole
CountIn(results, set) == Cardinality({i \in DOMAIN results : results[i] \in set})

compute(results, scenario) ==
    LET hits  == CountIn(results, Positive)
        other == Len(results) - hits
        fraud == scenario.expected \in Positive
        tp    == IF fraud THEN hits ELSE 0
        fn    == IF fraud THEN other ELSE 0
    IN  [total |-> Len(results), tp |-> tp, fn |-> fn,
         fp |-> IF fraud THEN 0 ELSE hits, tn |-> IF fraud THEN 0 ELSE other,
         passed |-> Rate(tp, tp + fn) >= scenario.minimum]

NoResult == [total |-> 0, tp |-> 0, fn |-> 0, fp |-> 0, tn |-> 0, passed |-> FALSE]

Mean(rates) == IF rates = <<>> THEN 0 ELSE SumFunction(rates) \div Len(rates)

computeBattleReport(done) ==
    [tpr |-> Mean([i \in DOMAIN done |-> Rate(done[i].tp, done[i].tp + done[i].fn)]),
     fpr |-> Mean([i \in DOMAIN done |-> Rate(done[i].fp, done[i].fp + done[i].tn)])]

Submitted(done) == SumFunction([i \in DOMAIN done |-> done[i].total])

\* AdversarialAgent: more than half of the events got through.
adversarialSuccess(done) ==
    2 * SumFunction([i \in DOMAIN done |-> done[i].fn + done[i].tn]) > Submitted(done)

\* ChaosAgent: at least half of the events it meant to send were answered.
chaosSuccess(done, configs, scenarios) ==
    2 * Submitted(done) >= configs * scenarios * 50

-----------------------------------------------------------------------------
(* The server *)

\* agent: the status of the agent; told: the runner was asked to stop;
\* scenario, event: where the runner is; stage: "next", "submit", "poll" or "over".
NewBattle ==
    [status |-> "running", agent |-> "running", told |-> FALSE, scenario |-> 1, event |-> 0,
     stage |-> "next", attempts |-> 0, results |-> <<>>, done |-> <<>>, report |-> <<>>]

TesterInit ==
    /\ battles = <<>> /\ forgotten = 0 /\ emitted = <<>> /\ stoppedAt = <<>>
    /\ testerErrors = 0

Known == {b \in DOMAIN battles : b > forgotten}
Busy == \E b \in Known : battles[b].status = "running"

\* POST battles while none is running; otherwise the answer is 409.
AcceptBattle ==
    /\ ~Busy /\ Len(battles) < MaxBattles
    /\ battles' = Append(battles, NewBattle)
    /\ forgotten' = IF Cardinality(Known) + 1 > MaxEntries THEN forgotten + 1 ELSE forgotten
    /\ emitted' = Append(emitted, <<>>)
    /\ stoppedAt' = Append(stoppedAt, NotStopped)

\* POST battles/:id/stop: of a running battle or of one that is over.
StopEntry(b) == [battles[b] EXCEPT !.status = "stopped", !.agent = "stopped"]
StopOf(b) == [battles[b] EXCEPT !.status = "stopped", !.agent = "stopped", !.told = TRUE]
AcceptStop(b) ==
    /\ b \in Known
    /\ battles' = [battles EXCEPT ![b] = StopOf(b)]
    /\ stoppedAt' = [stoppedAt EXCEPT ![b] = IF @ = NotStopped THEN Len(emitted[b]) ELSE @]

-----------------------------------------------------------------------------
(* The agent and its runner; a battle that was forgotten still runs *)

ScenarioOf(b) == Scenarios[battles[b].scenario]
Become(b, new) == battles' = [battles EXCEPT ![b] = new]
Emit(b, kind) == emitted' = [emitted EXCEPT ![b] = Append(@, kind)]

NextEvent(b) ==
    LET x == battles[b]
    IN  /\ x.stage = "next" /\ ~x.told /\ x.event < ScenarioOf(b).events
        /\ Become(b, [x EXCEPT !.stage = "submit", !.event = @ + 1])
        /\ UNCHANGED <<forgotten, emitted, stoppedAt, testerErrors>>

Decided(b, decision) ==
    /\ Become(b, [battles[b] EXCEPT !.stage = "next", !.attempts = 0,
                                    !.results = Append(@, decision)])
    /\ Emit(b, "result")
    /\ UNCHANGED <<forgotten, stoppedAt, testerErrors>>

SubmitAnswered(b) ==
    /\ battles[b].stage = "submit"
    /\ \E decision \in Immediate : Decided(b, decision)

\* SignalRisk took the event, or answered 429: its decision is polled for.
SubmitAccepted(b) ==
    /\ battles[b].stage = "submit"
    /\ Become(b, [battles[b] EXCEPT !.stage = "poll"])
    /\ UNCHANGED <<forgotten, emitted, stoppedAt, testerErrors>>

\* An error, a timeout of the chaos wrapper or an injected failure: the event
\* counts for nothing.
SubmitFails(b) ==
    /\ battles[b].stage \in {"submit", "poll"}
    /\ testerErrors < MaxTesterErrors /\ testerErrors' = testerErrors + 1
    /\ Become(b, [battles[b] EXCEPT !.stage = "next", !.attempts = 0])
    /\ UNCHANGED <<forgotten, emitted, stoppedAt>>

PollFinds(b) ==
    /\ battles[b].stage = "poll" /\ battles[b].attempts < maxPollAttempts
    /\ \E decision \in Decisions : Decided(b, decision)

PollFindsNothing(b) ==
    /\ battles[b].stage = "poll" /\ battles[b].attempts < maxPollAttempts
    /\ Become(b, [battles[b] EXCEPT !.attempts = @ + 1])
    /\ UNCHANGED <<forgotten, emitted, stoppedAt, testerErrors>>

\* No decision in time counts as ALLOW.
PollGivesUp(b) ==
    /\ battles[b].stage = "poll" /\ battles[b].attempts = maxPollAttempts
    /\ Decided(b, "ALLOW")

\* The results of a scenario that ended, was stopped or whose generator threw.
ScenarioDone(b) ==
    LET x == battles[b]
    IN  /\ x.stage = "next" /\ (x.told \/ x.event = ScenarioOf(b).events)
        /\ x.scenario = Len(x.done) + 1
        /\ Become(b, [x EXCEPT !.done = Append(@, compute(x.results, ScenarioOf(b))),
                               !.results = <<>>, !.event = 0,
                               !.scenario = IF x.told THEN Len(Scenarios) + 1 ELSE @ + 1,
                               !.stage = IF x.told \/ x.scenario = Len(Scenarios) THEN "over" ELSE @])
        /\ Emit(b, "scenarioDone")
        /\ UNCHANGED <<forgotten, stoppedAt, testerErrors>>

ScenarioFails(b) ==
    LET x == battles[b]
    IN  /\ x.stage = "next" /\ ~x.told /\ testerErrors < MaxTesterErrors
        /\ testerErrors' = testerErrors + 1
        /\ Become(b, [x EXCEPT !.done = Append(@, NoResult), !.results = <<>>, !.event = 0,
                               !.scenario = @ + 1,
                               !.stage = IF x.scenario = Len(Scenarios) THEN "over" ELSE @])
        /\ UNCHANGED <<forgotten, emitted, stoppedAt>>

\* An agent that was stopped keeps its report to itself.
Finish(b) ==
    LET x == battles[b]
    IN  /\ x.stage = "over" /\ x.agent = "running"
        /\ Become(b, [x EXCEPT !.agent = "idle", !.status = "completed",
                               !.report = <<computeBattleReport(x.done)>>])
        /\ Emit(b, "complete")
        /\ UNCHANGED <<forgotten, stoppedAt, testerErrors>>

AgentStep(b) ==
    \/ NextEvent(b) \/ SubmitAnswered(b) \/ SubmitAccepted(b) \/ SubmitFails(b)
    \/ PollFinds(b) \/ PollFindsNothing(b) \/ PollGivesUp(b)
    \/ ScenarioDone(b) \/ ScenarioFails(b) \/ Finish(b)

TesterNext ==
    \/ AcceptBattle /\ UNCHANGED testerErrors
    \/ \E b \in DOMAIN battles :
          \/ AcceptStop(b) /\ UNCHANGED <<forgotten, emitted, testerErrors>>
          \/ AgentStep(b)

TesterSpec == TesterInit /\ [][TesterNext]_testerVars
-----------------------------------------------------------------------------
(* Properties *)

TesterTypeOK ==
    /\ \A b \in DOMAIN battles :
          LET x == battles[b]
          IN  /\ x.status \in {"running", "completed", "stopped"}
              /\ x.agent \in {"running", "stopped", "idle"}
              /\ x.stage \in {"next", "submit", "poll", "over"}
              /\ x.attempts \in 0 .. maxPollAttempts /\ Len(x.done) <= Len(Scenarios)
              /\ \A i \in DOMAIN x.done :
                    LET r == x.done[i] IN r.total = r.tp + r.fn + r.fp + r.tn
              /\ x.report # <<>> => x.report[1].tpr \in 0 .. 100 /\ x.report[1].fpr \in 0 .. 100
    /\ forgotten \in 0 .. Len(battles) /\ testerErrors \in 0 .. MaxTesterErrors

\* "The current event will finish, then no further events": once a battle was
\* stopped its room is sent at most one more result and never a report, also
\* while the next battle is already running; a battle that is not over when
\* it is stopped stays stopped.
StoppedIsOver ==
    \A b \in DOMAIN battles :
        stoppedAt[b] # NotStopped =>
            LET late == {i \in DOMAIN emitted[b] : i > stoppedAt[b]}
            IN  /\ Cardinality({i \in late : emitted[b][i] = "result"}) <= 1
                /\ \A i \in late : emitted[b][i] # "complete"
                /\ battles[b].status = "stopped"
=============================================================================
