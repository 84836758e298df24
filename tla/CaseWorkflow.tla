---------------------------- MODULE CaseWorkflow ----------------------------
(***************************************************************************)
(* case-service: the consumer of the decisions topic opens cases, analysts  *)
(* update them and send labels to state.labels, and checks for breached     *)
(* SLAs alert the webhook-service.  The checks are runs of checkBreaches    *)
(* that may overlap: setInterval does not wait for the previous one.        *)
(***************************************************************************)
EXTENDS Integers, Sequences, FiniteSets

CONSTANTS
    Decisions,      \* the topic's partition: [req, action, score]
    Checks,         \* runs of checkBreaches that may overlap
    Edits,          \* what an analyst's PATCH may carry: [status, resolution]
    MaxEdits,       \* bound: PATCH and bulk requests
    MaxFaults,      \* bound: errors of Postgres, Kafka and the webhook call
    MaxCrashes      \* bound: crashes of the service

Resolutions == {"FRAUD", "LEGITIMATE", "INCONCLUSIVE"}
Statuses == {"OPEN", "IN_REVIEW", "RESOLVED", "ESCALATED"}
Risky(d) == d.action \in {"REVIEW", "BLOCK"}
CaseIds == 1 .. Len(Decisions) * (MaxCrashes + 1)

ASSUME DecisionsAssumption ==
    Decisions \in Seq([req : Nat, action : {"ALLOW", "REVIEW", "BLOCK", "INVALID"}, score : 0 .. 100])
ASSUME EditsAssumption ==
    Edits \subseteq [status : Statuses \union {"keep"}, resolution : Resolutions \union {"none", "keep"}]
ASSUME CaseBoundsAssumption == MaxEdits \in Nat /\ MaxFaults \in Nat /\ MaxCrashes \in Nat

VARIABLES
    handled,        \* messages the running consumer has handled
    committed,      \* the group's committed offset
    dlq,            \* offsets sent to the dead-letter topic
    cases,          \* table cases, by id
    sends,          \* publishLabel promises under way
    labels,         \* the state.labels topic
    checks,         \* [Checks -> the breached cases to do, the one to alert]
    alerts,         \* alerts webhook-service got, by case
    edits, faults, crashes,
    quiet           \* history: the last PATCH of a case met no older publish of it, and its own was not lost

consumer == <<handled, committed, dlq>>
labelVars == <<sends, labels, quiet>>
slaVars == <<checks, alerts>>
vars == <<consumer, cases, labelVars, slaVars, edits, faults, crashes>>

Fault == faults < MaxFaults /\ faults' = faults + 1
NoFault == faults' = faults
Idle == [todo |-> {}, alerting |-> 0]

Init ==
    /\ handled = 0 /\ committed = 0 /\ dlq = {}
    /\ cases = <<>>
    /\ sends = {} /\ labels = <<>>
    /\ checks = [m \in Checks |-> Idle]
    /\ alerts = [c \in CaseIds |-> 0]
    /\ edits = 0 /\ faults = 0 /\ crashes = 0
    /\ quiet = [c \in CaseIds |-> TRUE]

-----------------------------------------------------------------------------
(* DecisionConsumerService *)

computePriority(score) == IF score >= 70 THEN "HIGH" ELSE IF score >= 50 THEN "MEDIUM" ELSE "LOW"

\* createFromDecision: a plain INSERT.
CreateFromDecision(d) ==
    cases' = Append(cases, [req |-> d.req, score |-> d.score, priority |-> computePriority(d.score),
                            status |-> "OPEN", resolution |-> "none",
                            overdue |-> FALSE, breached |-> FALSE])

\* A message that does not parse or lacks a field goes to the dead-letter
\* topic, an ALLOW is ignored, and an error of either write is logged only.
HandleDecision ==
    /\ handled < Len(Decisions)
    /\ handled' = handled + 1
    /\ LET d == Decisions[handled + 1]
       IN  \/ Risky(d) /\ CreateFromDecision(d) /\ NoFault /\ UNCHANGED dlq
           \/ d.action = "INVALID" /\ dlq' = dlq \union {handled + 1} /\ NoFault /\ UNCHANGED cases
           \/ d.action = "ALLOW" /\ NoFault /\ UNCHANGED <<dlq, cases>>
           \/ d.action # "ALLOW" /\ Fault /\ UNCHANGED <<dlq, cases>>
    /\ UNCHANGED <<committed, labelVars, slaVars, edits, crashes>>

CommitEverything == committed' = Len(Decisions)
CommitHandled == committed' = handled

CommitOffset ==
    /\ committed < handled
    /\ CommitHandled
    /\ UNCHANGED <<handled, dlq, cases, labelVars, slaVars, edits, faults, crashes>>

\* Label promises of a case, from the UPDATE of the row to the broker's answer.
Publishing(c) == \E s \in sends : s.case = c

\* The service dies and starts again from the committed offset.
Crash ==
    /\ crashes < MaxCrashes
    /\ crashes' = crashes + 1
    /\ handled' = committed
    /\ sends' = {}
    /\ checks' = [m \in Checks |-> Idle]
    /\ quiet' = [c \in CaseIds |-> quiet[c] /\ ~Publishing(c)]
    /\ UNCHANGED <<committed, dlq, cases, labels, alerts, edits, faults>>

-----------------------------------------------------------------------------
(* CaseService *)

EditedRow(row, e) ==
    [row EXCEPT !.status = IF e.status = "keep" THEN @ ELSE e.status,
                !.resolution = IF e.resolution = "keep" THEN @ ELSE e.resolution]

\* The label carries what the UPDATE returned, not what the request carried.
RequestedRow(row, e) == [row EXCEPT !.resolution = IF e.resolution = "keep" THEN "none" ELSE e.resolution]
LabelledRow(row, e) == EditedRow(row, e)

\* updateCase: any PATCH of a row that has a resolution publishes it (again);
\* the promise is not awaited.
UpdateCase(c, e) ==
    /\ edits < MaxEdits
    /\ edits' = edits + 1
    /\ cases' = [cases EXCEPT ![c] = EditedRow(@, e)]
    /\ LET resolution == LabelledRow(cases[c], e).resolution
       IN  sends' = IF resolution = "none" THEN sends
                    ELSE sends \union {[nr |-> edits', case |-> c, resolution |-> resolution]}
    /\ quiet' = [quiet EXCEPT ![c] = ~Publishing(c)]
    /\ UNCHANGED <<consumer, labels, slaVars, faults, crashes>>

BulkRow(row, action) ==
    CASE action = "RESOLVE"  -> [row EXCEPT !.status = "RESOLVED", !.resolution = "INCONCLUSIVE"]
      [] action = "ESCALATE" -> [row EXCEPT !.status = "ESCALATED"]
      [] action = "ASSIGN"   -> [row EXCEPT !.status = "IN_REVIEW"]

\* bulkAction updates the rows in one statement and publishes nothing.
BulkAction(ids, action) ==
    /\ edits < MaxEdits
    /\ edits' = edits + 1
    /\ cases' = [c \in DOMAIN cases |-> IF c \in ids THEN BulkRow(cases[c], action) ELSE cases[c]]
    /\ UNCHANGED <<consumer, labelVars, slaVars, faults, crashes>>

\* publishLabel: promises end in any order; not connected, or a send that
\* fails for good: no label.  When only the answer is lost the label is
\* appended and KafkaJS sends it again.
PublishLabel(s) ==
    /\ \/ /\ labels' = Append(labels, s)
          /\ sends' = sends \ {s}
          /\ NoFault /\ UNCHANGED quiet
       \/ /\ labels' = Append(labels, s)
          /\ Fault /\ UNCHANGED <<sends, quiet>>
       \/ /\ sends' = sends \ {s}
          /\ quiet' = [quiet EXCEPT ![s.case] = FALSE]
          /\ Fault /\ UNCHANGED labels
    /\ UNCHANGED <<consumer, cases, slaVars, edits, crashes>>

-----------------------------------------------------------------------------
(* SlaMonitorService *)

\* The clock passes sla_deadline.
PassDeadline(c) ==
    /\ ~cases[c].overdue
    /\ cases' = [cases EXCEPT ![c].overdue = TRUE]
    /\ UNCHANGED <<consumer, labelVars, slaVars, edits, faults, crashes>>

\* findBreachedCases: status != 'CLOSED' holds of every status there is.
BreachedCases == {c \in DOMAIN cases : cases[c].overdue /\ ~cases[c].breached}

FindBreached(m) ==
    /\ checks[m] = Idle
    /\ BreachedCases # {}
    /\ checks' = [checks EXCEPT ![m].todo = BreachedCases]
    /\ UNCHANGED <<consumer, cases, labelVars, alerts, edits, faults, crashes>>

MarkTogether(m) ==
    /\ checks[m].alerting = 0
    /\ \E c \in checks[m].todo :
         /\ cases' = [k \in DOMAIN cases |->
                IF k \in checks[m].todo THEN [cases[k] EXCEPT !.breached = TRUE] ELSE cases[k]]
         /\ checks' = [checks EXCEPT ![m] = [todo |-> {}, alerting |-> c]]
    /\ UNCHANGED <<consumer, labelVars, alerts, edits, faults, crashes>>

\* markSlaBreached; the next case when it fails.
MarkBreached(m) ==
    /\ checks[m].alerting = 0
    /\ \E c \in checks[m].todo :
         \/ /\ cases' = [cases EXCEPT ![c].breached = TRUE]
            /\ checks' = [checks EXCEPT ![m] = [todo |-> @.todo \ {c}, alerting |-> c]]
            /\ NoFault
         \/ /\ checks' = [checks EXCEPT ![m].todo = @ \ {c}]
            /\ Fault
            /\ UNCHANGED cases
    /\ UNCHANGED <<consumer, labelVars, alerts, edits, crashes>>

\* sendAlert: an error, an error status or the 5 s timeout is logged only.
SendAlert(m) ==
    /\ checks[m].alerting # 0
    /\ \/ alerts' = [alerts EXCEPT ![checks[m].alerting] = @ + 1] /\ NoFault
       \/ UNCHANGED alerts /\ Fault
    /\ checks' = [checks EXCEPT ![m].alerting = 0]
    /\ UNCHANGED <<consumer, cases, labelVars, edits, crashes>>

-----------------------------------------------------------------------------
Check(m) == FindBreached(m) \/ MarkBreached(m) \/ SendAlert(m)

Next ==
    \/ HandleDecision \/ CommitOffset \/ Crash
    \/ \E c \in DOMAIN cases : PassDeadline(c) \/ \E e \in Edits : UpdateCase(c, e)
    \/ \E ids \in SUBSET DOMAIN cases \ {{}}, action \in {"RESOLVE", "ESCALATE", "ASSIGN"} :
         BulkAction(ids, action)
    \/ \E s \in sends : PublishLabel(s)
    \/ \E m \in Checks : Check(m)

Spec == Init /\ [][Next]_vars

\* KafkaJS keeps polling and committing, and the interval keeps firing.
FairSpec ==
    /\ Spec
    /\ WF_vars(HandleDecision) /\ WF_vars(CommitOffset)
    /\ \A m \in Checks : WF_vars(Check(m))
-----------------------------------------------------------------------------
(* Properties *)

Label == [nr : Nat, case : CaseIds, resolution : Resolutions]

TypeOK ==
    /\ handled \in 0 .. Len(Decisions) /\ committed \in 0 .. handled
    /\ dlq \subseteq 1 .. Len(Decisions)
    /\ cases \in Seq([req : Nat, score : 0 .. 100, priority : {"LOW", "MEDIUM", "HIGH"},
                      status : Statuses, resolution : Resolutions \union {"none"},
                      overdue : BOOLEAN, breached : BOOLEAN])
    /\ DOMAIN cases \subseteq CaseIds
    /\ sends \subseteq Label /\ labels \in Seq(Label)
    /\ checks \in [Checks -> [todo : SUBSET CaseIds, alerting : CaseIds \union {0}]]
    /\ alerts \in [CaseIds -> Nat]
    /\ quiet \in [CaseIds -> BOOLEAN]
    /\ edits \in 0 .. MaxEdits /\ faults \in 0 .. MaxFaults /\ crashes \in 0 .. MaxCrashes

HasCase(d) == \E c \in DOMAIN cases : cases[c].req = d.req

\* A REVIEW or BLOCK decision is never skipped: its case is opened, across
\* crashes, unless the INSERT itself failed.
RiskyDecisionsBecomeCases ==
    <>(faults > 0 \/ \A i \in DOMAIN Decisions : Risky(Decisions[i]) => HasCase(Decisions[i]))

LastLabel(c) ==
    LET of == {i \in DOMAIN labels : labels[i].case = c}
    IN  IF of = {} THEN "none" ELSE labels[CHOOSE i \in of : \A j \in of : j <= i].resolution

\* The topic catches up with the rows: publishes of one case that overlapped
\* may have left its labels in the wrong order, others were lost in a failure
\* or a crash or sent twice.  But whatever was before, once a PATCH of the
\* case, be it only of its status, met none of them under way and its own
\* label is through, the last label of the case in the topic is the FRAUD or
\* LEGITIMATE its row has: updateCase publishes what the row has, not what
\* the request changed.  (A bulk RESOLVE makes the row INCONCLUSIVE without
\* a label, a reopened row has no resolution: no list is to follow from either.)
LabelsCatchUp ==
    \A c \in DOMAIN cases :
        (quiet[c] /\ ~Publishing(c) /\ cases[c].resolution \in {"FRAUD", "LEGITIMATE"}) =>
            LastLabel(c) = cases[c].resolution

\* Every overdue case is alerted unless something failed on the way: a case
\* stays overdue and its alerts stay, so "all are alerted, again and again"
\* leaves none out.
OverdueCasesAreAlerted ==
    []<>(faults + crashes > 0 \/ \A c \in DOMAIN cases : cases[c].overdue => alerts[c] > 0)
=============================================================================
