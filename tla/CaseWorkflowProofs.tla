--------------------------- MODULE CaseWorkflowProofs ---------------------------
(***************************************************************************)
(* Safety of the case workflow for any topic of decisions, any updates, any *)
(* number of overlapping SLA checks, faults and crashes.                    *)
(***************************************************************************)
EXTENDS CaseWorkflow, TLAPS

Row == [req : Nat, score : 0 .. 100, priority : {"LOW", "MEDIUM", "HIGH"},
        status : Statuses, resolution : Resolutions \union {"none"},
        overdue : BOOLEAN, breached : BOOLEAN]

\* A message opens one case in each life of the service at most.
CasesPerLife == Len(cases) <= handled + Len(Decisions) * crashes

\* Labels are of cases that exist.
LabelInv ==
    /\ \A s \in sends : s.case \in DOMAIN cases
    /\ \A i \in DOMAIN labels : labels[i].case \in DOMAIN cases

Inv == TypeOK /\ CasesPerLife /\ LabelInv

-----------------------------------------------------------------------------
LEMMA Product ==
  ASSUME NEW n \in Nat, NEW k \in Nat, NEW m \in Nat, k <= m
  PROVE  n * k \in Nat /\ n * k <= n * m /\ n * (k + 1) = n * k + n /\ n * (m + 1) = n * m + n
  <1>1. PICK d \in Nat : m = k + d
    <2>1. m - k \in Nat /\ m = k + (m - k)
      OBVIOUS
    <2> QED BY <2>1
  <1>2. n * m = n * k + n * d /\ n * d \in Nat /\ n * k \in Nat
    BY <1>1
  <1> QED BY <1>2

\* A row keeps its request and stays a row, whatever a PATCH carries.
LEMMA EditedRowType ==
  ASSUME NEW row \in Row, NEW e \in Edits
  PROVE  EditedRow(row, e) \in Row /\ EditedRow(row, e).req = row.req
         /\ EditedRow(row, e).overdue = row.overdue /\ EditedRow(row, e).breached = row.breached
  BY EditsAssumption DEF EditedRow, Row, Statuses, Resolutions

LEMMA BulkRowType ==
  ASSUME NEW row \in Row, NEW action \in {"RESOLVE", "ESCALATE", "ASSIGN"}
  PROVE  BulkRow(row, action) \in Row /\ BulkRow(row, action).req = row.req
         /\ BulkRow(row, action).overdue = row.overdue /\ BulkRow(row, action).breached = row.breached
  BY DEF BulkRow, Row, Statuses, Resolutions

LEMMA FlaggedRowType ==
  ASSUME NEW row \in Row
  PROVE  /\ [row EXCEPT !.overdue = TRUE] \in Row /\ [row EXCEPT !.overdue = TRUE].req = row.req
         /\ [row EXCEPT !.breached = TRUE] \in Row /\ [row EXCEPT !.breached = TRUE].req = row.req
  BY DEF Row

\* The table as a step leaves it: rows are added, none is removed, none
\* changes its request.
RowsKept ==
    /\ cases' \in Seq(Row) /\ DOMAIN cases \subseteq DOMAIN cases'
    /\ \A c \in DOMAIN cases : cases'[c].req = cases[c].req

LEMMA Updated ==
  ASSUME cases \in Seq(Row), NEW c \in DOMAIN cases, NEW row \in Row, row.req = cases[c].req,
         cases' = [cases EXCEPT ![c] = row]
  PROVE  RowsKept /\ DOMAIN cases' = DOMAIN cases
  BY DEF RowsKept

LEMMA NewRowType ==
  ASSUME NEW i \in 1 .. Len(Decisions)
  PROVE  [req |-> Decisions[i].req, score |-> Decisions[i].score, priority |-> computePriority(Decisions[i].score),
          status |-> "OPEN", resolution |-> "none", overdue |-> FALSE, breached |-> FALSE] \in Row
  <1> DEFINE D == [req : Nat, action : {"ALLOW", "REVIEW", "BLOCK", "INVALID"}, score : 0 .. 100]
  <1>0. Decisions \in Seq(D)
    BY DecisionsAssumption
  <1>1. Decisions[i] \in D
    <2> HIDE DEF D
    <2> QED BY <1>0
  <1> QED BY <1>1 DEF Row, computePriority, Statuses

\* What each step does to the table.
LEMMA TableStep ==
  ASSUME TypeOK, [Next]_vars
  PROVE  /\ RowsKept
         /\ \/ UNCHANGED cases
            \/ DOMAIN cases' = DOMAIN cases
            \/ HandleDecision /\ Len(cases') = Len(cases) + 1
  <1>0. cases \in Seq(Row) /\ \A c \in DOMAIN cases : cases[c] \in Row
    <2>1. cases \in Seq(Row)
      BY DEF TypeOK, Row
    <2> QED BY <2>1
  <1>1. ASSUME UNCHANGED cases PROVE RowsKept
    BY <1>0, <1>1 DEF RowsKept
  <1>2. ASSUME NEW i \in 1 .. Len(Decisions), CreateFromDecision(Decisions[i])
        PROVE  RowsKept /\ Len(cases') = Len(cases) + 1
    <2> DEFINE row == [req |-> Decisions[i].req, score |-> Decisions[i].score,
                       priority |-> computePriority(Decisions[i].score),
                       status |-> "OPEN", resolution |-> "none", overdue |-> FALSE, breached |-> FALSE]
    <2>1. row \in Row
      BY NewRowType
    <2>2. cases' = Append(cases, row)
      BY <1>2 DEF CreateFromDecision
    <2> HIDE DEF row
    <2> QED BY <1>0, <2>1, <2>2 DEF RowsKept
  <1>3. CASE HandleDecision
    <2>1. handled + 1 \in 1 .. Len(Decisions)
      BY <1>3, DecisionsAssumption DEF HandleDecision, TypeOK
    <2>2. CreateFromDecision(Decisions[handled + 1]) \/ UNCHANGED cases
      BY <1>3 DEF HandleDecision
    <2> QED BY <1>1, <1>2, <1>3, <2>1, <2>2
  <1>4. ASSUME NEW c \in DOMAIN cases, PassDeadline(c) PROVE RowsKept /\ DOMAIN cases' = DOMAIN cases
    <2>1. cases' = [cases EXCEPT ![c] = [cases[c] EXCEPT !.overdue = TRUE]]
      BY <1>4 DEF PassDeadline
    <2>2. [cases[c] EXCEPT !.overdue = TRUE] \in Row /\ [cases[c] EXCEPT !.overdue = TRUE].req = cases[c].req
      BY <1>0, FlaggedRowType
    <2> QED BY <1>0, <2>1, <2>2, Updated
  <1>5. ASSUME NEW c \in DOMAIN cases, NEW e \in Edits, UpdateCase(c, e)
        PROVE  RowsKept /\ DOMAIN cases' = DOMAIN cases
    <2>1. cases' = [cases EXCEPT ![c] = EditedRow(cases[c], e)]
      BY <1>5 DEF UpdateCase
    <2> QED BY <1>0, <2>1, EditedRowType, Updated
  <1>6. ASSUME NEW ids \in SUBSET DOMAIN cases, NEW action \in {"RESOLVE", "ESCALATE", "ASSIGN"},
               BulkAction(ids, action)
        PROVE  RowsKept /\ DOMAIN cases' = DOMAIN cases
    <2>1. cases' = [c \in DOMAIN cases |-> IF c \in ids THEN BulkRow(cases[c], action) ELSE cases[c]]
      BY <1>6 DEF BulkAction
    <2>2. \A c \in DOMAIN cases : cases'[c] \in Row /\ cases'[c].req = cases[c].req
      BY <1>0, <2>1, BulkRowType
    <2>3. DOMAIN cases = 1 .. Len(cases) /\ Len(cases) \in Nat
      BY <1>0
    <2>4. cases' \in [1 .. Len(cases) -> Row] /\ DOMAIN cases' = DOMAIN cases
      BY <2>1, <2>2, <2>3
    <2>5. cases' \in Seq(Row)
      BY <2>3, <2>4
    <2> QED BY <2>2, <2>4, <2>5 DEF RowsKept
  <1>7. ASSUME NEW m \in Checks, MarkBreached(m), ~UNCHANGED cases PROVE RowsKept /\ DOMAIN cases' = DOMAIN cases
    <2>1. PICK c \in CaseIds : c \in checks[m].todo /\ cases' = [cases EXCEPT ![c].breached = TRUE]
      BY <1>7 DEF MarkBreached, TypeOK
    <2>2. CASE c \in DOMAIN cases
      <3>1. cases' = [cases EXCEPT ![c] = [cases[c] EXCEPT !.breached = TRUE]]
        BY <2>1, <2>2
      <3>2. [cases[c] EXCEPT !.breached = TRUE] \in Row /\ [cases[c] EXCEPT !.breached = TRUE].req = cases[c].req
        BY <1>0, <2>2, FlaggedRowType
      <3> QED BY <1>0, <2>2, <3>1, <3>2, Updated
    <2>3. CASE c \notin DOMAIN cases
      <3>1. cases' = cases
        BY <1>0, <2>1, <2>3
      <3> QED BY <1>7, <3>1
    <2> QED BY <2>2, <2>3
  <1>8. ASSUME \/ CommitOffset \/ Crash
               \/ \E s \in sends : PublishLabel(s)
               \/ \E m \in Checks : FindBreached(m) \/ SendAlert(m)
               \/ UNCHANGED vars
        PROVE  UNCHANGED cases
    BY <1>8 DEF CommitOffset, Crash, PublishLabel, FindBreached, SendAlert, vars
  <1> QED BY <1>1, <1>2, <1>3, <1>4, <1>5, <1>6, <1>7, <1>8 DEF Next, Check

-----------------------------------------------------------------------------
LEMMA CaseIdsType ==
  ASSUME TypeOK, CasesPerLife
  PROVE  /\ Len(Decisions) \in Nat /\ Len(cases) \in Nat /\ DOMAIN cases = 1 .. Len(cases)
         /\ Len(cases) <= Len(Decisions) * (MaxCrashes + 1)
         /\ CaseIds = 1 .. Len(Decisions) * (MaxCrashes + 1)
  <1>1. Len(Decisions) \in Nat /\ MaxCrashes \in Nat
    BY DecisionsAssumption, CaseBoundsAssumption
  <1>2. cases \in Seq(Row)
    BY DEF TypeOK, Row
  <1>3. handled \in Nat /\ crashes \in Nat /\ handled <= Len(Decisions) /\ crashes <= MaxCrashes
    BY <1>1 DEF TypeOK
  <1> DEFINE P == Len(Decisions) * crashes
             Q == Len(Decisions) * MaxCrashes
  <1>4. P \in Nat /\ Q \in Nat /\ P <= Q /\ Len(Decisions) * (MaxCrashes + 1) = Q + Len(Decisions)
    BY <1>1, <1>3, Product
  <1>5. Len(cases) <= handled + P
    BY DEF CasesPerLife
  <1> HIDE DEF P, Q
  <1>6. Len(cases) \in Nat /\ DOMAIN cases = 1 .. Len(cases)
    BY <1>2
  <1>7. Len(cases) <= Len(Decisions) * (MaxCrashes + 1)
    BY <1>1, <1>3, <1>4, <1>5, <1>6
  <1> QED BY <1>1, <1>6, <1>7 DEF CaseIds

\* Neither a crash nor the messages after it give a case an id out of bounds.
LEMMA CasesStep == TypeOK /\ CasesPerLife /\ [Next]_vars => CasesPerLife'
  <1> SUFFICES ASSUME TypeOK, CasesPerLife, [Next]_vars PROVE CasesPerLife'
    OBVIOUS
  <1>1. cases \in Seq(Row) /\ cases' \in Seq(Row)
    BY TableStep DEF TypeOK, Row, RowsKept
  <1>2. Len(Decisions) \in Nat /\ handled \in Nat /\ committed \in Nat /\ handled <= Len(Decisions)
        /\ crashes \in Nat /\ Len(cases) \in Nat /\ Len(cases') \in Nat
    BY <1>1, DecisionsAssumption DEF TypeOK
  <1> DEFINE P == Len(Decisions) * crashes
  <1>3. P \in Nat /\ Len(Decisions) * (crashes + 1) = P + Len(Decisions) /\ Len(cases) <= handled + P
    BY <1>2, Product DEF CasesPerLife
  <1>4. CASE Crash
    <2>1. Len(cases') = Len(cases) /\ handled' = committed /\ crashes' = crashes + 1
      BY <1>4 DEF Crash
    <2>2. Len(Decisions) * crashes' = P + Len(Decisions)
      BY <1>3, <2>1
    <2> HIDE DEF P
    <2>3. Len(cases) <= committed + (P + Len(Decisions))
      BY <1>2, <1>3
    <2> QED BY <2>1, <2>2, <2>3 DEF CasesPerLife
  <1>5. CASE HandleDecision
    <2>1. handled' = handled + 1 /\ crashes' = crashes
      BY <1>5 DEF HandleDecision
    <2>2. Len(cases') = Len(cases) \/ Len(cases') = Len(cases) + 1
      <3>1. UNCHANGED cases \/ DOMAIN cases' = DOMAIN cases \/ Len(cases') = Len(cases) + 1
        BY TableStep
      <3> QED BY <1>1, <3>1
    <2> HIDE DEF P
    <2>3. Len(cases') <= handled' + P
      BY <1>2, <1>3, <2>1, <2>2
    <2> QED BY <2>1, <2>3 DEF CasesPerLife, P
  <1>6. CASE ~HandleDecision /\ ~Crash
    <2>1. UNCHANGED cases \/ DOMAIN cases' = DOMAIN cases
      BY <1>6, TableStep
    <2>2. Len(cases') = Len(cases)
      BY <1>1, <2>1
    <2>3. UNCHANGED <<handled, crashes>>
      BY <1>6 DEF Next, CommitOffset, PassDeadline, UpdateCase, BulkAction, PublishLabel, Check, FindBreached,
         MarkBreached, SendAlert, vars, consumer
    <2> QED BY <2>2, <2>3 DEF CasesPerLife
  <1> QED BY <1>4, <1>5, <1>6

LEMMA InitInv == Init => Inv
  <1> SUFFICES ASSUME Init PROVE Inv
    OBVIOUS
  <1>1. Len(Decisions) \in Nat /\ MaxEdits \in Nat /\ MaxFaults \in Nat /\ MaxCrashes \in Nat
    BY DecisionsAssumption, CaseBoundsAssumption
  <1> USE DEF Init
  <1>2. TypeOK
    <2>1. cases \in Seq(Row) /\ DOMAIN cases \subseteq CaseIds
      OBVIOUS
    <2>2. checks \in [Checks -> [todo : SUBSET CaseIds, alerting : CaseIds \union {0}]]
      BY DEF Idle
    <2> QED BY <1>1, <2>1, <2>2 DEF TypeOK, Row
  <1>3. CasesPerLife
    <2>1. Len(Decisions) * 0 = 0 /\ Len(cases) = 0
      BY <1>1
    <2> QED BY <2>1 DEF CasesPerLife
  <1>4. LabelInv
    BY DEF LabelInv
  <1> QED BY <1>2, <1>3, <1>4 DEF Inv

-----------------------------------------------------------------------------
(* Type correctness: the parts of TypeOK by what the step is about. *)

ChecksType == checks \in [Checks -> [todo : SUBSET CaseIds, alerting : CaseIds \union {0}]]
LabelsType ==
    /\ sends \subseteq Label /\ labels \in Seq(Label)
    /\ quiet \in [CaseIds -> BOOLEAN]
CountersType ==
    /\ handled \in 0 .. Len(Decisions) /\ committed \in 0 .. handled /\ dlq \subseteq 1 .. Len(Decisions)
    /\ edits \in 0 .. MaxEdits /\ faults \in 0 .. MaxFaults /\ crashes \in 0 .. MaxCrashes

LEMMA CountersStep == TypeOK /\ [Next]_vars => CountersType'
  <1> SUFFICES ASSUME TypeOK, [Next]_vars PROVE CountersType'
    OBVIOUS
  <1>1. Len(Decisions) \in Nat /\ MaxEdits \in Nat /\ MaxFaults \in Nat /\ MaxCrashes \in Nat
    BY DecisionsAssumption, CaseBoundsAssumption
  <1> USE <1>1 DEF TypeOK, CountersType, consumer, Fault, NoFault
  <1>2. CASE HandleDecision
    <2>1. /\ handled < Len(Decisions) /\ handled' = handled + 1
          /\ dlq' = dlq \/ dlq' = dlq \union {handled + 1}
          /\ UNCHANGED <<committed, edits, crashes>>
      BY <1>2 DEF HandleDecision
    <2>2. faults' = faults \/ (faults < MaxFaults /\ faults' = faults + 1)
      BY <1>2 DEF HandleDecision
    <2>3. /\ handled \in Nat /\ committed \in Nat /\ committed <= handled /\ dlq \subseteq 1 .. Len(Decisions)
          /\ handled + 1 \in 1 .. Len(Decisions) /\ handled + 1 \in 0 .. Len(Decisions)
          /\ committed \in 0 .. handled + 1
      BY <2>1
    <2>5. handled' \in 0 .. Len(Decisions) /\ committed' \in 0 .. handled' /\ dlq' \subseteq 1 .. Len(Decisions)
      BY <2>1, <2>3
    <2>4. faults' \in 0 .. MaxFaults
      BY <2>2
    <2> QED BY <2>1, <2>4, <2>5
  <1>3. CASE CommitOffset
    <2>1. UNCHANGED <<handled, dlq, edits, faults, crashes>> /\ committed' = handled
      BY <1>3 DEF CommitOffset, CommitHandled
    <2> QED BY <2>1
  <1>4. CASE Crash
    <2>1. /\ UNCHANGED <<committed, dlq, edits, faults>> /\ handled' = committed
          /\ crashes < MaxCrashes /\ crashes' = crashes + 1
      BY <1>4 DEF Crash
    <2>2. crashes' \in 0 .. MaxCrashes /\ handled' \in 0 .. Len(Decisions) /\ committed' \in 0 .. handled'
      BY <2>1
    <2> QED BY <2>1, <2>2
  <1>5. ASSUME NEW c \in DOMAIN cases, PassDeadline(c) PROVE CountersType'
    BY <1>5 DEF PassDeadline
  <1>6. ASSUME NEW c \in DOMAIN cases, NEW e \in Edits, UpdateCase(c, e) PROVE CountersType'
    <2>1. UNCHANGED <<handled, committed, dlq, faults, crashes>> /\ edits < MaxEdits /\ edits' = edits + 1
      BY <1>6 DEF UpdateCase
    <2>2. edits' \in 0 .. MaxEdits
      BY <2>1
    <2> QED BY <2>1, <2>2
  <1>7. ASSUME NEW ids, NEW action, BulkAction(ids, action) PROVE CountersType'
    <2>1. UNCHANGED <<handled, committed, dlq, faults, crashes>> /\ edits < MaxEdits /\ edits' = edits + 1
      BY <1>7 DEF BulkAction
    <2>2. edits' \in 0 .. MaxEdits
      BY <2>1
    <2> QED BY <2>1, <2>2
  <1>8. ASSUME NEW s \in sends, PublishLabel(s) PROVE CountersType'
    BY <1>8 DEF PublishLabel
  <1>9. ASSUME NEW m \in Checks, FindBreached(m) \/ MarkBreached(m) \/ SendAlert(m) PROVE CountersType'
    <2>1. UNCHANGED <<handled, committed, dlq, edits, crashes>>
      BY <1>9 DEF FindBreached, MarkBreached, SendAlert
    <2>2. faults' = faults \/ (faults < MaxFaults /\ faults' = faults + 1)
      BY <1>9 DEF FindBreached, MarkBreached, SendAlert
    <2>3. faults' \in 0 .. MaxFaults
      BY <2>2
    <2> QED BY <2>1, <2>3
  <1>10. CASE UNCHANGED vars
    BY <1>10 DEF vars
  <1> QED BY <1>2, <1>3, <1>4, <1>5, <1>6, <1>7, <1>8, <1>9, <1>10 DEF Next, Check

\* A PATCH of a row with a resolution publishes what it leaves there.
LEMMA UpdateCaseEffect ==
  ASSUME TypeOK, NEW c \in DOMAIN cases, NEW e \in Edits, UpdateCase(c, e)
  PROVE  /\ DOMAIN cases' = DOMAIN cases /\ cases'[c].resolution \in Resolutions \union {"none"}
         /\ \A d \in DOMAIN cases : d # c => cases'[d] = cases[d]
         /\ sends' = IF cases'[c].resolution = "none" THEN sends
                     ELSE sends \union {[nr |-> edits + 1, case |-> c, resolution |-> cases'[c].resolution]}
         /\ quiet' = [quiet EXCEPT ![c] = ~Publishing(c)] /\ UNCHANGED labels
  <1>1. cases \in Seq(Row)
    BY DEF TypeOK, Row
  <1>2. cases' = [cases EXCEPT ![c] = EditedRow(cases[c], e)]
    BY DEF UpdateCase
  <1>3. EditedRow(cases[c], e) \in Row
    BY <1>1, EditedRowType
  <1>4. /\ DOMAIN cases' = DOMAIN cases /\ cases'[c] = EditedRow(cases[c], e)
        /\ \A d \in DOMAIN cases : d # c => cases'[d] = cases[d]
    BY <1>2
  <1>5. cases'[c].resolution \in Resolutions \union {"none"}
    BY <1>3, <1>4 DEF Row
  <1>6. /\ sends' = IF cases'[c].resolution = "none" THEN sends
                     ELSE sends \union {[nr |-> edits + 1, case |-> c, resolution |-> cases'[c].resolution]}
        /\ quiet' = [quiet EXCEPT ![c] = ~Publishing(c)] /\ UNCHANGED labels
    BY <1>4 DEF UpdateCase, LabelledRow
  <1> QED BY <1>4, <1>5, <1>6

LEMMA LabelsTypeStep == TypeOK /\ [Next]_vars => LabelsType'
  <1> SUFFICES ASSUME TypeOK, [Next]_vars PROVE LabelsType'
    OBVIOUS
  <1>0. LabelsType /\ edits \in Nat /\ DOMAIN cases \subseteq CaseIds
    BY CaseBoundsAssumption DEF TypeOK, LabelsType
  <1>1. ASSUME UNCHANGED <<sends, labels, quiet>> PROVE LabelsType'
    BY <1>0, <1>1 DEF LabelsType
  <1>2. ASSUME NEW c \in DOMAIN cases, NEW e \in Edits, UpdateCase(c, e) PROVE LabelsType'
    <2> DEFINE resolution == cases'[c].resolution
               label == [nr |-> edits + 1, case |-> c, resolution |-> resolution]
    <2>1. /\ resolution \in Resolutions \union {"none"} /\ UNCHANGED labels
          /\ sends' = IF resolution = "none" THEN sends ELSE sends \union {label}
          /\ quiet' = [quiet EXCEPT ![c] = ~Publishing(c)]
      BY <1>2, UpdateCaseEffect
    <2>2. resolution # "none" => label \in Label
      BY <1>0, <2>1 DEF Label
    <2> HIDE DEF resolution, label
    <2>3. sends' \subseteq Label /\ labels' \in Seq(Label)
      BY <1>0, <2>1, <2>2 DEF LabelsType
    <2>4. quiet' \in [CaseIds -> BOOLEAN]
      <3>1. Publishing(c) \in BOOLEAN
        BY DEF Publishing
      <3> QED BY <1>0, <2>1, <3>1 DEF LabelsType
    <2> QED BY <2>3, <2>4 DEF LabelsType
  <1>3. ASSUME NEW s \in sends, PublishLabel(s) PROVE LabelsType'
    <2>1. /\ s \in Label /\ (sends' = sends \/ sends' = sends \ {s})
          /\ (UNCHANGED labels \/ labels' = Append(labels, s))
          /\ (UNCHANGED quiet \/ quiet' = [quiet EXCEPT ![s.case] = FALSE])
      BY <1>0, <1>3 DEF PublishLabel, LabelsType
    <2>2. sends' \subseteq Label /\ labels' \in Seq(Label)
      BY <1>0, <2>1 DEF LabelsType
    <2>3. quiet' \in [CaseIds -> BOOLEAN]
      BY <1>0, <2>1 DEF LabelsType
    <2> QED BY <2>2, <2>3 DEF LabelsType
  <1>4. CASE Crash
    <2>1. sends' = {} /\ UNCHANGED labels /\ quiet' = [c \in CaseIds |-> quiet[c] /\ ~Publishing(c)]
      BY <1>4 DEF Crash
    <2> QED BY <1>0, <2>1 DEF LabelsType
  <1>5. ASSUME \/ HandleDecision \/ CommitOffset
               \/ \E c \in DOMAIN cases : PassDeadline(c)
               \/ \E ids \in SUBSET DOMAIN cases, action \in {"RESOLVE", "ESCALATE", "ASSIGN"} : BulkAction(ids, action)
               \/ \E m \in Checks : FindBreached(m) \/ MarkBreached(m) \/ SendAlert(m)
               \/ UNCHANGED vars
        PROVE  UNCHANGED <<sends, labels, quiet>>
    BY <1>5 DEF HandleDecision, CommitOffset, PassDeadline, BulkAction, FindBreached, MarkBreached, SendAlert, vars, labelVars
  <1> QED BY <1>1, <1>2, <1>3, <1>4, <1>5 DEF Next, Check

LEMMA ChecksTypeStep == TypeOK /\ CasesPerLife /\ [Next]_vars => ChecksType' /\ alerts' \in [CaseIds -> Nat]
  <1> SUFFICES ASSUME TypeOK, CasesPerLife, [Next]_vars PROVE ChecksType' /\ alerts' \in [CaseIds -> Nat]
    OBVIOUS
  <1>0. /\ checks \in [Checks -> [todo : SUBSET CaseIds, alerting : CaseIds \union {0}]]
        /\ alerts \in [CaseIds -> Nat] /\ DOMAIN cases \subseteq CaseIds /\ Idle \in [todo : SUBSET CaseIds, alerting : CaseIds \union {0}]
        /\ CaseIds \subseteq Nat \ {0}
    <2>1. CaseIds \subseteq Nat \ {0}
      BY CaseIdsType
    <2>2. Idle \in [todo : SUBSET CaseIds, alerting : CaseIds \union {0}]
      BY DEF Idle
    <2> QED BY <2>1, <2>2 DEF TypeOK
  <1>1. ASSUME NEW m \in Checks, FindBreached(m) PROVE ChecksType' /\ alerts' \in [CaseIds -> Nat]
    <2>1. BreachedCases \subseteq CaseIds
      BY <1>0 DEF BreachedCases
    <2>2. [checks[m] EXCEPT !.todo = BreachedCases] \in [todo : SUBSET CaseIds, alerting : CaseIds \union {0}]
      BY <1>0, <2>1
    <2>3. checks' = [checks EXCEPT ![m] = [checks[m] EXCEPT !.todo = BreachedCases]] /\ UNCHANGED alerts
      BY <1>1 DEF FindBreached
    <2> QED BY <1>0, <2>2, <2>3 DEF ChecksType
  <1>2. ASSUME NEW m \in Checks, MarkBreached(m) PROVE ChecksType' /\ alerts' \in [CaseIds -> Nat]
    <2>1. PICK c \in checks[m].todo :
             \/ checks' = [checks EXCEPT ![m] = [todo |-> checks[m].todo \ {c}, alerting |-> c]]
             \/ checks' = [checks EXCEPT ![m] = [checks[m] EXCEPT !.todo = checks[m].todo \ {c}]]
      BY <1>2 DEF MarkBreached
    <2>2. checks[m].todo \subseteq CaseIds /\ c \in CaseIds
      BY <1>0
    <2>3. /\ [todo |-> checks[m].todo \ {c}, alerting |-> c] \in [todo : SUBSET CaseIds, alerting : CaseIds \union {0}]
          /\ [checks[m] EXCEPT !.todo = checks[m].todo \ {c}] \in [todo : SUBSET CaseIds, alerting : CaseIds \union {0}]
      BY <1>0, <2>2
    <2>4. UNCHANGED alerts
      BY <1>2 DEF MarkBreached
    <2> QED BY <1>0, <2>1, <2>3, <2>4 DEF ChecksType
  <1>3. ASSUME NEW m \in Checks, SendAlert(m) PROVE ChecksType' /\ alerts' \in [CaseIds -> Nat]
    <2>1. checks[m].alerting \in CaseIds
      BY <1>0, <1>3 DEF SendAlert
    <2>2. [checks[m] EXCEPT !.alerting = 0] \in [todo : SUBSET CaseIds, alerting : CaseIds \union {0}]
      BY <1>0
    <2>3. checks' = [checks EXCEPT ![m] = [checks[m] EXCEPT !.alerting = 0]]
      BY <1>3 DEF SendAlert
    <2>4. alerts' \in [CaseIds -> Nat]
      BY <1>0, <1>3, <2>1 DEF SendAlert
    <2> QED BY <1>0, <2>2, <2>3, <2>4 DEF ChecksType
  <1>4. CASE Crash
    BY <1>0, <1>4 DEF Crash, ChecksType
  <1>5. ASSUME \/ HandleDecision \/ CommitOffset
               \/ \E c \in DOMAIN cases : PassDeadline(c) \/ \E e \in Edits : UpdateCase(c, e)
               \/ \E ids \in SUBSET DOMAIN cases, action \in {"RESOLVE", "ESCALATE", "ASSIGN"} : BulkAction(ids, action)
               \/ \E s \in sends : PublishLabel(s)
               \/ UNCHANGED vars
        PROVE  UNCHANGED <<checks, alerts>>
    BY <1>5 DEF HandleDecision, CommitOffset, PassDeadline, BulkAction, UpdateCase, PublishLabel, vars, slaVars
  <1> QED BY <1>0, <1>1, <1>2, <1>3, <1>4, <1>5 DEF Next, Check, ChecksType

LEMMA TypeStep == TypeOK /\ CasesPerLife /\ [Next]_vars => TypeOK'
  <1> SUFFICES ASSUME TypeOK, CasesPerLife, [Next]_vars PROVE TypeOK'
    OBVIOUS
  <1>1. CountersType' /\ LabelsType' /\ ChecksType' /\ alerts' \in [CaseIds -> Nat] /\ CasesPerLife'
    BY CountersStep, LabelsTypeStep, ChecksTypeStep, CasesStep
  <1>2. cases' \in Seq(Row)
    BY TableStep DEF RowsKept
  <1>4. DOMAIN cases' \subseteq CaseIds
    <2>1. Len(Decisions) \in Nat /\ MaxCrashes \in Nat /\ handled' \in Nat /\ crashes' \in Nat
          /\ handled' <= Len(Decisions) /\ crashes' <= MaxCrashes
      BY <1>1, DecisionsAssumption, CaseBoundsAssumption DEF CountersType
    <2> DEFINE h == handled'
               n == Len(cases')
               P == Len(Decisions) * crashes'
               Q == Len(Decisions) * MaxCrashes
    <2>2. P \in Nat /\ P <= Q /\ Q \in Nat /\ Len(Decisions) * (MaxCrashes + 1) = Q + Len(Decisions)
      BY <2>1, Product
    <2>3. n \in Nat /\ DOMAIN cases' = 1 .. n /\ h \in Nat /\ h <= Len(Decisions)
      BY <1>2, <2>1
    <2>4. n <= h + P
      BY <1>1 DEF CasesPerLife
    <2> HIDE DEF h, n, P, Q
    <2>5. n <= Len(Decisions) * (MaxCrashes + 1)
      BY <2>1, <2>2, <2>3, <2>4
    <2> QED BY <2>1, <2>2, <2>3, <2>5 DEF CaseIds
  <1> QED BY <1>1, <1>2, <1>4 DEF TypeOK, CountersType, LabelsType, ChecksType, Row

-----------------------------------------------------------------------------
LEMMA LabelStep == Inv /\ [Next]_vars => LabelInv'
  <1> SUFFICES ASSUME Inv, [Next]_vars PROVE LabelInv'
    OBVIOUS
  <1>0. /\ TypeOK /\ DOMAIN cases \subseteq DOMAIN cases'
        /\ \A s \in sends : s.case \in DOMAIN cases
        /\ \A i \in DOMAIN labels : labels[i].case \in DOMAIN cases
        /\ labels \in Seq(Label)
    BY TableStep DEF Inv, LabelInv, RowsKept, TypeOK
  <1>1. ASSUME sends' \subseteq sends, UNCHANGED labels PROVE LabelInv'
    BY <1>0, <1>1 DEF LabelInv
  <1>2. ASSUME NEW c \in DOMAIN cases, NEW e \in Edits, UpdateCase(c, e) PROVE LabelInv'
    <2>1. UNCHANGED labels /\ \A s \in sends' : s \in sends \/ s.case = c
      BY <1>0, <1>2, UpdateCaseEffect
    <2> QED BY <1>0, <2>1 DEF LabelInv
  <1>3. ASSUME NEW s \in sends, PublishLabel(s) PROVE LabelInv'
    <2>1. UNCHANGED labels \/ labels' = Append(labels, s)
      BY <1>3 DEF PublishLabel
    <2>2. s \in Label
      BY <1>0 DEF TypeOK
    <2>3. \A i \in DOMAIN labels' : labels'[i].case \in DOMAIN cases
      BY <1>0, <2>1, <2>2
    <2>4. sends' \subseteq sends
      BY <1>3 DEF PublishLabel
    <2> QED BY <1>0, <2>3, <2>4 DEF LabelInv
  <1>4. ASSUME \/ HandleDecision \/ CommitOffset \/ Crash
               \/ \E c \in DOMAIN cases : PassDeadline(c)
               \/ \E ids \in SUBSET DOMAIN cases, action \in {"RESOLVE", "ESCALATE", "ASSIGN"} : BulkAction(ids, action)
               \/ \E m \in Checks : FindBreached(m) \/ MarkBreached(m) \/ SendAlert(m)
               \/ UNCHANGED vars
        PROVE  sends' \subseteq sends /\ UNCHANGED labels
    BY <1>4 DEF HandleDecision, CommitOffset, Crash, PassDeadline, BulkAction, FindBreached, MarkBreached, SendAlert,
       vars, labelVars
  <1> QED BY <1>1, <1>2, <1>3, <1>4 DEF Next, Check

LEMMA Invariance == Spec => []Inv
  <1>1. Inv /\ [Next]_vars => Inv'
    BY TypeStep, CasesStep, LabelStep DEF Inv
  <1> QED BY InitInv, <1>1, PTL DEF Spec

\* Type correctness: whatever is updated, published, checked and replayed
\* after a crash, a message opens one case in each life of the service at
\* most, the committed offset never passes the handled one, and labels and
\* alerts are of cases that may exist.
THEOREM TypeCorrect == Spec => []TypeOK
  <1>1. Inv => TypeOK
    BY DEF Inv
  <1> QED BY Invariance, <1>1, PTL

-----------------------------------------------------------------------------
(* The labels of a case and the row they describe *)

LabelsOf(c) == {i \in DOMAIN labels : labels[i].case = c}
IsLast(c, i) == i \in LabelsOf(c) /\ \A j \in LabelsOf(c) : j <= i
LastExists == \A c \in CaseIds : LabelsOf(c) # {} => \E i \in LabelsOf(c) : IsLast(c, i)

\* While a case is quiet it has one promise under way at most.  If its row
\* says FRAUD or LEGITIMATE, that promise carries what the row says, and
\* without one the last label does.
Listed(c) == cases[c].resolution \in {"FRAUD", "LEGITIMATE"}
CaughtUp(c) ==
    quiet[c] =>
        /\ \A s, t \in sends : s.case = c /\ t.case = c => s = t
        /\ Listed(c) => /\ \A s \in sends : s.case = c => s.resolution = cases[c].resolution
                        /\ ~Publishing(c) => LastLabel(c) = cases[c].resolution
CatchUpInv == \A c \in DOMAIN cases : CaughtUp(c)

LEMMA LastLabelIs ==
  ASSUME labels \in Seq(Label), NEW c, NEW i \in LabelsOf(c), IsLast(c, i)
  PROVE  LastLabel(c) = labels[i].resolution
  <1>1. \A k \in LabelsOf(c) : (\A j \in LabelsOf(c) : j <= k) => k = i
    <2> SUFFICES ASSUME NEW k \in LabelsOf(c), \A j \in LabelsOf(c) : j <= k PROVE k = i
      OBVIOUS
    <2>1. k \in Nat /\ i \in Nat /\ i <= k /\ k <= i
      BY DEF IsLast, LabelsOf
    <2> QED BY <2>1
  <1>2. i = CHOOSE k \in LabelsOf(c) : \A j \in LabelsOf(c) : j <= k
    BY <1>1 DEF IsLast
  <1>3. LabelsOf(c) # {}
    OBVIOUS
  <1> QED BY <1>2, <1>3 DEF LastLabel, LabelsOf

\* A label that is appended is the last of its case, and of no other.
LEMMA Appending ==
  ASSUME labels \in Seq(Label), LastExists, NEW s \in Label, labels' = Append(labels, s), NEW c \in CaseIds
  PROVE  /\ LabelsOf(c)' # {} => \E i \in LabelsOf(c)' : IsLast(c, i)'
         /\ LastLabel(c)' = IF s.case = c THEN s.resolution ELSE LastLabel(c)
  <1>n. PICK n \in Nat : n = Len(labels) + 1
    OBVIOUS
  <1>0. /\ Len(labels) \in Nat /\ labels' \in Seq(Label) /\ DOMAIN labels' = 1 .. n /\ labels'[n] = s
        /\ DOMAIN labels = 1 .. Len(labels)
        /\ \A i \in 1 .. Len(labels) : labels'[i] = labels[i]
    BY <1>n
  <1>1. CASE s.case = c
    <2>1. n \in LabelsOf(c)' /\ \A j \in LabelsOf(c)' : j <= n
      BY <1>0, <1>1 DEF LabelsOf
    <2>2. IsLast(c, n)'
      BY <2>1 DEF IsLast
    <2>3. \A k \in LabelsOf(c)' : (\A j \in LabelsOf(c)' : j <= k) => k = n
      <3> SUFFICES ASSUME NEW k \in LabelsOf(c)', \A j \in LabelsOf(c)' : j <= k PROVE k = n
        OBVIOUS
      <3>1. k \in Nat /\ n \in Nat /\ n <= k /\ k <= n
        BY <1>0, <2>1 DEF LabelsOf
      <3> QED BY <3>1
    <2>4. n = CHOOSE k \in LabelsOf(c)' : \A j \in LabelsOf(c)' : j <= k
      BY <2>1, <2>3
    <2>5. LabelsOf(c)' # {}
      BY <2>1
    <2>6. LastLabel(c)' = labels'[n].resolution
      BY <2>4, <2>5 DEF LastLabel, LabelsOf
    <2> QED BY <1>0, <1>1, <2>1, <2>2, <2>6
  <1>2. CASE s.case # c
    <2>1. LabelsOf(c)' = LabelsOf(c) /\ LabelsOf(c) \subseteq 1 .. Len(labels)
      BY <1>0, <1>2 DEF LabelsOf
    <2>2. CASE LabelsOf(c) = {}
      <3>1. LastLabel(c) = "none" /\ LastLabel(c)' = "none"
        BY <2>1, <2>2 DEF LastLabel, LabelsOf
      <3> QED BY <1>2, <2>1, <2>2, <3>1
    <2>3. CASE LabelsOf(c) # {}
      <3>1. PICK i \in LabelsOf(c) : IsLast(c, i)
        BY <2>3 DEF LastExists
      <3>2. IsLast(c, i)' /\ i \in LabelsOf(c)'
        BY <2>1, <3>1 DEF IsLast
      <3>3. LastLabel(c) = labels[i].resolution
        BY <3>1, LastLabelIs
      <3>4. i = CHOOSE k \in LabelsOf(c)' : \A j \in LabelsOf(c)' : j <= k
        <4>1. \A k \in LabelsOf(c) : (\A j \in LabelsOf(c) : j <= k) => k = i
          <5> SUFFICES ASSUME NEW k \in LabelsOf(c), \A j \in LabelsOf(c) : j <= k PROVE k = i
            OBVIOUS
          <5>1. k \in Nat /\ i \in Nat /\ i <= k /\ k <= i
            BY <1>0, <2>1, <3>1 DEF IsLast
          <5> QED BY <5>1
        <4> QED BY <2>1, <3>2, <4>1 DEF IsLast
      <3>5. LastLabel(c)' = labels'[i].resolution
        BY <2>1, <2>3, <3>4 DEF LastLabel, LabelsOf
      <3> QED BY <1>0, <1>2, <2>1, <3>2, <3>3, <3>5
    <2> QED BY <2>2, <2>3
  <1> QED BY <1>1, <1>2

LEMMA EndsStep == Inv /\ LastExists /\ [Next]_vars => LastExists'
  <1> SUFFICES ASSUME Inv, LastExists, [Next]_vars PROVE LastExists'
    OBVIOUS
  <1>0. labels \in Seq(Label) /\ sends \subseteq Label
    BY DEF Inv, TypeOK
  <1>1. ASSUME NEW s \in sends, PublishLabel(s), labels' = Append(labels, s) PROVE LastExists'
    BY <1>0, <1>1, Appending DEF LastExists
  <1>2. ASSUME UNCHANGED labels PROVE LastExists'
    BY <1>2 DEF LastExists, IsLast, LabelsOf
  <1>3. (\E s \in sends : PublishLabel(s) /\ labels' = Append(labels, s)) \/ UNCHANGED labels
    BY DEF Next, HandleDecision, CommitOffset, Crash, PassDeadline, UpdateCase, BulkAction, PublishLabel, Check,
       FindBreached, MarkBreached, SendAlert, vars, labelVars
  <1> QED BY <1>1, <1>2, <1>3

\* A step that leaves a case its promises and its last label, and its row
\* the resolution unless that is no longer FRAUD or LEGITIMATE.
LEMMA CaseKept ==
  ASSUME NEW c, CaughtUp(c), quiet'[c] => quiet[c],
         \A s \in sends \union sends' : s.case = c => s \in sends /\ s \in sends',
         LastLabel(c)' = LastLabel(c), cases'[c].resolution = cases[c].resolution \/ ~Listed(c)'
  PROVE  CaughtUp(c)'
  <1> SUFFICES ASSUME quiet'[c]
               PROVE  /\ \A s, t \in sends' : s.case = c /\ t.case = c => s = t
                      /\ Listed(c)' => /\ \A s \in sends' : s.case = c => s.resolution = cases'[c].resolution
                                       /\ ~Publishing(c)' => LastLabel(c)' = cases'[c].resolution
    BY DEF CaughtUp
  <1>1. \A s, t \in sends : s.case = c /\ t.case = c => s = t
    BY DEF CaughtUp
  <1>2. Listed(c)' => /\ \A s \in sends' : s.case = c => s.resolution = cases'[c].resolution
                      /\ ~Publishing(c)' => LastLabel(c)' = cases'[c].resolution
    <2> SUFFICES ASSUME Listed(c)'
                 PROVE  /\ \A s \in sends' : s.case = c => s.resolution = cases'[c].resolution
                        /\ ~Publishing(c)' => LastLabel(c)' = cases'[c].resolution
      OBVIOUS
    <2>1. Listed(c) /\ cases'[c].resolution = cases[c].resolution
      BY DEF Listed
    <2>2. Publishing(c) <=> Publishing(c)'
      BY DEF Publishing
    <2> QED BY <2>1, <2>2 DEF CaughtUp
  <1>3. \A s, t \in sends' : s.case = c /\ t.case = c => s = t
    BY <1>1
  <1> QED BY <1>2, <1>3

\* What the steps other than a decision's and a PATCH do to the rows.
LEMMA ResolutionStep ==
  ASSUME TypeOK, [Next]_vars, ~HandleDecision, ~\E c \in DOMAIN cases, e \in Edits : UpdateCase(c, e),
         NEW d \in DOMAIN cases
  PROVE  cases'[d].resolution = cases[d].resolution \/ ~Listed(d)'
  <1>0. cases \in Seq(Row) /\ cases[d] \in Row
    <2>1. cases \in Seq(Row)
      BY DEF TypeOK, Row
    <2> QED BY <2>1
  <1>1. ASSUME NEW c \in DOMAIN cases, PassDeadline(c) PROVE cases'[d].resolution = cases[d].resolution
    <2>1. cases' = [cases EXCEPT ![c] = [cases[c] EXCEPT !.overdue = TRUE]]
      BY <1>1 DEF PassDeadline
    <2> QED BY <1>0, <2>1 DEF Row
  <1>2. ASSUME NEW m \in Checks, MarkBreached(m) PROVE cases'[d].resolution = cases[d].resolution
    <2>1. cases' = cases \/ \E c \in checks[m].todo : cases' = [cases EXCEPT ![c] = [cases[c] EXCEPT !.breached = TRUE]]
      BY <1>2 DEF MarkBreached
    <2> QED BY <1>0, <2>1 DEF Row
  <1>3. ASSUME NEW ids \in SUBSET DOMAIN cases, NEW action \in {"RESOLVE", "ESCALATE", "ASSIGN"}, BulkAction(ids, action)
        PROVE  cases'[d].resolution = cases[d].resolution \/ ~Listed(d)'
    <2>1. cases'[d] = IF d \in ids THEN BulkRow(cases[d], action) ELSE cases[d]
      BY <1>3 DEF BulkAction
    <2>2. BulkRow(cases[d], action).resolution \in {cases[d].resolution, "INCONCLUSIVE"}
      BY <1>0 DEF BulkRow, Row
    <2> QED BY <2>1, <2>2 DEF Listed
  <1>4. ASSUME \/ CommitOffset \/ Crash
               \/ \E s \in sends : PublishLabel(s)
               \/ \E m \in Checks : FindBreached(m) \/ SendAlert(m)
               \/ UNCHANGED vars
        PROVE  UNCHANGED cases
    BY <1>4 DEF CommitOffset, Crash, PublishLabel, FindBreached, SendAlert, vars
  <1> QED BY <1>1, <1>2, <1>3, <1>4 DEF Next, Check

LEMMA CatchUpStep == Inv /\ LastExists /\ CatchUpInv /\ [Next]_vars => CatchUpInv'
  <1> SUFFICES ASSUME Inv, LastExists, CatchUpInv, [Next]_vars, NEW c \in DOMAIN cases' PROVE CaughtUp(c)'
    BY DEF CatchUpInv
  <1>0. /\ TypeOK /\ cases \in Seq(Row) /\ labels \in Seq(Label) /\ sends \subseteq Label
        /\ quiet \in [CaseIds -> BOOLEAN] /\ DOMAIN cases \subseteq CaseIds /\ c \in CaseIds
        /\ c \in DOMAIN cases => CaughtUp(c)
    BY TypeStep DEF Inv, TypeOK, Row, CatchUpInv
  <1>1. UNCHANGED labels => LastLabel(c)' = LastLabel(c)
    BY DEF LastLabel
  \* A new case has no resolution and no promise.
  <1>2. CASE HandleDecision
    <2>1. UNCHANGED <<sends, labels, quiet>> /\ handled + 1 \in 1 .. Len(Decisions)
      BY <1>0, <1>2, DecisionsAssumption DEF HandleDecision, labelVars, TypeOK
    <2>2. UNCHANGED cases \/ CreateFromDecision(Decisions[handled + 1])
      BY <1>2 DEF HandleDecision
    <2>3. PICK row : row.resolution = "none" /\ (UNCHANGED cases \/ cases' = Append(cases, row))
      BY <2>2 DEF CreateFromDecision
    <2>4. IF c \in DOMAIN cases THEN cases'[c] = cases[c] ELSE cases'[c].resolution = "none"
      <3>1. CASE UNCHANGED cases
        BY <3>1
      <3>2. CASE cases' = Append(cases, row)
        BY <1>0, <2>3, <3>2
      <3> QED BY <2>3, <3>1, <3>2
    <2>5. CASE c \in DOMAIN cases
      BY <1>0, <1>1, <2>1, <2>4, <2>5, CaseKept
    <2>6. CASE c \notin DOMAIN cases
      <3>1. ~Listed(c)' /\ \A s \in sends' : s.case # c
        BY <2>1, <2>4, <2>6 DEF Listed, Inv, LabelInv
      <3> QED BY <3>1 DEF CaughtUp
    <2> QED BY <2>5, <2>6
  <1>3. ASSUME NEW d \in DOMAIN cases, NEW e \in Edits, UpdateCase(d, e) PROVE CaughtUp(c)'
    <2> DEFINE resolution == cases'[d].resolution
               label == [nr |-> edits + 1, case |-> d, resolution |-> resolution]
    <2>1. /\ DOMAIN cases' = DOMAIN cases /\ (c # d => cases'[c] = cases[c])
          /\ sends' = IF resolution = "none" THEN sends ELSE sends \union {label}
          /\ quiet' = [quiet EXCEPT ![d] = ~Publishing(d)] /\ UNCHANGED labels
      BY <1>0, <1>3, UpdateCaseEffect
    <2>2. label.case = d /\ label.resolution = resolution
      OBVIOUS
    <2> HIDE DEF label
    <2>3. CASE c # d
      <3>1. \A s \in sends \union sends' : s.case = c => s \in sends /\ s \in sends'
        BY <2>1, <2>2, <2>3
      <3>2. quiet'[c] = quiet[c]
        BY <1>0, <2>1, <2>3
      <3> QED BY <1>0, <1>1, <2>1, <2>3, <3>1, <3>2, CaseKept
    <2>4. CASE c = d
      <3> SUFFICES ASSUME quiet'[c]
                   PROVE  /\ \A s, t \in sends' : s.case = c /\ t.case = c => s = t
                          /\ Listed(c)' => /\ \A s \in sends' : s.case = c => s.resolution = cases'[c].resolution
                                           /\ Publishing(c)'
        BY DEF CaughtUp
      <3>1. \A s \in sends : s.case # c
        BY <1>0, <2>1, <2>4 DEF Publishing
      <3>2. \A s \in sends' : s.case = c => s = label
        BY <2>1, <3>1
      <3>3. Listed(c)' => label \in sends'
        BY <2>1, <2>4 DEF Listed
      <3> QED BY <2>2, <2>4, <3>2, <3>3 DEF Publishing
    <2> QED BY <2>3, <2>4
  <1>4. CASE ~HandleDecision /\ ~\E d \in DOMAIN cases, e \in Edits : UpdateCase(d, e)
    <2>1. c \in DOMAIN cases
      BY <1>4, TableStep, <1>0
    <2>2. CaughtUp(c) /\ (cases'[c].resolution = cases[c].resolution \/ ~Listed(c)')
      BY <1>0, <1>4, <2>1, ResolutionStep
    <2>3. ASSUME NEW s \in sends, PublishLabel(s) PROVE CaughtUp(c)'
      <3>1. s \in Label /\ UNCHANGED cases
        BY <1>0, <2>3 DEF PublishLabel
      <3>2. CASE s.case # c
        <4>1. \A t \in sends \union sends' : t.case = c => t \in sends /\ t \in sends'
          BY <2>3, <3>2 DEF PublishLabel
        <4>2. quiet'[c] = quiet[c]
          BY <1>0, <2>3, <3>2 DEF PublishLabel
        <4>3. LastLabel(c)' = LastLabel(c)
          <5>1. UNCHANGED labels \/ labels' = Append(labels, s)
            BY <2>3 DEF PublishLabel
          <5> QED BY <1>0, <1>1, <3>1, <3>2, <5>1, Appending
        <4> QED BY <2>2, <4>1, <4>2, <4>3, CaseKept
      <3>3. CASE s.case = c
        <4> SUFFICES ASSUME quiet'[c]
                     PROVE  /\ \A t, u \in sends' : t.case = c /\ u.case = c => t = u
                            /\ Listed(c)' => /\ \A t \in sends' : t.case = c => t.resolution = cases'[c].resolution
                                             /\ ~Publishing(c)' => LastLabel(c)' = cases'[c].resolution
          BY DEF CaughtUp
        \* The promise did not fail, or the case would not be quiet.
        <4>1. quiet[c] /\ labels' = Append(labels, s) /\ sends' \subseteq sends
          BY <1>0, <2>3, <3>3 DEF PublishLabel
        <4>2. LastLabel(c)' = s.resolution
          BY <1>0, <3>1, <3>3, <4>1, Appending
        <4>3. Listed(c)' => Listed(c)
          BY <3>1 DEF Listed
        <4>4. Listed(c) => s.resolution = cases[c].resolution
          BY <2>2, <3>3, <4>1 DEF CaughtUp
        <4> QED BY <2>2, <3>1, <4>1, <4>2, <4>3, <4>4 DEF CaughtUp
      <3> QED BY <3>2, <3>3
    <2>4. CASE Crash
      <3>1. sends' = {} /\ quiet' = [d \in CaseIds |-> quiet[d] /\ ~Publishing(d)] /\ UNCHANGED <<labels, cases>>
        BY <2>4 DEF Crash
      <3>2. quiet'[c] => quiet[c] /\ ~Publishing(c)
        BY <1>0, <3>1
      <3>3. LastLabel(c)' = LastLabel(c) /\ (Listed(c)' => Listed(c))
        BY <1>1, <3>1 DEF Listed
      <3> QED BY <2>2, <3>1, <3>2, <3>3 DEF CaughtUp
    <2>5. ASSUME \/ CommitOffset
                 \/ \E d \in DOMAIN cases : PassDeadline(d)
                 \/ \E ids \in SUBSET DOMAIN cases, action \in {"RESOLVE", "ESCALATE", "ASSIGN"} : BulkAction(ids, action)
                 \/ \E m \in Checks : FindBreached(m) \/ MarkBreached(m) \/ SendAlert(m)
                 \/ UNCHANGED vars
          PROVE  CaughtUp(c)'
      <3>1. UNCHANGED <<sends, labels, quiet>>
        BY <2>5 DEF CommitOffset, PassDeadline, BulkAction, FindBreached, MarkBreached, SendAlert, vars, labelVars
      <3> QED BY <1>1, <2>2, <3>1, CaseKept
    <2> QED BY <1>4, <2>3, <2>4, <2>5 DEF Next, Check
  <1> QED BY <1>2, <1>3, <1>4

\* CaseService.updateCase publishes what the row has: whatever overlapped,
\* failed, was sent twice or was lost in a crash before, after a PATCH of the
\* case that met no publish of it under way, and once its own label is
\* through, the last label of the case is its row's FRAUD or LEGITIMATE.
THEOREM LabelsCatchUpWithRows == Spec => []LabelsCatchUp
  <1>1. Init => LastExists /\ CatchUpInv
    <2> SUFFICES ASSUME Init PROVE LastExists /\ CatchUpInv
      OBVIOUS
    <2>1. DOMAIN labels = {} /\ DOMAIN cases = {}
      BY DEF Init
    <2> QED BY <2>1 DEF LastExists, LabelsOf, CatchUpInv
  <1>2. Inv /\ LastExists /\ CatchUpInv /\ [Next]_vars => LastExists' /\ CatchUpInv'
    BY EndsStep, CatchUpStep
  <1>3. CatchUpInv => LabelsCatchUp
    BY DEF CatchUpInv, CaughtUp, Listed, LabelsCatchUp
  <1> QED BY Invariance, <1>1, <1>2, <1>3, PTL DEF Spec

-----------------------------------------------------------------------------
(* Safety halves of the liveness properties: nothing is skipped on the way *)

\* A handled REVIEW or BLOCK decision has its case.
HandledHasCase == faults = 0 => \A i \in 1 .. handled : Risky(Decisions[i]) => HasCase(Decisions[i])

\* A case marked as breached, which no check finds again, is alerted or about to be.
BreachedIsAlerted ==
    faults = 0 /\ crashes = 0 =>
        \A c \in DOMAIN cases : cases[c].breached => alerts[c] > 0 \/ \E m \in Checks : checks[m].alerting = c

\* Faults and crashes are only added.
LEMMA CountsGrow ==
  ASSUME TypeOK, [Next]_vars
  PROVE  (faults' = 0 => faults = 0 /\ ~Fault) /\ (crashes' = 0 => crashes = 0 /\ ~Crash)
  <1>0. faults \in Nat /\ crashes \in Nat
    BY CaseBoundsAssumption DEF TypeOK
  <1>1. faults' = faults \/ faults' = faults + 1
    BY DEF Next, HandleDecision, CommitOffset, Crash, PassDeadline, UpdateCase, BulkAction, PublishLabel, Check,
       FindBreached, MarkBreached, SendAlert, vars, Fault, NoFault
  <1>2. crashes' = crashes \/ crashes' = crashes + 1
    BY DEF Next, HandleDecision, CommitOffset, Crash, PassDeadline, UpdateCase, BulkAction, PublishLabel, Check,
       FindBreached, MarkBreached, SendAlert, vars
  <1>3. Fault => faults' = faults + 1
    BY DEF Fault
  <1>4. Crash => crashes' = crashes + 1
    BY DEF Crash
  <1> QED BY <1>0, <1>1, <1>2, <1>3, <1>4

LEMMA HandledStep == Inv /\ HandledHasCase /\ [Next]_vars => HandledHasCase'
  <1> SUFFICES ASSUME Inv, HandledHasCase, [Next]_vars, faults' = 0, NEW i \in 1 .. handled', Risky(Decisions[i])
               PROVE  HasCase(Decisions[i])'
    BY DEF HandledHasCase
  <1>0. /\ handled \in Nat /\ committed \in Nat /\ committed <= handled /\ cases \in Seq(Row) /\ RowsKept
        /\ faults = 0 /\ ~Fault
    <2>1. TypeOK
      BY DEF Inv
    <2>2. RowsKept
      BY TableStep DEF Inv
    <2>3. faults = 0 /\ ~Fault
      BY <2>1, CountsGrow
    <2>4. handled \in Nat /\ committed \in Nat /\ committed <= handled /\ cases \in Seq(Row)
      BY <2>1, DecisionsAssumption DEF TypeOK, Row
    <2> QED BY <2>2, <2>3, <2>4
  <1>1. HasCase(Decisions[i]) => HasCase(Decisions[i])'
    BY <1>0 DEF HasCase, RowsKept
  <1>2. i \in 1 .. handled => HasCase(Decisions[i])'
    BY <1>0, <1>1 DEF HandledHasCase
  <1>3. CASE HandleDecision
    <2>1. handled' = handled + 1
      BY <1>3 DEF HandleDecision
    <2>2. CASE i = handled + 1
      <3> DEFINE d == Decisions[handled + 1]
      <3>1. d.action # "INVALID" /\ d.action # "ALLOW"
        BY <2>2 DEF Risky
      <3>2. CreateFromDecision(d)
        BY <1>0, <1>3, <3>1 DEF HandleDecision
      <3> DEFINE row == [req |-> d.req, score |-> d.score, priority |-> computePriority(d.score), status |-> "OPEN",
                         resolution |-> "none", overdue |-> FALSE, breached |-> FALSE]
      <3>3. cases' = Append(cases, row) /\ row.req = d.req
        BY <3>2 DEF CreateFromDecision
      <3> HIDE DEF d, row
      <3>4. Len(cases) + 1 \in DOMAIN cases' /\ cases'[Len(cases) + 1] = row
        BY <1>0, <3>3
      <3> QED BY <2>2, <3>3, <3>4 DEF HasCase, d
    <2>3. CASE i # handled + 1
      <3>1. i \in 1 .. handled
        BY <1>0, <2>1, <2>3
      <3> QED BY <1>2, <3>1
    <2> QED BY <2>2, <2>3
  <1>4. CASE ~HandleDecision
    <2>1. handled' = handled \/ handled' = committed
      BY <1>4 DEF Next, CommitOffset, Crash, PassDeadline, UpdateCase, BulkAction, PublishLabel, Check,
         FindBreached, MarkBreached, SendAlert, vars, consumer
    <2>2. i \in 1 .. handled
      BY <1>0, <2>1
    <2> QED BY <1>2, <2>2
  <1> QED BY <1>3, <1>4

\* DecisionConsumerService: across crashes and redeliveries the consumer never
\* moves past a REVIEW or BLOCK decision without a case for it, as long as no
\* write failed: what RiskyDecisionsBecomeCases asks of every moment.
THEOREM NoRiskyDecisionIsSkipped == Spec => []HandledHasCase
  <1>1. Init => HandledHasCase
    BY DEF Init, HandledHasCase
  <1> QED BY Invariance, HandledStep, <1>1, PTL DEF Spec

LEMMA BreachedStep == Inv /\ BreachedIsAlerted /\ [Next]_vars => BreachedIsAlerted'
  <1> SUFFICES ASSUME Inv, BreachedIsAlerted, [Next]_vars, faults' = 0, crashes' = 0,
                      NEW c \in DOMAIN cases', cases'[c].breached
               PROVE  alerts'[c] > 0 \/ \E m \in Checks : checks'[m].alerting = c
    BY DEF BreachedIsAlerted
  <1> DEFINE Told == alerts[c] > 0 \/ \E m \in Checks : checks[m].alerting = c
  <1>0. /\ TypeOK /\ cases \in Seq(Row) /\ DOMAIN cases \subseteq CaseIds
        /\ checks \in [Checks -> [todo : SUBSET CaseIds, alerting : CaseIds \union {0}]]
        /\ alerts \in [CaseIds -> Nat] /\ c \in CaseIds
        /\ faults = 0 /\ ~Fault /\ crashes = 0 /\ ~Crash
    BY CountsGrow, TypeStep DEF Inv, TypeOK, Row
  <1>1. c \in DOMAIN cases /\ cases[c].breached => Told
    BY <1>0 DEF BreachedIsAlerted
  <1>2. ASSUME Told, UNCHANGED <<alerts, checks>> PROVE (Told)'
    BY <1>2
  \* No step but the mark of a check sets the column.
  <1>3. ASSUME NEW d \in DOMAIN cases, NEW row \in Row, row.breached = cases[d].breached, cases' = [cases EXCEPT ![d] = row]
        PROVE  c \in DOMAIN cases /\ cases[c].breached
    BY <1>0, <1>3
  <1>4. ASSUME UNCHANGED cases PROVE c \in DOMAIN cases /\ cases[c].breached
    BY <1>4
  <1>5. CASE HandleDecision
    <2>1. UNCHANGED <<alerts, checks>> /\ handled + 1 \in 1 .. Len(Decisions)
      BY <1>0, <1>5, DecisionsAssumption DEF HandleDecision, slaVars, TypeOK
    <2>2. UNCHANGED cases \/ CreateFromDecision(Decisions[handled + 1])
      BY <1>5 DEF HandleDecision
    <2>3. CASE CreateFromDecision(Decisions[handled + 1])
      <3>1. PICK row \in Row : ~row.breached /\ cases' = Append(cases, row)
        BY <2>1, <2>3, NewRowType DEF CreateFromDecision
      <3>2. c \in DOMAIN cases /\ cases[c].breached
        BY <1>0, <3>1
      <3> QED BY <1>1, <1>2, <2>1, <3>2
    <2> QED BY <1>1, <1>2, <1>4, <2>1, <2>2, <2>3
  <1>6. ASSUME NEW d \in DOMAIN cases, PassDeadline(d) PROVE (Told)'
    <2>1. cases' = [cases EXCEPT ![d] = [cases[d] EXCEPT !.overdue = TRUE]] /\ UNCHANGED <<alerts, checks>>
      BY <1>6 DEF PassDeadline, slaVars
    <2>2. [cases[d] EXCEPT !.overdue = TRUE] \in Row /\ [cases[d] EXCEPT !.overdue = TRUE].breached = cases[d].breached
      <3>1. cases[d] \in Row
        BY <1>0
      <3> QED BY <3>1 DEF Row
    <2> QED BY <1>1, <1>2, <1>3, <2>1, <2>2
  <1>7. ASSUME NEW d \in DOMAIN cases, NEW e \in Edits, UpdateCase(d, e) PROVE (Told)'
    <2>1. cases' = [cases EXCEPT ![d] = EditedRow(cases[d], e)] /\ UNCHANGED <<alerts, checks>>
      BY <1>7 DEF UpdateCase, slaVars
    <2>2. cases[d] \in Row
      BY <1>0
    <2> QED BY <1>1, <1>2, <1>3, <2>1, <2>2, EditedRowType
  <1>8. ASSUME NEW ids \in SUBSET DOMAIN cases, NEW action \in {"RESOLVE", "ESCALATE", "ASSIGN"}, BulkAction(ids, action)
        PROVE  (Told)'
    <2>1. cases' = [k \in DOMAIN cases |-> IF k \in ids THEN BulkRow(cases[k], action) ELSE cases[k]]
          /\ UNCHANGED <<alerts, checks>>
      BY <1>8 DEF BulkAction, slaVars
    <2>2. c \in DOMAIN cases /\ cases[c] \in Row
      BY <1>0, <2>1
    <2>3. cases[c].breached
      BY <2>1, <2>2, BulkRowType
    <2> QED BY <1>1, <1>2, <2>1, <2>2, <2>3
  <1>9. ASSUME NEW m \in Checks, MarkBreached(m) PROVE (Told)'
    <2>1. checks[m].alerting = 0 /\ UNCHANGED alerts
      BY <1>9 DEF MarkBreached
    <2>2. PICK d \in checks[m].todo :
             /\ cases' = [cases EXCEPT ![d].breached = TRUE]
             /\ checks' = [checks EXCEPT ![m] = [todo |-> checks[m].todo \ {d}, alerting |-> d]]
      BY <1>0, <1>9 DEF MarkBreached
    <2>3. CASE c = d
      BY <1>0, <2>2, <2>3
    <2>4. CASE c # d
      <3>1. c \in DOMAIN cases /\ cases[c].breached
        BY <1>0, <2>2, <2>4
      <3>2. alerts[c] > 0 \/ \E n \in Checks : checks[n].alerting = c /\ n # m
        <4>1. c # 0
          BY <1>0, CaseIdsType DEF Inv
        <4> QED BY <1>1, <2>1, <3>1, <4>1
      <3> QED BY <1>0, <2>1, <2>2, <3>2
    <2> QED BY <2>3, <2>4
  <1>10. ASSUME NEW m \in Checks, SendAlert(m) PROVE (Told)'
    <2>1. alerts' = [alerts EXCEPT ![checks[m].alerting] = @ + 1] /\ UNCHANGED cases
          /\ checks' = [checks EXCEPT ![m].alerting = 0]
      BY <1>0, <1>10 DEF SendAlert
    <2>2. Told
      BY <1>1, <1>4, <2>1
    <2>3. CASE checks[m].alerting = c
      BY <1>0, <2>1, <2>3
    <2>4. CASE checks[m].alerting # c
      <3>1. alerts'[c] = alerts[c]
        BY <1>0, <2>1, <2>4
      <3>2. \A n \in Checks : checks[n].alerting = c => checks'[n].alerting = c
        BY <1>0, <2>1, <2>4
      <3> QED BY <2>2, <3>1, <3>2
    <2> QED BY <2>3, <2>4
  <1>11. ASSUME NEW m \in Checks, FindBreached(m) PROVE (Told)'
    <2>1. UNCHANGED <<cases, alerts>> /\ \A n \in Checks : checks'[n].alerting = checks[n].alerting
      BY <1>0, <1>11 DEF FindBreached
    <2> QED BY <1>1, <1>4, <2>1
  <1>12. ASSUME CommitOffset \/ (\E s \in sends : PublishLabel(s)) \/ UNCHANGED vars PROVE (Told)'
    <2>1. UNCHANGED <<cases, alerts, checks>>
      BY <1>12 DEF CommitOffset, PublishLabel, vars, slaVars
    <2> QED BY <1>1, <1>2, <1>4, <2>1
  <1> QED BY <1>0, <1>5, <1>6, <1>7, <1>8, <1>9, <1>10, <1>11, <1>12 DEF Next, Check

\* SlaMonitorService: while nothing fails, overlapping checks never leave a
\* case marked as breached, and so unseen by later checks, without its alert
\* sent or being sent: what OverdueCasesAreAlerted asks of every moment.
THEOREM NoBreachIsForgotten == Spec => []BreachedIsAlerted
  <1>1. Init => BreachedIsAlerted
    BY DEF Init, BreachedIsAlerted
  <1> QED BY Invariance, BreachedStep, <1>1, PTL DEF Spec
=============================================================================
