------------------------------ MODULE CaseConsole ------------------------------
(***************************************************************************)
(* The dashboard's two lists of cases, cases.store ("cases") and            *)
(* fraud-ops.store ("review"), over case-service: every action is a request *)
(* whose answer arrives later, in any order, and is applied to whatever the *)
(* list and the selection are by then.                                      *)
(***************************************************************************)
EXTENDS Naturals, FiniteSets

CONSTANTS
    CaseIds,
    MaxConsoleCalls     \* bound on requests

Pages == {"cases", "review"}
Chargeback == "POST /v1/chargebacks"

\* Names of cases are no names of the other things a request waits for.
ASSUME ConsoleAssumption == IsFiniteSet(CaseIds) /\ CaseIds \intersect {"list", Chargeback} = {}

VARIABLES
    status,         \* [CaseIds -> status in case-service]
    shown,          \* [Pages -> cases listed]
    selected,       \* [Pages -> selectedIds]
    filter,         \* the status filter of cases.store
    total,          \* the total of cases.store
    posted,         \* requests under way: see Ask
    asked,          \* number of requests made
    closed,         \* history: cases that were RESOLVED or ESCALATED at some time
    cleared         \* history: <<case, whether its request named it>> an answer removed

consoleVars == <<status, shown, selected, filter, total, posted, asked, closed, cleared>>

\* What a request wants to become of its cases.
Target ==
    [resolve |-> "RESOLVED", escalate |-> "ESCALATED", bulkResolve |-> "RESOLVED",
     claim |-> "IN_REVIEW", outcome |-> "RESOLVED", bulkLabel |-> "RESOLVED"]
Kinds == {"fetch"} \union DOMAIN Target

ConsoleInit ==
    /\ status = [c \in CaseIds |-> "OPEN"]
    /\ shown = [p \in Pages |-> {}] /\ selected = [p \in Pages |-> {}]
    /\ filter = "OPEN" /\ total = 0 /\ posted = {} /\ asked = 0
    /\ closed = {} /\ cleared = {}

\* cases: what the request names; todo: what case-service has not done yet;
\* failed: one of its parts was refused; rows: what a fetch found.
Ask(page, kind, cases) ==
    /\ asked < MaxConsoleCalls /\ asked' = asked + 1
    /\ posted' = posted \union
           {[n |-> asked, page |-> page, kind |-> kind, cases |-> cases,
             todo |-> IF kind = "fetch" THEN {"list"} ELSE cases,
             want |-> filter, rows |-> {}, failed |-> FALSE]}

-----------------------------------------------------------------------------
(* What the analyst does *)

Fetch(page) ==
    /\ Ask(page, "fetch", {})
    /\ UNCHANGED <<status, shown, selected, filter, total, closed, cleared>>

SetFilter(value) ==
    /\ filter # value /\ filter' = value
    /\ asked < MaxConsoleCalls /\ asked' = asked + 1
    /\ posted' = posted \union
           {[n |-> asked, page |-> "cases", kind |-> "fetch", cases |-> {}, todo |-> {"list"},
             want |-> value, rows |-> {}, failed |-> FALSE]}
    /\ UNCHANGED <<status, shown, selected, total, closed, cleared>>

ToggleSelect(page, c) ==
    /\ c \in shown[page]
    /\ selected' = [selected EXCEPT ![page] =
                        IF c \in @ THEN @ \ {c} ELSE @ \union {c}]
    /\ UNCHANGED <<status, shown, filter, total, posted, asked, closed, cleared>>

SelectAll(page) ==
    /\ selected' = [selected EXCEPT ![page] = shown[page]]
    /\ UNCHANGED <<status, shown, filter, total, posted, asked, closed, cleared>>

ClearSelection(page) ==
    /\ selected' = [selected EXCEPT ![page] = {}]
    /\ UNCHANGED <<status, shown, filter, total, posted, asked, closed, cleared>>

ActOn(page, kind, c) ==
    /\ c \in shown[page] /\ Ask(page, kind, {c})
    /\ UNCHANGED <<status, shown, selected, filter, total, closed, cleared>>

\* bulkResolve patches each selected case; bulkLabel posts them all at once.
ActOnSelection(page, kind) ==
    /\ selected[page] # {} /\ Ask(page, kind, selected[page])
    /\ UNCHANGED <<status, shown, selected, filter, total, closed, cleared>>

-----------------------------------------------------------------------------
(* case-service and rule-engine-service *)

Replace(r, new) == posted' = (posted \ {r}) \union {new}

List(r) ==
    /\ r.kind = "fetch" /\ "list" \in r.todo
    /\ \/ Replace(r, [r EXCEPT !.todo = {}, !.rows =
              {c \in CaseIds : status[c] = "OPEN" \/ (r.page = "cases" /\ r.want = "any")}])
       \/ Replace(r, [r EXCEPT !.todo = {}, !.failed = TRUE])
    /\ UNCHANGED <<status, shown, selected, filter, total, asked, closed, cleared>>

\* The cases case-service updates in one statement.
Parts(r) == IF r.kind = "bulkLabel" THEN {r.todo} ELSE {{c} : c \in r.todo}

\* submitOutcome posts a chargeback when its PATCH is answered.
Update(r) ==
    \E part \in Parts(r) :
        /\ r.kind # "fetch" /\ part \subseteq CaseIds /\ part # {}
        /\ status' = [c \in CaseIds |-> IF c \in part THEN Target[r.kind] ELSE status[c]]
        /\ closed' = IF r.kind = "claim" THEN closed ELSE closed \union part
        /\ Replace(r, [r EXCEPT !.todo =
               (r.todo \ part) \union (IF r.kind = "outcome" THEN {Chargeback} ELSE {})])
        /\ UNCHANGED <<shown, selected, filter, total, asked, cleared>>

Refuse(r) ==
    \E part \in Parts(r) :
        /\ r.kind # "fetch" /\ part # {}
        /\ Replace(r, [r EXCEPT !.todo = r.todo \ part, !.failed = TRUE])
        /\ UNCHANGED <<status, shown, selected, filter, total, asked, closed, cleared>>

TakeChargeback(r) ==
    /\ Chargeback \in r.todo /\ Replace(r, [r EXCEPT !.todo = {}])
    /\ UNCHANGED <<status, shown, selected, filter, total, asked, closed, cleared>>

-----------------------------------------------------------------------------
(* Answers *)

FetchAnswered(r) ==
    /\ r.kind = "fetch" /\ r.todo = {}
    /\ posted' = posted \ {r}
    /\ shown' = IF ~r.failed THEN [shown EXCEPT ![r.page] = r.rows]
                ELSE IF r.page = "cases" THEN [shown EXCEPT !["cases"] = {}] ELSE shown
    /\ total' = IF r.page = "review" THEN total
                ELSE IF r.failed THEN 0 ELSE Cardinality(r.rows)
    /\ UNCHANGED <<status, selected, filter, asked, closed, cleared>>

\* The selection as it is now, not as it was when the request was made.
Leaving(r) == IF r.kind \in {"bulkResolve", "bulkLabel"} THEN selected[r.page] ELSE r.cases

AnyAnswer(r) == r.todo = {}
Succeeded(r) == r.todo = {} /\ ~r.failed

Answered(r) ==
    /\ r.kind \in DOMAIN Target \ {"claim"} /\ Succeeded(r)
    /\ posted' = posted \ {r}
    /\ shown' = [shown EXCEPT ![r.page] = @ \ Leaving(r)]
    /\ total' = IF r.page = "review" THEN total
                ELSE IF total > Cardinality(r.cases) THEN total - Cardinality(r.cases) ELSE 0
    /\ selected' = IF r.kind \in {"bulkResolve", "bulkLabel"}
                     THEN [selected EXCEPT ![r.page] = {}] ELSE selected
    /\ cleared' = cleared \union {<<c, c \in r.cases>> : c \in shown[r.page] \intersect Leaving(r)}
    /\ UNCHANGED <<status, filter, asked, closed>>

\* An error is shown or thrown, as soon as one part is refused; the other
\* parts go on.  A claim only changes how its row looks.
FailureAnswered(r) ==
    /\ r.kind \in DOMAIN Target /\ r.todo = {} /\ (r.failed \/ r.kind = "claim")
    /\ posted' = posted \ {r}
    /\ UNCHANGED <<status, shown, selected, filter, total, asked, closed, cleared>>

ConsoleNext ==
    \/ \E p \in Pages : Fetch(p) \/ SelectAll(p) \/ ClearSelection(p)
    \/ \E v \in {"OPEN", "any"} : SetFilter(v)
    \/ \E p \in Pages, c \in CaseIds : ToggleSelect(p, c)
    \/ \E c \in CaseIds, kind \in {"resolve", "escalate"} : ActOn("cases", kind, c)
    \/ \E c \in CaseIds, kind \in {"claim", "outcome"} : ActOn("review", kind, c)
    \/ ActOnSelection("cases", "bulkResolve") \/ ActOnSelection("review", "bulkLabel")
    \/ \E r \in posted :
          \/ List(r) \/ Update(r) \/ Refuse(r) \/ TakeChargeback(r)
          \/ FetchAnswered(r) \/ Answered(r) \/ FailureAnswered(r)

ConsoleSpec == ConsoleInit /\ [][ConsoleNext]_consoleVars
-----------------------------------------------------------------------------
(* Properties *)

ConsoleTypeOK ==
    /\ status \in [CaseIds -> {"OPEN", "IN_REVIEW", "RESOLVED", "ESCALATED"}]
    /\ shown \in [Pages -> SUBSET CaseIds] /\ selected \in [Pages -> SUBSET CaseIds]
    /\ total \in 0 .. Cardinality(CaseIds) /\ closed \subseteq CaseIds
    /\ \A r \in posted : r.kind \in Kinds /\ r.todo \subseteq CaseIds \union {"list", Chargeback}

\* A case that leaves a list because a request about it was answered has been
\* resolved or escalated: no refused part of a bulk request, no chargeback
\* that failed and no late answer takes an open case out of the analyst's
\* sight.  (A case selected while a bulk request was under way leaves the
\* list without being named by it: the second component of cleared.)
RemovedMeansClosed == \A x \in cleared : x[2] => x[1] \in closed
=============================================================================
