----------------------------- MODULE MCCaseWorkflow -----------------------------
(***************************************************************************)
(* Finite instances of CaseWorkflow for TLC.  The analysts' labels and the  *)
(* SLA checks share no variable but the rows, of which each reads and       *)
(* writes columns of its own, so they are explored one at a time: focus     *)
(* says which.  CONSTANTS are those of the labels.                          *)
(***************************************************************************)
EXTENDS CaseWorkflow, TLC

VARIABLE focus

Decision(req, action, score) == [req |-> req, action |-> action, score |-> score]
Edit(status, resolution) == [status |-> status, resolution |-> resolution]

\* An analyst's updates of one case, three of them: two that may overlap and
\* one that may come after both.
LabelDecisions == <<Decision(1, "ALLOW", 10), Decision(2, "BLOCK", 60), Decision(3, "INVALID", 0)>>
LabelEdits == {Edit("IN_REVIEW", "keep"), Edit("RESOLVED", "FRAUD"), Edit("RESOLVED", "LEGITIMATE"),
               Edit("OPEN", "none")}

\* Two risky decisions and two checks that overlap.
Sla == INSTANCE CaseWorkflow WITH
    Decisions <- <<Decision(1, "BLOCK", 60), Decision(2, "REVIEW", 45)>>,
    Checks <- {"m1", "m2"}, Edits <- {},
    MaxEdits <- 0, MaxFaults <- 0, MaxCrashes <- 1

ASSUME SlaAssumptions == Sla!DecisionsAssumption /\ Sla!EditsAssumption /\ Sla!CaseBoundsAssumption
-----------------------------------------------------------------------------

CaseInit ==
    \/ focus = "labels" /\ Init
    \/ focus = "sla" /\ Sla!Init

CaseNext ==
    /\ UNCHANGED focus
    /\ \/ focus = "labels" /\ Next
       \/ focus = "sla" /\ Sla!Next

\* KafkaJS keeps polling and committing, and the interval keeps firing.
SlaStep(action) == focus = "sla" /\ UNCHANGED focus /\ action
Fairness ==
    /\ WF_<<focus, vars>>(SlaStep(Sla!HandleDecision))
    /\ WF_<<focus, vars>>(SlaStep(Sla!CommitOffset))
    /\ \A m \in {"m1", "m2"} : WF_<<focus, vars>>(SlaStep(Sla!Check(m)))

CaseSpec == CaseInit /\ [][CaseNext]_<<focus, vars>> /\ Fairness
-----------------------------------------------------------------------------
(* Properties: those of CaseWorkflow, the liveness ones for the SLA instance. *)

\* No REVIEW or BLOCK decision is skipped, across a crash.
DecisionsBecomeCases == focus = "sla" => Sla!RiskyDecisionsBecomeCases

\* An overdue case is alerted unless something failed.
BreachesAreAlerted == focus = "sla" => Sla!OverdueCasesAreAlerted
=============================================================================
