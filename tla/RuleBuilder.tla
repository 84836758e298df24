------------------------------ MODULE RuleBuilder ------------------------------
(***************************************************************************)
(* The dashboard's rule editor: a rule's expression is opened as a list of  *)
(* conditions and written back from it.  A condition of an expression is    *)
(* [connector, field, operator, shape, text]: the shape of its value is     *)
(* "bare" (5, true), "quoted" ("web") or "list" (["TR", "US"]).             *)
(***************************************************************************)
EXTENDS Sequences, SequencesExt

\* One field of each type the signals have.
SIGNAL_SCHEMA == [trustScore |-> "number", isEmulator |-> "boolean", platform |-> "string"]

OPERATORS_BY_TYPE ==
    [number |-> {">", ">=", "<", "<=", "==", "!="}, boolean |-> {"==", "!="},
     string |-> {"==", "!=", "IN", "NOT_IN"}]

\* What the list shows of a condition: its value has lost its quotes and brackets.
Condition(c) == [connector |-> c.connector, field |-> c.field, operator |-> c.operator, text |-> c.text]

\* Conditions on fields outside the schema are dropped.
parseDslToConditions(expression) ==
    LET known == SelectSeq(expression, LAMBDA c : c.field \in DOMAIN SIGNAL_SCHEMA)
    IN  [i \in DOMAIN known |-> Condition(known[i])]

AsText(c) == IF SIGNAL_SCHEMA[c.field] = "string" THEN "quoted" ELSE "bare"
formatValue(c) ==
    IF SIGNAL_SCHEMA[c.field] # "string" THEN "bare"
    ELSE IF c.operator \in {"IN", "NOT_IN"} THEN "list" ELSE "quoted"

\* The first condition is written without its connector, which reads as AND.
conditionsToDsl(conditions) ==
    [i \in DOMAIN conditions |->
        [connector |-> IF i = 1 THEN "AND" ELSE conditions[i].connector,
         field |-> conditions[i].field, operator |-> conditions[i].operator,
         shape |-> formatValue(conditions[i]), text |-> conditions[i].text]]

\* EditRuleModal: an expression of which no condition is known is edited as text.
Saved(expression) ==
    LET conditions == parseDslToConditions(expression)
    IN  IF conditions = <<>> THEN expression ELSE conditionsToDsl(conditions)
-----------------------------------------------------------------------------

\* The conditions the rule language has on the fields of the schema.
Needed(f, o) == IF o \in {"IN", "NOT_IN"} THEN "list" ELSE IF f = "platform" THEN "quoted" ELSE "bare"
Expressible ==
    UNION {{[connector |-> k, field |-> f, operator |-> o, shape |-> Needed(f, o), text |-> "v"] :
               k \in {"AND", "OR"}, o \in OPERATORS_BY_TYPE[SIGNAL_SCHEMA[f]]} :
           f \in DOMAIN SIGNAL_SCHEMA}

\* A rule whose conditions the editor knows is the same rule after it was
\* opened and saved without a change: no operator, quote, bracket or connector
\* is lost between the two conversions.
EditorKeepsItsRules ==
    \A a, b \in Expressible : a.connector = "AND" => Saved(<<a, b>>) = <<a, b>>
=============================================================================
