----------------------------- MODULE RuleRegistry -----------------------------
(***************************************************************************)
(* rule-engine-service: the registry of rules, its load from default.rules  *)
(* at startup, the operations of the admin API, and the evaluation of a     *)
(* context against all rules.  The registry is in memory only.              *)
(***************************************************************************)
EXTENDS RuleLanguage, FiniteSets

CONSTANTS
    Files,          \* the texts default.rules may have, and NoFile
    NoFile,
    Contexts,       \* signal contexts, [dotted paths -> values]
    AdminDtos,      \* bodies of POST /v1/admin/rules
    Patches,        \* bodies of PATCH /v1/admin/rules/:id
    MaxCalls        \* bound: calls of the API

VARIABLES
    file, started, rules, activeState, expressions, requests,
    summary         \* the answer of the request before, when it was an evaluation

registryVars == <<file, started, rules, activeState, expressions, summary, requests>>

NoSummary == [matchedRules |-> <<>>, finalAction |-> "none", totalWeight |-> 0, skippedRules |-> 0, context |-> <<>>]

Ids == {rules[i].id : i \in DOMAIN rules}
Drop(f, id) == [x \in DOMAIN f \ {id} |-> f[x]]
With(f, id, v) == [x \in DOMAIN f \union {id} |-> IF x = id THEN v ELSE f[x]]

\* Map.set: a known key keeps its place.
SetRule(list, rule) ==
    IF \E i \in DOMAIN list : list[i].id = rule.id
      THEN [i \in DOMAIN list |-> IF list[i].id = rule.id THEN rule ELSE list[i]]
      ELSE Append(list, rule)

RegistryInit ==
    /\ file \in Files /\ started = FALSE
    /\ rules = <<>> /\ activeState = <<>> /\ expressions = <<>>
    /\ summary = NoSummary /\ requests = 0

\* Every text is parsed before the first rule is stored; an error leaves the registry empty.
load(parsed) ==
    LET nodes == [i \in DOMAIN parsed |-> parsed[i].node]
    IN  /\ rules' = FoldLeft(SetRule, <<>>, nodes)
        /\ activeState' = [id \in {nodes[i].id : i \in DOMAIN nodes} |-> TRUE]

onModuleInit ==
    /\ ~started /\ started' = TRUE
    /\ LET parsed == IF file = NoFile THEN <<>> ELSE parseAll(file)
       IN  IF AllParsed(parsed) THEN load(parsed) ELSE UNCHANGED <<rules, activeState>>
    /\ UNCHANGED <<file, expressions, summary, requests>>

Restart ==
    /\ started /\ requests > 0
    /\ started' = FALSE /\ rules' = <<>> /\ activeState' = <<>> /\ expressions' = <<>>
    /\ summary' = NoSummary
    /\ UNCHANGED <<file, requests>>

Request == started /\ requests < MaxCalls /\ requests' = requests + 1 /\ UNCHANGED <<file, started>>

\* The rule's condition is not the expression: it compares a field "manual".
createAdmin(dto) ==
    /\ Request
    /\ rules' = SetRule(rules, Rule(dto.id, Comparison(<<"manual">>, "==", Truth(TRUE)), dto.outcome,
                                    dto.weight, "SKIP"))
    /\ activeState' = With(activeState, dto.id, dto.isActive)
    /\ expressions' = With(expressions, dto.id, dto.expression)
    /\ summary' = NoSummary

\* patch: the fields the body has.  A new expression is stored, not parsed.
updateAdmin(id, patch) ==
    /\ Request /\ id \in Ids
    /\ rules' = [i \in DOMAIN rules |->
                    IF rules[i].id = id /\ "weight" \in DOMAIN patch
                      THEN [rules[i] EXCEPT !.weight = patch.weight] ELSE rules[i]]
    /\ activeState' = IF "isActive" \in DOMAIN patch THEN With(activeState, id, patch.isActive) ELSE activeState
    /\ expressions' = IF "expression" \in DOMAIN patch THEN With(expressions, id, patch.expression) ELSE expressions
    /\ summary' = NoSummary

deleteAdmin(id) ==
    /\ Request /\ id \in Ids
    /\ rules' = SelectSeq(rules, LAMBDA r : r.id # id)
    /\ activeState' = Drop(activeState, id) /\ expressions' = Drop(expressions, id)
    /\ summary' = NoSummary

listAdmin ==
    [i \in DOMAIN rules |->
        [id |-> rules[i].id, outcome |-> rules[i].action, weight |-> rules[i].weight,
         expression |-> IF rules[i].id \in DOMAIN expressions THEN expressions[rules[i].id] ELSE "summary",
         isActive |-> rules[i].id \in DOMAIN activeState => activeState[rules[i].id]]]

\* The strongest action of the rules that matched; activeState is not read.
Strongest(results) ==
    FoldLeft(LAMBDA final, r :
                 IF r.action = "BLOCK" THEN "BLOCK"
                 ELSE IF r.action = "REVIEW" /\ final # "BLOCK" THEN "REVIEW" ELSE final,
             "ALLOW", results)

Summary(results, context) ==
    LET matchedRules == SelectSeq(results, LAMBDA r : r.matched /\ ~r.skipped)
    IN  [matchedRules |-> matchedRules, finalAction |-> Strongest(matchedRules),
         totalWeight |-> FoldLeft(LAMBDA sum, r : sum + r.weight, 0, matchedRules),
         skippedRules |-> Len(SelectSeq(results, LAMBDA r : r.skipped)),
         context |-> context]

EvaluateContext(context) ==
    /\ Request
    /\ summary' = Summary(evaluateAll(rules, context), context)
    /\ UNCHANGED <<rules, activeState, expressions>>

RegistryNext ==
    \/ onModuleInit \/ Restart
    \/ \E dto \in AdminDtos : createAdmin(dto)
    \/ \E id \in Ids : deleteAdmin(id) \/ \E patch \in Patches : updateAdmin(id, patch)
    \/ \E context \in Contexts : EvaluateContext(context)

RegistrySpec == RegistryInit /\ [][RegistryNext]_registryVars

RegistryTypeOK ==
    /\ started \in BOOLEAN /\ requests \in 0..MaxCalls
    /\ \A i \in DOMAIN rules :
         /\ rules[i].action \in RuleActions /\ rules[i].missingPolicy \in MissingPolicies
         /\ \A j \in DOMAIN rules : rules[i].id = rules[j].id => i = j
    /\ DOMAIN activeState = Ids /\ DOMAIN expressions \subseteq Ids
    /\ Len(listAdmin) = Len(rules)
    /\ summary.finalAction \in RuleActions \union {"none"}
=============================================================================
