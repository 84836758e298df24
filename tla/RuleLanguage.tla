----------------------------- MODULE RuleLanguage -----------------------------
(***************************************************************************)
(* The rule DSL of rule-engine-service: tokenizer, recursive-descent parser *)
(* and evaluator, which decision-service uses too.  A source text is a      *)
(* sequence of lines, a line a sequence of lexemes: words, digits, quoted   *)
(* strings and symbols.  A word is the sequence of its dotted parts, a      *)
(* quoted string an integer that stands for its content, with the word that *)
(* its content is, if it is one.                                            *)
(***************************************************************************)
EXTENDS Integers, Sequences, SequencesExt

Lexeme(class, value, number) == [class |-> class, value |-> value, number |-> number]
Word(parts) == Lexeme("word", parts, 0)
Symbol(s) == Lexeme("symbol", <<s>>, 0)
Number(n) == Lexeme("digits", <<>>, n)
Quoted(code) == Lexeme("quoted", <<>>, code)
QuotedWord(word, code) == Lexeme("quoted", <<word>>, code)

KEYWORDS ==
    {"RULE", "WHEN", "THEN", "WEIGHT", "MISSING", "AND", "OR", "NOT", "NOT_IN", "IN",
     "BLOCK", "REVIEW", "ALLOW", "SKIP", "DEFAULT_HIGH", "DEFAULT_LOW", "true", "false"}
OrderOps == {">", ">=", "<", "<="}
Operators == OrderOps \union {"==", "!="}
Punctuation == {"(", ")", "[", "]", ","}
RuleActions == {"BLOCK", "REVIEW", "ALLOW"}
MissingPolicies == {"SKIP", "DEFAULT_HIGH", "DEFAULT_LOW"}

-----------------------------------------------------------------------------
(* Tokens *)

\* "=", "!", "-" without digits, an open quote and foreign characters have no token.
TypeOfLexeme(x) ==
    IF x.class = "digits" THEN "NUMBER"
    ELSE IF x.class = "quoted" THEN "STRING"
    ELSE IF x.class = "word" THEN IF Len(x.value) = 1 /\ x.value[1] \in KEYWORDS THEN "KEYWORD" ELSE "IDENT"
    ELSE IF x.value[1] \in Operators THEN "OP"
    ELSE IF x.value[1] \in Punctuation THEN "MARK"
    ELSE "none"

tokenize(text) ==
    [i \in DOMAIN text |-> [type |-> TypeOfLexeme(text[i]), value |-> text[i].value, number |-> text[i].number]]
IsTokenizable(text) == \A i \in DOMAIN text : TypeOfLexeme(text[i]) # "none"

-----------------------------------------------------------------------------
(* The parser: each operator takes the tokens and a position, and returns a *)
(* node and the position after it; position 0 is a ParseError.              *)

Got(node, at) == [node |-> node, at |-> at]
ParseError == Got("error", 0)
IsError(r) == r.at = 0

Check(t, at, type, values) == at \in DOMAIN t /\ t[at].type = type /\ t[at].value[1] \in values
IsKeyword(t, at, word) == Check(t, at, "KEYWORD", {word})
IsMark(t, at, mark) == Check(t, at, "MARK", {mark})
IsType(t, at, type) == at \in DOMAIN t /\ t[at].type = type

\* The action and the missing policy are told by the token's text alone: a
\* quoted "BLOCK" is one as well.
Says(t, at, words) == at \in DOMAIN t /\ \E w \in words : t[at].value = <<w>>

Comparison(field, operator, value) ==
    [type |-> "comparison", field |-> field, operator |-> operator, value |-> value]
Logical(op, left, right) == [type |-> "logical", op |-> op, left |-> left, right |-> right]
Negation(operand) == [type |-> "not", operand |-> operand]

Value(kind, of) == [kind |-> kind, of |-> of, items |-> <<>>]
ListValue(items) == [kind |-> "list", of |-> 0, items |-> items]
Truth(b) == Value("boolean", IF b THEN 1 ELSE 0)

Literal(t, at) ==
    IF IsType(t, at, "NUMBER") THEN Got(Value("number", t[at].number), at + 1)
    ELSE IF IsType(t, at, "STRING") THEN Got(Value("string", t[at].number), at + 1)
    ELSE ParseError

\* The elements of a list and its closing bracket.
RECURSIVE parseListItems(_, _, _)
AfterItem(t, item, items) ==
    IF IsError(item) THEN ParseError
    ELSE IF IsMark(t, item.at, ",") THEN parseListItems(t, item.at + 1, Append(items, item.node))
    ELSE IF IsMark(t, item.at, "]") THEN Got(ListValue(Append(items, item.node)), item.at + 1)
    ELSE ParseError
parseListItems(t, at, items) == AfterItem(t, Literal(t, at), items)

parseList(t, at) ==
    IF IsMark(t, at + 1, "]") THEN Got(ListValue(<<>>), at + 2) ELSE parseListItems(t, at + 1, <<>>)

parseValue(t, at) ==
    IF Check(t, at, "KEYWORD", {"true", "false"}) THEN Got(Truth(t[at].value[1] = "true"), at + 1)
    ELSE IF IsMark(t, at, "[") THEN parseList(t, at)
    ELSE Literal(t, at)

\* A field has a prefix; IN and NOT_IN are keywords, the other operators are not.
Compared(t, at, value) ==
    IF /\ IsType(t, at, "IDENT") /\ Len(t[at].value) > 1
       /\ IsType(t, at + 1, "OP") \/ Check(t, at + 1, "KEYWORD", {"IN", "NOT_IN"})
       /\ ~IsError(value)
      THEN Got(Comparison(t[at].value, t[at + 1].value[1], value.node), value.at)
      ELSE ParseError
parseComparison(t, at) == Compared(t, at, parseValue(t, at + 2))

\* What follows an operand: its negation, its closing parenthesis, its join.
Negated(operand) == IF IsError(operand) THEN ParseError ELSE Got(Negation(operand.node), operand.at)
Closed(t, inner) ==
    IF ~IsError(inner) /\ IsMark(t, inner.at, ")") THEN Got(inner.node, inner.at + 1) ELSE ParseError
Joined(op, left, right) ==
    IF IsError(right) THEN ParseError ELSE Got(Logical(op, left.node, right.node), right.at)

RECURSIVE parseOr(_, _), moreOr(_, _), parseAnd(_, _), moreAnd(_, _), parseTerm(_, _)

parseTerm(t, at) ==
    IF IsKeyword(t, at, "NOT") THEN Negated(parseTerm(t, at + 1))
    ELSE IF IsMark(t, at, "(") THEN Closed(t, parseOr(t, at + 1))
    ELSE parseComparison(t, at)

\* Operators of one level associate to the left.
Follows(t, left, op) == ~IsError(left) /\ IsKeyword(t, left.at, op)
moreAnd(t, left) ==
    IF Follows(t, left, "AND") THEN moreAnd(t, Joined("AND", left, parseTerm(t, left.at + 1))) ELSE left
parseAnd(t, at) == moreAnd(t, parseTerm(t, at))

moreOrOfTerms(t, left) ==
    IF Follows(t, left, "OR") THEN moreOr(t, Joined("OR", left, parseTerm(t, left.at + 1))) ELSE left
moreOr(t, left) ==
    IF Follows(t, left, "OR") THEN moreOr(t, Joined("OR", left, parseAnd(t, left.at + 1))) ELSE left
parseOr(t, at) == moreOr(t, parseAnd(t, at))

Rule(id, condition, action, weight, missingPolicy) ==
    [id |-> id, condition |-> condition, action |-> action, weight |-> weight,
     missingPolicy |-> missingPolicy]

\* WEIGHT (in percent here) and MISSING are optional, in this order.
parseRule(t) ==
    LET condition == parseOr(t, 4)
        w == condition.at + 2
        weighted == IsKeyword(t, w, "WEIGHT")
        m == IF weighted THEN w + 2 ELSE w
        missing == IsKeyword(t, m, "MISSING")
    IN  IF /\ IsKeyword(t, 1, "RULE") /\ IsType(t, 2, "IDENT") /\ IsKeyword(t, 3, "WHEN")
           /\ ~IsError(condition) /\ IsKeyword(t, condition.at, "THEN")
           /\ Says(t, condition.at + 1, RuleActions)
           /\ weighted => IsType(t, w + 1, "NUMBER")
           /\ missing => Says(t, m + 1, MissingPolicies)
          THEN Got(Rule(t[2].value, condition.node, t[condition.at + 1].value[1],
                        IF weighted THEN t[w + 1].number ELSE 100,
                        IF missing THEN t[m + 1].value[1] ELSE "SKIP"),
                   IF missing THEN m + 2 ELSE m)
          ELSE ParseError

\* One rule and nothing after it.
parsePrefix(text) == IF IsTokenizable(text) THEN parseRule(tokenize(text)) ELSE ParseError
parse(text) ==
    LET r == IF IsTokenizable(text) THEN parseRule(tokenize(text)) ELSE ParseError
    IN  IF r.at = Len(text) + 1 THEN r ELSE ParseError

\* parseAll: a line that begins with RULE begins a rule.
BeginsRule(line) == line # <<>> /\ line[1] = Word(<<"RULE">>)
Chunks(lines) ==
    FoldLeft(LAMBDA chunks, line :
                 IF line = <<>> THEN chunks
                 ELSE IF chunks = <<>> \/ BeginsRule(line) THEN Append(chunks, line)
                 ELSE [chunks EXCEPT ![Len(chunks)] = @ \o line],
             <<>>, lines)
parseAll(lines) == LET chunks == Chunks(lines) IN [i \in DOMAIN chunks |-> parse(chunks[i])]
AllParsed(parsed) == \A i \in DOMAIN parsed : ~IsError(parsed[i])

-----------------------------------------------------------------------------
(* The evaluator *)

Missing == Value("missing", 0)

\* context: [dotted paths -> values]; a path it does not have is missing.
resolveField(field, context) == IF field \in DOMAIN context THEN context[field] ELSE Missing

applyMissingDefault(policy, ruleValue) ==
    IF ruleValue.kind = "boolean" THEN Truth(policy = "DEFAULT_HIGH")
    ELSE Value("number", IF policy = "DEFAULT_HIGH" THEN 999999 ELSE 0)

\* An order relation takes booleans for 1 and 0; with a string or a list
\* that is not a number it is false.
IsNumeric(v) == v.kind \in {"number", "boolean"}
Ordered(a, op, b) ==
    CASE op = ">" -> a > b [] op = ">=" -> a >= b [] op = "<" -> a < b [] OTHER -> a <= b

compareValues(v, op, ruleValue) ==
    LET listed == ruleValue.kind = "list" /\ \E i \in DOMAIN ruleValue.items : ruleValue.items[i] = v
    IN  CASE op \in OrderOps -> IsNumeric(v) /\ IsNumeric(ruleValue) /\ Ordered(v.of, op, ruleValue.of)
          [] op = "==" -> v = ruleValue
          [] op = "!=" -> v # ruleValue
          [] op = "IN" -> listed
          [] OTHER -> ~listed

Outcome(result, wasMissing) == [result |-> result, wasMissing |-> wasMissing]

evaluateComparison(node, context, policy) ==
    LET found == resolveField(node.field, context)
        v == IF found = Missing THEN applyMissingDefault(policy, node.value) ELSE found
    IN  IF found = Missing /\ policy = "SKIP" THEN Outcome(FALSE, TRUE)
        ELSE Outcome(compareValues(v, node.operator, node.value), FALSE)

MissingIfBoth(left, right) == Outcome(left.result /\ right.result, left.wasMissing /\ right.wasMissing)
BothHold(left, right) == Outcome(left.result /\ right.result, left.wasMissing \/ right.wasMissing)
OneHolds(left, right) == Outcome(left.result \/ right.result, left.wasMissing /\ right.wasMissing)

RECURSIVE evaluateExpression(_, _, _)
evaluateExpression(node, context, policy) ==
    IF node.type = "comparison" THEN evaluateComparison(node, context, policy)
    ELSE IF node.type = "not"
      THEN LET inner == evaluateExpression(node.operand, context, policy)
           IN  Outcome(~inner.result, inner.wasMissing)
    ELSE LET left == evaluateExpression(node.left, context, policy)
             right == evaluateExpression(node.right, context, policy)
         IN  IF node.op = "AND" THEN BothHold(left, right) ELSE OneHolds(left, right)

evaluate(rule, context) ==
    LET e == evaluateExpression(rule.condition, context, rule.missingPolicy)
        skipped == e.wasMissing /\ rule.missingPolicy = "SKIP"
    IN  [ruleId |-> rule.id, matched |-> e.result /\ ~skipped, skipped |-> skipped,
         action |-> rule.action, weight |-> rule.weight]

evaluateAll(rules, context) == [i \in DOMAIN rules |-> evaluate(rules[i], context)]

-----------------------------------------------------------------------------
(* How a rule is written: with the parentheses the precedences need. *)

RECURSIVE Written(_, _)
Parenthesised(inner, needed) == IF needed THEN <<Symbol("(")>> \o inner \o <<Symbol(")")>> ELSE inner
Strength(node) ==
    IF node.type = "logical" THEN IF node.op = "OR" THEN 1 ELSE 2 ELSE 3
WrittenLiteral(v) == IF v.kind = "boolean" THEN Word(<<IF v.of = 1 THEN "true" ELSE "false">>) ELSE Number(v.of)
Written(node, least) ==
    Parenthesised(
        IF node.type = "comparison"
          THEN <<Word(node.field), Symbol(node.operator), WrittenLiteral(node.value)>>
        ELSE IF node.type = "not" THEN <<Word(<<"NOT">>)>> \o Written(node.operand, 3)
        ELSE Written(node.left, Strength(node)) \o <<Word(<<node.op>>)>> \o Written(node.right, Strength(node) + 1),
        Strength(node) < least)

WrittenRule(rule) ==
    <<Word(<<"RULE">>), Word(rule.id), Word(<<"WHEN">>)>> \o Written(rule.condition, 1)
      \o <<Word(<<"THEN">>), Word(<<rule.action>>)>>
      \o (IF rule.weight = 100 THEN <<>> ELSE <<Word(<<"WEIGHT">>), Number(rule.weight)>>)
      \o (IF rule.missingPolicy = "SKIP" THEN <<>> ELSE <<Word(<<"MISSING">>), Word(<<rule.missingPolicy>>)>>)

IsParenthesis(x) == x.class = "symbol" /\ x.value[1] \in {"(", ")"}
Unquoted(x) == IF x.class = "quoted" /\ x.value # <<>> THEN Word(x.value) ELSE x
Substance(text) ==
    LET rest == SelectSeq(text, LAMBDA x : ~IsParenthesis(x))
    IN  [i \in DOMAIN rest |-> Unquoted(rest[i])]

\* With both NOT and OR in a condition an absent field may count as a false one.
RECURSIVE Uses(_, _)
Uses(node, op) ==
    \/ node.type = "not" /\ (op = "NOT" \/ Uses(node.operand, op))
    \/ node.type = "logical" /\ (node.op = op \/ Uses(node.left, op) \/ Uses(node.right, op))
MixesNotAndOr(node) == Uses(node, "NOT") /\ Uses(node, "OR")
=============================================================================
