------------------------------- MODULE MCPlatform -------------------------------
(***************************************************************************)
(* The rules, the accounts, the edge and the browser next to each other.    *)
(* As in MCServices, focus says which component moves: they share no state, *)
(* and what one asks of another is any answer in its own module.            *)
(***************************************************************************)
EXTENDS AuthService, RuleWeights, RateLimit, Backpressure, ClientSdks, CaseConsole, BattleArena,
        DashboardViews, RuleReload, TLC

CONSTANTS NoFile, r1, r2, m1, m2, h1,
          Files, Contexts     \* of the registry: TheFiles and TheContexts

VARIABLES
    focus,
    file, started, rules, activeState, expressions, summary, requests

registryVars == <<file, started, rules, activeState, expressions, summary, requests>>
vars == <<focus, registryVars, weightVars, reloadVars, authVars, rateVars, sdkVars, pressureVars,
          consoleVars, arenaVars, viewVars>>

-----------------------------------------------------------------------------
(* The rules: texts, contexts and calls of the registry *)

Language == INSTANCE RuleLanguage
Editor == INSTANCE RuleBuilder

Trust == Language!Comparison(<<"device", "trustScore">>, "<", Language!Value("number", 40))
Tor == Language!Comparison(<<"network", "isTor">>, "==", Language!Truth(TRUE))
Small == {Trust, Tor, Language!Negation(Trust), Language!Logical("AND", Trust, Tor),
          Language!Logical("OR", Trust, Tor)}
Conditions ==
    Small \union {Language!Negation(c) : c \in Small}
        \union {Language!Logical(op, a, b) :
                    op \in {"AND", "OR"}, a \in Small,
                    b \in {Tor, Language!Logical("OR", Tor, Trust), Language!Logical("AND", Tor, Trust)}}

\* Every condition, and every weight and missing policy.
Tailed == {Language!Rule(<<"r">>, Language!Logical("AND", Trust, Tor), "REVIEW", w, p) :
               w \in {50, 100}, p \in Language!MissingPolicies}
TheRules == {Language!Rule(<<"r">>, c, "BLOCK", 100, "SKIP") : c \in Conditions} \union Tailed
TextOf == [r \in TheRules |-> Language!WrittenRule(r)]
Other == Language!WrittenRule(Language!Rule(<<"s">>, Trust, "REVIEW", 100, "SKIP"))

\* Each rule alone, each text with one token cut out, the action and the
\* policy in quotes, two rules of one file with the same id or not, the second
\* of them cut or not.
Cuts == UNION {{RemoveAt(TextOf[r], i) : i \in DOMAIN TextOf[r]} : r \in TheRules}
InQuotes(text) ==
    LET quoted == {<<w>> : w \in Language!RuleActions \union Language!MissingPolicies}
    IN  [i \in DOMAIN text |->
            IF text[i].value \in quoted THEN Language!QuotedWord(text[i].value[1], 1) ELSE text[i]]
TheFiles ==
    {<<TextOf[r]>> : r \in TheRules} \union {<<InQuotes(TextOf[r])>> : r \in Tailed} \union {<<c>> : c \in Cuts} \union {<<>>, NoFile}
        \union UNION {{<<TextOf[r], <<>>, b>> : b \in {TextOf[r], Other}} : r \in Tailed}
        \union {<<RemoveAt(TextOf[r], i), Other>> : r \in Tailed, i \in 1 .. 3}
TheContexts ==
    {[f \in fs |-> IF f = Trust.field THEN Language!Value("number", n) ELSE Language!Truth(b)] :
        fs \in SUBSET {Trust.field, Tor.field}, n \in {20, 60}, b \in BOOLEAN}
TheDtos == {[id |-> <<"r">>, expression |-> "e", outcome |-> "BLOCK", weight |-> 100, isActive |-> FALSE]}
ThePatches == {[isActive |-> FALSE], [weight |-> 20], [expression |-> "e"]}

Registry == INSTANCE RuleRegistry WITH
    AdminDtos <- TheDtos, Patches <- ThePatches, MaxCalls <- 1

TheChargebacks == {[firedRuleIds |-> <<r1, r2>>, outcome |-> "false_positive"],
                   [firedRuleIds |-> <<r1>>, outcome |-> "fraud_confirmed"]}

\* Two versions of the rules, and the flags an operator may set.
Flag(value) == [enabled |-> TRUE, rolloutPercentage |-> 100, merchantIds |-> {}, value |-> value]
TheSeed == [n \in {"d1"} |-> Flag("RULE")]
TheFlags == {[name |-> "version", flag |-> Flag("v1")], [name |-> "version", flag |-> Flag("v2")],
             [name |-> "d2", flag |-> Flag("RULE")], [name |-> "d2", flag |-> Flag("")]}
DslFlagOf(version) == IF version = "v1" THEN "d1" ELSE "d2"
SomeHash(merchant, flag) == 5

-----------------------------------------------------------------------------
(* The accounts and the edge *)

\* What the three requests of AuthService may be: a grant, a change of it, and its use.
TheAsks(r) ==
    CASE r = 1 -> {"token", "login", "rotateSecret", "purge", "rotateApiKey", "invite", "delete", "create", "update"}
      [] r = 2 -> {"refresh", "logout", "rotateSecret", "deactivateUser"}
      [] OTHER -> {"refresh", "admin", "introspect", "revoke", "activate", "setPassword"}

-----------------------------------------------------------------------------
(* The browser *)

\* The battles alone: a scenario of attacks and one of harmless events, and a
\* submission that fails.
TwoScenarios == << [events |-> 1, expected |-> "BLOCK", minimum |-> 50],
                   [events |-> 1, expected |-> "ALLOW", minimum |-> 0] >>
Tester == INSTANCE FraudTester WITH Scenarios <- TwoScenarios, MaxTesterErrors <- 1

\* The arena's: the first scenario of the catalogue, cut to one event.
FirstScenario == << [DEFAULT_SCENARIOS[1] EXCEPT !.events = 1] >>

-----------------------------------------------------------------------------

Init ==
    /\ focus \in {"registry", "weights", "reload", "auth", "limits", "sdk", "edge", "console",
                  "tester", "arena", "views"}
    /\ Registry!RegistryInit /\ WeightInit /\ ReloadInit /\ AuthInit
    /\ RateInit /\ SdkInit /\ BpInit /\ ConsoleInit /\ ArenaInit
    /\ ViewsInit
    /\ focus # "registry" => file = NoFile
    /\ focus # "weights" => topic[1].outcome = "false_positive"
    /\ focus # "sdk" => sdk = "web"
    /\ focus # "edge" => concern = "lag"
    /\ focus # "views" => tab = "feed"

Only(name) ==
    /\ focus = name /\ UNCHANGED focus
    /\ name # "registry" => UNCHANGED registryVars
    /\ name # "weights" => UNCHANGED weightVars
    /\ name # "reload" => UNCHANGED reloadVars
    /\ name # "auth" => UNCHANGED authVars
    /\ name # "limits" => UNCHANGED rateVars
    /\ name # "sdk" => UNCHANGED sdkVars
    /\ name # "edge" => UNCHANGED pressureVars
    /\ name # "console" => UNCHANGED consoleVars
    /\ name \notin {"tester", "arena"} => UNCHANGED testerVars
    /\ name # "arena" => UNCHANGED clientVars
    /\ name # "views" => UNCHANGED viewVars

Next ==
    \/ Only("registry") /\ Registry!RegistryNext
    \/ Only("weights") /\ WeightNext
    \/ Only("reload") /\ ReloadNext
    \/ Only("auth") /\ AuthNext
    \/ Only("limits") /\ RateNext
    \/ Only("sdk") /\ SdkNext
    \/ Only("edge") /\ BpNext
    \/ Only("console") /\ ConsoleNext
    \/ Only("tester") /\ Tester!TesterNext
    \/ Only("arena") /\ ArenaNext
    \/ Only("views") /\ ViewsNext

\* Of the two intervals, and of the requests that get an answer.
Fairness ==
    /\ \A s \in Slots : WF_vars(Only("reload") /\ ReloadStep(s))
    /\ WF_vars(Only("edge") /\ Evaluate) /\ WF_vars(Only("edge") /\ PollLag)
    /\ \A answer \in LagValues : SF_vars(Only("edge") /\ StoreLag(answer))

Spec == Init /\ [][Next]_vars /\ Fairness
-----------------------------------------------------------------------------
(* Properties: those of the components, which their modules state;         *)
(* CredentialsEnd is in AuthService, AuditExplainsWeight in RuleWeights,   *)
(* ChargedShareIsBounded in Backpressure, EventsSurviveFailures in         *)
(* ClientSdks,                                                             *)
(* RemovedMeansClosed in CaseConsole, StoppedIsOver in FraudTester (of its  *)
(* own battles and of the arena's), ArenaShowsItsBattle in BattleArena,     *)
(* ViewsShowTheirData in DashboardViews.                                   *)

\* The type invariants of the components; and the rule editor's two
\* conversions, which no state takes part in (RuleBuilder).  Of auth-service's
\* limits also that no stretch of time lets more requests pass than a full
\* bucket and its refill.
TypesOK ==
    CASE focus = "registry" -> Registry!RegistryTypeOK /\ (file = NoFile => Editor!EditorKeepsItsRules)
      [] focus = "weights"  -> WeightTypeOK
      [] focus = "reload"   -> ReloadTypeOK
      [] focus = "auth"     -> AuthTypeOK
      [] focus = "limits"   -> RateTypeOK /\ BucketBoundsEveryStretch
      [] focus = "sdk"      -> SdkTypeOK
      [] focus = "edge"     -> BpTypeOK
      [] focus = "console"  -> ConsoleTypeOK
      [] focus = "tester"   -> Tester!TesterTypeOK
      [] focus = "arena"    -> ArenaTypeOK
      [] focus = "views"    -> ViewsTypeOK

\* The parser (parser.ts) reads from a text the rule it was written from; and
\* what it accepts of any other text has, but for parentheses and quotes, the
\* tokens of that text: it drops, moves and invents none.
ParserKeepsTheText ==
    focus = "registry" /\ started /\ requests = 0 /\ file \notin {NoFile, <<>>} =>
        /\ \A r \in TheRules : file = <<TextOf[r]>> => rules = <<r>>
        /\ Len(file) = 1 /\ rules # <<>> =>
              Language!Substance(Language!WrittenRule(rules[1])) = Language!Substance(file[1])

\* RuleReload: the active rules become and stay those the flag names.
RulesFollowTheFlag == focus = "reload" => RuleSetFollowsTheFlag

\* Backpressure: when the lag stays low the rate returns to its full value.
EdgeRateRecovers == focus = "edge" => RateRecovers
=============================================================================
