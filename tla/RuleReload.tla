------------------------------ MODULE RuleReload ------------------------------
(***************************************************************************)
(* rule-engine-service: the rule set follows the flag rule-engine-version.  *)
(* A timer polls the flag each minute and loads the DSL of a new version    *)
(* from the flag rule-dsl-<version>; POST /rules/reload loads a version by  *)
(* hand.  Polls and loads are not serialised.  The flags are those of       *)
(* FeatureFlags, under a FEATURE_FLAG_SERVICE_URL that ends in /v1.         *)
(***************************************************************************)
EXTENDS FeatureFlags

CONSTANTS
    Versions, VersionFlag, DslFlag(_),
    Slots,          \* bound: polls and loads at one time
    MaxManual,      \* bound: reloads by hand
    MaxReloadFaults \* bound: requests that fail, and restarts

ASSUME ReloadBoundsAssumption == MaxManual \in Nat /\ MaxReloadFaults \in Nat

VARIABLES currentVersion, activeRuleSet, loads, manuals, reloadFaults

reloadVars == <<flags, flagOps, currentVersion, activeRuleSet, loads, manuals, reloadFaults>>

NoVersion == "null"
Free == [step |-> "free", version |-> NoVersion]

\* response.data?.value of a flag; axios rejects a 404.
FlagValue(name) == IF name \in DOMAIN flags THEN flags[name].value ELSE "404"

ReloadInit ==
    /\ FlagsInit
    /\ currentVersion = NoVersion /\ activeRuleSet = NoVersion
    /\ loads = [s \in Slots |-> Free] /\ manuals = 0 /\ reloadFaults = 0

checkAndReload(s) ==
    /\ loads[s] = Free
    /\ loads' = [loads EXCEPT ![s].step = "check"]
    /\ UNCHANGED <<flags, flagOps, currentVersion, activeRuleSet, manuals, reloadFaults>>

manualReload(s, version) ==
    /\ loads[s] = Free /\ manuals < MaxManual
    /\ manuals' = manuals + 1
    /\ loads' = [loads EXCEPT ![s] = [step |-> "load", version |-> version]]
    /\ UNCHANGED <<flags, flagOps, currentVersion, activeRuleSet, reloadFaults>>

\* The version flag is read; it is compared with the version of this moment.
CheckAnswered(s) ==
    /\ loads[s].step = "check"
    /\ LET newVersion == FlagValue(VersionFlag)
       IN  loads' = [loads EXCEPT ![s] =
                        IF newVersion \in Versions \ {currentVersion}
                          THEN [step |-> "load", version |-> newVersion] ELSE Free]
    /\ UNCHANGED <<flags, flagOps, currentVersion, activeRuleSet, manuals, reloadFaults>>

\* The DSL of the version at the time of the read.
FetchDsl(s) ==
    /\ loads[s].step = "load"
    /\ loads' = [loads EXCEPT ![s] = [step |-> FlagValue(DslFlag(loads[s].version)), version |-> loads[s].version]]
    /\ UNCHANGED <<flags, flagOps, currentVersion, activeRuleSet, manuals, reloadFaults>>

\* It parses when it has a RULE.  The rule set is named by its version.
parseDsl(dsl) == dsl = "RULE"
SwapEarly(version, dsl) ==
    /\ currentVersion' = version
    /\ activeRuleSet' = IF parseDsl(dsl) THEN version ELSE activeRuleSet
Swap(version, dsl) ==
    IF parseDsl(dsl) THEN /\ currentVersion' = version /\ activeRuleSet' = version
                     ELSE UNCHANGED <<currentVersion, activeRuleSet>>

loadVersion(s) ==
    /\ loads[s].step \notin {"free", "check", "load"}
    /\ Swap(loads[s].version, loads[s].step)
    /\ loads' = [loads EXCEPT ![s] = Free]
    /\ UNCHANGED <<flags, flagOps, manuals, reloadFaults>>

ReloadFault == reloadFaults < MaxReloadFaults /\ reloadFaults' = reloadFaults + 1

RequestFails(s) ==
    /\ ReloadFault /\ loads[s].step \in {"check", "load"}
    /\ loads' = [loads EXCEPT ![s] = Free]
    /\ UNCHANGED <<flags, flagOps, currentVersion, activeRuleSet, manuals>>

RestartReload ==
    /\ ReloadFault
    /\ currentVersion' = NoVersion /\ activeRuleSet' = NoVersion
    /\ loads' = [s \in Slots |-> Free]
    /\ UNCHANGED <<flags, flagOps, manuals>>

ReloadStep(s) == checkAndReload(s) \/ CheckAnswered(s) \/ FetchDsl(s) \/ loadVersion(s)
Operator == FlagsNext /\ UNCHANGED <<currentVersion, activeRuleSet, loads, manuals, reloadFaults>>

ReloadNext ==
    \/ RestartReload \/ Operator
    \/ \E s \in Slots : ReloadStep(s) \/ RequestFails(s) \/ \E v \in Versions : manualReload(s, v)

ReloadFairness == \A s \in Slots : WF_reloadVars(ReloadStep(s))
ReloadSpec == ReloadInit /\ [][ReloadNext]_reloadVars /\ ReloadFairness

ReloadTypeOK ==
    /\ FlagsTypeOK
    /\ currentVersion \in Versions \union {NoVersion} /\ activeRuleSet \in Versions \union {NoVersion}
    /\ \A s \in Slots : loads[s].version \in Versions \union {NoVersion}
    /\ manuals \in 0..MaxManual /\ reloadFaults \in 0..MaxReloadFaults

\* When the operator names a version whose DSL parses and leaves it so, its
\* rules become the active ones, whatever loads of other versions were on
\* their way, and stay it.
FlagIsLoadable == FlagValue(VersionFlag) \in Versions /\ parseDsl(FlagValue(DslFlag(FlagValue(VersionFlag))))
RuleSetFollowsTheFlag ==
    <>[](FlagIsLoadable => currentVersion = FlagValue(VersionFlag) /\ activeRuleSet = FlagValue(VersionFlag))
=============================================================================
